---------------------------- MODULE AccessPublish ----------------------------
(***************************************************************************)
(* publishAccessSQL (`appkit db-access render -out`): several commands     *)
(* publish a migration under one name, each through a temporary file in    *)
(* the validated directory that is hard-linked to the name.                *)
(*                                                                         *)
(* The requested path names a directory object, which others may replace   *)
(* by another directory or by a symbolic link at any moment.  A file is    *)
(* its writer and whether its bytes are written and on disk; a power       *)
(* failure ends every command and truncates what was not synced.           *)
(*                                                                         *)
(* An operator whose name begins with that of the definition after it is a *)
(* faulty variant of it, against which a property is tested.               *)
(***************************************************************************)
EXTENDS Naturals

CONSTANTS
  Publishers,    \* commands with the same -out
  MaxRebinds     \* bound: replacements of the directory

ASSUME PublishAssumption == MaxRebinds \in Nat /\ {"other", "nobody"} \cap Publishers = {}

VARIABLES
  bound,      \* what the path of the directory names now
  target,     \* per directory, the file under the target name
  temp,       \* per publisher, its temporary file
  publisher,  \* per command: step, directory seen and opened, result
  writer,     \* history: per directory, who created the target
  durable,    \* directories whose names are on disk
  rebinds

publishVars == <<bound, target, temp, publisher, writer, durable, rebinds>>

Directories == {"d1", "d2"}
NoFile == [by |-> "nobody", bytes |-> "none", synced |-> TRUE]
PublishInit ==
  /\ bound = "d1" /\ rebinds = 0 /\ durable = {}
  /\ target = [d \in Directories |-> NoFile]
  /\ temp = [p \in Publishers |-> NoFile]
  /\ writer = [d \in Directories |-> "nobody"]
  /\ publisher = [p \in Publishers |-> [step |-> "lstat", expected |-> "none", dir |-> "none", result |-> "none"]]

PublisherAt(p, step) == publisher[p].step = step

To(p, step) == publisher' = [publisher EXCEPT ![p].step = step]

(* A refusal or an I/O error: the deferred clean-up closes the file and    *)
(* removes the temporary name.                                             *)
Refuse(p) ==
  /\ publisher' = [publisher EXCEPT ![p].step = "end", ![p].result = "error"]
  /\ temp' = [temp EXCEPT ![p] = NoFile]
  /\ UNCHANGED <<bound, target, writer, durable, rebinds>>

(* Any system call up to the link may fail. *)
CallFails(p) == publisher[p].step \notin {"tidy", "end"} /\ Refuse(p)

(* openValidatedAccessDirectory: Lstat, then resolve the path, open what it *)
(* was resolved to, and compare.                                            *)
LstatDirectory(p) ==
  /\ PublisherAt(p, "lstat")
  /\ IF bound = "symlink" THEN Refuse(p)
     ELSE /\ publisher' = [publisher EXCEPT ![p].step = "resolve", ![p].expected = bound]
          /\ UNCHANGED <<bound, target, temp, writer, durable, rebinds>>

(* A link that was put in the way meanwhile leads to another path. *)
EvalSymlinks(p) ==
  /\ PublisherAt(p, "resolve") /\ To(p, IF bound = "symlink" THEN "follow" ELSE "open")
  /\ UNCHANGED <<bound, target, temp, writer, durable, rebinds>>

(* openAccessDirectory: O_NOFOLLOW on every component.  The path a link led *)
(* to names either directory.                                               *)
OpenDirectory(p) ==
  /\ PublisherAt(p, "open") \/ PublisherAt(p, "follow")
  /\ IF PublisherAt(p, "open") /\ bound = "symlink" THEN Refuse(p)
     ELSE /\ \E d \in Directories :
               /\ PublisherAt(p, "open") => d = bound
               /\ publisher' = [publisher EXCEPT ![p].step = "verify", ![p].dir = d]
          /\ UNCHANGED <<bound, target, temp, writer, durable, rebinds>>

VerifyDirectory(p) ==
  /\ PublisherAt(p, "verify")
  /\ IF publisher[p].dir # publisher[p].expected THEN Refuse(p)
     ELSE To(p, "absent") /\ UNCHANGED <<bound, target, temp, writer, durable, rebinds>>

(* ensureAccessTargetAbsent: a first, friendly refusal. *)
TargetAbsent(p) ==
  /\ PublisherAt(p, "absent")
  /\ IF target[publisher[p].dir] # NoFile THEN Refuse(p)
     ELSE To(p, "create") /\ UNCHANGED <<bound, target, temp, writer, durable, rebinds>>

(* createAccessTempFile: a random name, O_EXCL, never somebody else's. *)
CreateTemp(p) ==
  /\ PublisherAt(p, "create") /\ To(p, "write")
  /\ temp' = [temp EXCEPT ![p] = [by |-> p, bytes |-> "none", synced |-> FALSE]]
  /\ UNCHANGED <<bound, target, writer, durable, rebinds>>

WriteTemp(p) ==
  /\ PublisherAt(p, "write") /\ To(p, "sync")
  /\ temp' = [temp EXCEPT ![p].bytes = "all"]
  /\ UNCHANGED <<bound, target, writer, durable, rebinds>>

SyncTempLater(p) ==
  PublisherAt(p, "sync") /\ To(p, "close") /\ UNCHANGED <<bound, target, temp, writer, durable, rebinds>>

SyncTemp(p) ==
  /\ PublisherAt(p, "sync") /\ To(p, "close")
  /\ temp' = [temp EXCEPT ![p].synced = TRUE]
  /\ UNCHANGED <<bound, target, writer, durable, rebinds>>

CloseTemp(p) == PublisherAt(p, "close") /\ To(p, "link") /\ UNCHANGED <<bound, target, temp, writer, durable, rebinds>>

(* Linkat: the commit point.  It never replaces an existing name. *)
Link(p) ==
  /\ PublisherAt(p, "link")
  /\ LET d == publisher[p].dir IN
       IF target[d] # NoFile THEN Refuse(p)
       ELSE /\ target' = [target EXCEPT ![d] = temp[p]]
            /\ writer' = [writer EXCEPT ![d] = p]
            /\ To(p, "tidy")
            /\ UNCHANGED <<bound, temp, durable, rebinds>>

(* The temporary name is removed and the directory synced, best effort:    *)
(* whatever becomes of that, the command reports success.                  *)
Tidy(p) ==
  /\ PublisherAt(p, "tidy")
  /\ temp' \in {temp, [temp EXCEPT ![p] = NoFile]}
  /\ durable' \in {durable, durable \union {publisher[p].dir}}
  /\ publisher' = [publisher EXCEPT ![p].step = "end", ![p].result = "ok"]
  /\ UNCHANGED <<bound, target, writer, rebinds>>

(* The path is made to name something else; somebody writes the file by    *)
(* hand; the machine loses power.                                          *)
Rebind ==
  /\ rebinds < MaxRebinds /\ rebinds' = rebinds + 1
  /\ bound' \in (Directories \union {"symlink"}) \ {bound}
  /\ UNCHANGED <<target, temp, publisher, writer, durable>>

WriteByHand ==
  /\ \E d \in Directories :
       /\ target[d] = NoFile /\ writer[d] = "nobody" /\ durable' = durable \union {d}
       /\ target' = [target EXCEPT ![d] = [by |-> "other", bytes |-> "all", synced |-> TRUE]]
       /\ writer' = [writer EXCEPT ![d] = "other"]
  /\ UNCHANGED <<bound, temp, publisher, rebinds>>

Truncated(file) == IF file.synced THEN file ELSE [file EXCEPT !.bytes = "none", !.synced = TRUE]

PowerFails ==
  /\ \E p \in Publishers : ~PublisherAt(p, "end")
  /\ \E lost \in SUBSET (Directories \ durable) :
       target' = [d \in Directories |-> IF d \in lost THEN NoFile ELSE Truncated(target[d])]
  /\ temp' = [p \in Publishers |-> Truncated(temp[p])]
  /\ publisher' = [p \in Publishers |-> [publisher[p] EXCEPT !.step = "end"]]
  /\ UNCHANGED <<bound, writer, durable, rebinds>>

PublishNext ==
  \/ \E p \in Publishers :
       \/ LstatDirectory(p) \/ EvalSymlinks(p) \/ OpenDirectory(p) \/ VerifyDirectory(p) \/ TargetAbsent(p)
       \/ CreateTemp(p) \/ WriteTemp(p) \/ SyncTemp(p) \/ CloseTemp(p) \/ Link(p) \/ Tidy(p) \/ CallFails(p)
  \/ Rebind \/ WriteByHand \/ PowerFails

PublishSpec == PublishInit /\ [][PublishNext]_publishVars

-----------------------------------------------------------------------------
(* A published migration is whole, stays whole over a power failure, is in *)
(* the directory that was validated, and is the work of the one command    *)
(* that reported success: a command that reports an error has published    *)
(* nothing, and none replaces what another put there (publishAccessSQL).   *)
PublishedOnce ==
  /\ \A d \in Directories :
       target[d] # NoFile => target[d].bytes = "all" /\ target[d].by = writer[d]
  /\ \A p \in Publishers :
       /\ publisher[p].result = "ok" => writer[publisher[p].expected] = p
       /\ publisher[p].result = "error" => \A d \in Directories : writer[d] # p

=============================================================================
