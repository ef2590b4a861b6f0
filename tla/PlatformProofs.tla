---------------------------- MODULE PlatformProofs ----------------------------
(***************************************************************************)
(* Publishing generated SQL (AccessPublish), the process-wide metrics      *)
(* (Telemetry), the pinned workflows (WorkflowRef), the plans of the       *)
(* command line (AgentPlan), the assembly of an App (Assembly), the        *)
(* options a profile hands to it (Profile) and the rate limits of a        *)
(* connection (TokenBucket), for any number of commands, services,         *)
(* streams, keys, options, senders and changes made by others.             *)
(***************************************************************************)
EXTENDS Assembly, Profile, TokenBucket, AccessPublish, Telemetry, WorkflowRef, AgentPlan,
        FiniteSetTheorems, SequenceTheorems, WellFoundedInduction, TLAPS

-----------------------------------------------------------------------------
(* Publishing. *)

FileType == [by : Publishers \cup {"nobody", "other"}, bytes : {"none", "all"}, synced : BOOLEAN]

Opened == {"verify", "absent", "create", "write", "sync", "close", "link", "tidy"}
Verified == Opened \ {"verify"}

Resolving == {"resolve", "open", "follow"}

PublisherType ==
  [step : {"lstat", "end"} \cup Resolving \cup Opened, expected : Directories \cup {"none"},
   dir : Directories \cup {"none"}, result : {"none", "ok", "error"}]

PublishTypeOK ==
  /\ bound \in Directories \cup {"symlink"}
  /\ target \in [Directories -> FileType]
  /\ temp \in [Publishers -> FileType]
  /\ publisher \in [Publishers -> PublisherType]
  /\ writer \in [Directories -> Publishers \cup {"nobody", "other"}]

Whole(by) == [by |-> by, bytes |-> "all", synced |-> TRUE]

(* How far a command is: the directory it validated, its temporary file,    *)
(* and whether it has linked.                                               *)
CommandInv(p) ==
  /\ publisher[p].step \in Opened \cup Resolving => publisher[p].expected \in Directories
  /\ publisher[p].step \in Opened => publisher[p].dir \in Directories
  /\ publisher[p].step \in Verified => publisher[p].dir = publisher[p].expected
  /\ publisher[p].step # "end" => publisher[p].result = "none"
  /\ publisher[p].step = "write" => temp[p].by = p
  /\ publisher[p].step = "sync" => temp[p].by = p /\ temp[p].bytes = "all"
  /\ publisher[p].step \in {"close", "link"} => temp[p] = Whole(p)
  /\ publisher[p].step = "tidy" => writer[publisher[p].dir] = p
  /\ publisher[p].step \notin {"tidy", "end"} => \A d \in Directories : writer[d] # p
  /\ publisher[p].result = "ok" => publisher[p].expected \in Directories /\ writer[publisher[p].expected] = p
  /\ publisher[p].result = "error" => \A d \in Directories : writer[d] # p

(* A file under the name is whole and its writer's; a name that was created *)
(* is lost only by a power failure, which no command survives.              *)
NameInv(d) ==
  /\ target[d] # NoFile => target[d] = Whole(writer[d])
  /\ (\E p \in Publishers : publisher[p].step # "end") /\ writer[d] # "nobody" => target[d] # NoFile

PublishInv ==
  PublishTypeOK /\ (\A p \in Publishers : CommandInv(p)) /\ (\A d \in Directories : NameInv(d))

LEMMA PublishInitInv == PublishInit => PublishInv
<1> SUFFICES ASSUME PublishInit PROVE PublishInv
  OBVIOUS
<1>1. PublishTypeOK
  BY DEF PublishInit, PublishTypeOK, Directories, NoFile, FileType, PublisherType, Opened, Resolving
<1>2. ASSUME NEW p \in Publishers PROVE CommandInv(p)
  BY PublishAssumption DEF PublishInit, CommandInv, Opened, Resolving, Verified
<1>3. ASSUME NEW d \in Directories PROVE NameInv(d)
  BY DEF PublishInit, NameInv
<1>4. QED
  BY <1>1, <1>2, <1>3 DEF PublishInv

(* A step of p that links nothing touches its own record and file only. *)
OwnStep(p) ==
  /\ publisher' \in [Publishers -> PublisherType] /\ temp' \in [Publishers -> FileType]
  /\ \A q \in Publishers : q # p => publisher'[q] = publisher[q] /\ temp'[q] = temp[q]
  /\ UNCHANGED <<bound, target, writer>>
  /\ publisher[p].step # "end"

LEMMA OwnStepInv ==
  ASSUME PublishInv, NEW p \in Publishers, OwnStep(p), CommandInv(p)'
  PROVE  PublishInv'
<1>1. PublishTypeOK'
  BY DEF PublishInv, PublishTypeOK, OwnStep
<1>2. ASSUME NEW q \in Publishers, q # p PROVE CommandInv(q)'
  BY <1>2 DEF PublishInv, CommandInv, OwnStep
<1>3. ASSUME NEW d \in Directories PROVE NameInv(d)'
  BY <1>3 DEF PublishInv, NameInv, OwnStep, Whole
<1>4. QED
  BY <1>1, <1>2, <1>3 DEF PublishInv

LEMMA CommandFacts ==
  ASSUME PublishInv, NEW p \in Publishers
  PROVE  /\ publisher \in [Publishers -> PublisherType] /\ publisher[p] \in PublisherType
         /\ temp \in [Publishers -> FileType] /\ temp[p] \in FileType /\ CommandInv(p)
         /\ bound \in Directories \cup {"symlink"}
BY DEF PublishInv, PublishTypeOK

LEMMA RefuseInv ==
  ASSUME PublishInv, NEW p \in Publishers, Refuse(p), publisher[p].step \notin {"tidy", "end"}
  PROVE  PublishInv'
<1>1. NoFile \in FileType
  BY DEF NoFile, FileType
<1>2. /\ publisher' \in [Publishers -> PublisherType] /\ temp' \in [Publishers -> FileType]
      /\ \A q \in Publishers : q # p => publisher'[q] = publisher[q] /\ temp'[q] = temp[q]
      /\ publisher'[p].step = "end" /\ publisher'[p].result = "error"
      /\ UNCHANGED <<bound, target, writer>>
  BY <1>1, CommandFacts DEF Refuse, PublisherType
<1>3. OwnStep(p)
  BY <1>2 DEF OwnStep
<1>4. CommandInv(p)'
  BY <1>2, CommandFacts DEF CommandInv, Opened, Resolving, Verified
<1>5. QED
  BY <1>3, <1>4, OwnStepInv

StepOnly(p, step) ==
  /\ publisher'[p].step = step /\ publisher'[p].expected = publisher[p].expected
  /\ publisher'[p].dir = publisher[p].dir /\ publisher'[p].result = publisher[p].result

LEMMA StepMoves ==
  ASSUME PublishInv, NEW p \in Publishers, NEW step \in Opened,
         publisher' = [publisher EXCEPT ![p].step = step]
  PROVE  /\ publisher' \in [Publishers -> PublisherType] /\ StepOnly(p, step)
         /\ \A q \in Publishers : q # p => publisher'[q] = publisher[q]
BY CommandFacts DEF PublisherType, StepOnly, Opened

(* The steps that leave the temporary file alone. *)
LEMMA LookingInv ==
  ASSUME PublishInv, NEW p \in Publishers,
         \/ LstatDirectory(p) \/ EvalSymlinks(p) \/ OpenDirectory(p)
         \/ VerifyDirectory(p) \/ TargetAbsent(p) \/ CloseTemp(p)
  PROVE  PublishInv'
<1>1. CASE Refuse(p)
  <2>1. publisher[p].step \notin {"tidy", "end"}
    BY DEF LstatDirectory, EvalSymlinks, OpenDirectory, VerifyDirectory, TargetAbsent, CloseTemp, PublisherAt
  <2>2. QED
    BY <1>1, <2>1, RefuseInv
<1>2. CASE ~Refuse(p)
  <2>1. UNCHANGED <<bound, target, temp, writer>>
    BY <1>2 DEF LstatDirectory, EvalSymlinks, OpenDirectory, VerifyDirectory, TargetAbsent, CloseTemp
  <2>2. CASE LstatDirectory(p)
    BY SMTT(60), <1>2, <2>1, <2>2, CommandFacts, OwnStepInv DEF LstatDirectory, PublisherAt, OwnStep, CommandInv,
       PublisherType, Opened, Resolving, Verified
  <2>3. CASE OpenDirectory(p)
    <3>1. PICK d \in Directories : publisher' = [publisher EXCEPT ![p].step = "verify", ![p].dir = d]
      BY <1>2, <2>3 DEF OpenDirectory
    <3>2. publisher[p].step \in Resolving
      BY <2>3 DEF OpenDirectory, PublisherAt, Resolving
    <3>3. /\ publisher' \in [Publishers -> PublisherType]
          /\ publisher'[p].step = "verify" /\ publisher'[p].expected = publisher[p].expected
          /\ publisher'[p].dir = d /\ publisher'[p].result = publisher[p].result
          /\ \A q \in Publishers : q # p => publisher'[q] = publisher[q]
      BY <3>1, CommandFacts DEF PublisherType, Opened
    <3>4. OwnStep(p)
      BY <2>1, <3>2, <3>3, CommandFacts DEF OwnStep, Resolving
    <3>5. CommandInv(p)'
      BY <2>1, <3>2, <3>3, CommandFacts DEF CommandInv, Opened, Resolving, Verified
    <3> QED
      BY <3>4, <3>5, OwnStepInv
  <2>4. CASE VerifyDirectory(p)
    <3>1. /\ publisher[p].step = "verify" /\ publisher' = [publisher EXCEPT ![p].step = "absent"]
          /\ publisher[p].dir = publisher[p].expected
      BY <1>2, <2>4 DEF VerifyDirectory, To, PublisherAt
    <3>2. OwnStep(p) /\ StepOnly(p, "absent")
      BY <2>1, <3>1, CommandFacts, StepMoves DEF OwnStep, Opened
    <3>3. CommandInv(p)'
      BY <2>1, <3>1, <3>2, CommandFacts DEF StepOnly, CommandInv, Opened, Resolving, Verified
    <3>4. QED
      BY <3>2, <3>3, OwnStepInv
  <2>5. CASE TargetAbsent(p)
    <3>1. /\ publisher[p].step = "absent" /\ publisher' = [publisher EXCEPT ![p].step = "create"]
      BY <1>2, <2>5 DEF TargetAbsent, To, PublisherAt
    <3>2. OwnStep(p) /\ StepOnly(p, "create")
      BY <2>1, <3>1, CommandFacts, StepMoves DEF OwnStep, Opened
    <3>3. CommandInv(p)'
      BY <2>1, <3>1, <3>2, CommandFacts DEF StepOnly, CommandInv, Opened, Resolving, Verified
    <3>4. QED
      BY <3>2, <3>3, OwnStepInv
  <2>6. CASE CloseTemp(p)
    <3>1. publisher[p].step = "close" /\ publisher' = [publisher EXCEPT ![p].step = "link"]
      BY <2>6 DEF CloseTemp, To, PublisherAt
    <3>2. OwnStep(p) /\ StepOnly(p, "link")
      BY <2>1, <3>1, CommandFacts, StepMoves DEF OwnStep, Opened
    <3>3. CommandInv(p)'
      BY <2>1, <3>1, <3>2, CommandFacts DEF StepOnly, CommandInv, Opened, Resolving, Verified, Whole
    <3>4. QED
      BY <3>2, <3>3, OwnStepInv
  <2>7. CASE EvalSymlinks(p)
    <3>1. PICK step \in {"open", "follow"} : publisher' = [publisher EXCEPT ![p].step = step]
      BY <2>7 DEF EvalSymlinks, To
    <3>2. publisher[p].step = "resolve"
      BY <2>7 DEF EvalSymlinks, PublisherAt
    <3>3. /\ publisher' \in [Publishers -> PublisherType] /\ StepOnly(p, step)
          /\ \A q \in Publishers : q # p => publisher'[q] = publisher[q]
      BY <3>1, CommandFacts DEF PublisherType, StepOnly, Resolving
    <3>4. OwnStep(p)
      BY <2>1, <3>2, <3>3, CommandFacts DEF OwnStep
    <3>5. CommandInv(p)'
      BY <2>1, <3>2, <3>3, CommandFacts DEF StepOnly, CommandInv, Opened, Resolving, Verified
    <3> QED
      BY <3>4, <3>5, OwnStepInv
  <2>8. QED
    BY <2>2, <2>3, <2>4, <2>5, <2>6, <2>7
<1>3. QED
  BY <1>1, <1>2

LEMMA WritingInv ==
  ASSUME PublishInv, NEW p \in Publishers, CreateTemp(p) \/ WriteTemp(p) \/ SyncTemp(p)
  PROVE  PublishInv'
<1>1. temp \in [Publishers -> FileType] /\ temp[p] \in FileType /\ CommandInv(p)
  BY CommandFacts
<1>2. CASE CreateTemp(p)
  <2>1. /\ publisher[p].step = "create" /\ publisher' = [publisher EXCEPT ![p].step = "write"]
        /\ temp' = [temp EXCEPT ![p] = [by |-> p, bytes |-> "none", synced |-> FALSE]]
        /\ UNCHANGED <<bound, target, writer>>
    BY <1>2 DEF CreateTemp, To, PublisherAt
  <2>2. /\ temp' \in [Publishers -> FileType] /\ temp'[p].by = p
        /\ \A q \in Publishers : q # p => temp'[q] = temp[q]
    BY <1>1, <2>1 DEF FileType
  <2>3. OwnStep(p) /\ StepOnly(p, "write")
    BY <2>1, <2>2, StepMoves DEF OwnStep, Opened
  <2>4. CommandInv(p)'
    BY <1>1, <2>1, <2>2, <2>3 DEF StepOnly, CommandInv, Opened, Resolving, Verified
  <2>5. QED
    BY <2>3, <2>4, OwnStepInv
<1>3. CASE WriteTemp(p)
  <2>1. /\ publisher[p].step = "write" /\ publisher' = [publisher EXCEPT ![p].step = "sync"]
        /\ temp' = [temp EXCEPT ![p].bytes = "all"]
        /\ UNCHANGED <<bound, target, writer>>
    BY <1>3 DEF WriteTemp, To, PublisherAt
  <2>2. /\ temp' \in [Publishers -> FileType] /\ temp'[p].by = temp[p].by /\ temp'[p].bytes = "all"
        /\ \A q \in Publishers : q # p => temp'[q] = temp[q]
    BY <1>1, <2>1 DEF FileType
  <2>3. OwnStep(p) /\ StepOnly(p, "sync")
    BY <2>1, <2>2, StepMoves DEF OwnStep, Opened
  <2>4. CommandInv(p)'
    BY <1>1, <2>1, <2>2, <2>3 DEF StepOnly, CommandInv, Opened, Resolving, Verified
  <2>5. QED
    BY <2>3, <2>4, OwnStepInv
<1>4. CASE SyncTemp(p)
  <2>1. /\ publisher[p].step = "sync" /\ publisher' = [publisher EXCEPT ![p].step = "close"]
        /\ temp' = [temp EXCEPT ![p].synced = TRUE]
        /\ UNCHANGED <<bound, target, writer>>
    BY <1>4 DEF SyncTemp, To, PublisherAt
  <2>2. temp[p].by = p /\ temp[p].bytes = "all"
    BY <1>1, <2>1 DEF CommandInv
  <2>3. /\ temp' \in [Publishers -> FileType] /\ temp'[p] = Whole(p)
        /\ \A q \in Publishers : q # p => temp'[q] = temp[q]
    BY <1>1, <2>1, <2>2 DEF FileType, Whole
  <2>4. OwnStep(p) /\ StepOnly(p, "close")
    BY <2>1, <2>3, StepMoves DEF OwnStep, Opened
  <2>5. CommandInv(p)'
    BY <1>1, <2>1, <2>3, <2>4 DEF StepOnly, CommandInv, Opened, Resolving, Verified, Whole
  <2>6. QED
    BY <2>4, <2>5, OwnStepInv
<1>5. QED
  BY <1>2, <1>3, <1>4

LEMMA LinkInv ==
  ASSUME PublishInv, NEW p \in Publishers, Link(p)
  PROVE  PublishInv'
<1> DEFINE d == publisher[p].dir
<1>1. /\ publisher[p].step = "link" /\ d \in Directories /\ temp[p] = Whole(p) /\ d = publisher[p].expected
      /\ publisher[p].result = "none"
  BY CommandFacts DEF Link, PublisherAt, CommandInv, Opened, Resolving, Verified
<1>2. CASE target[d] # NoFile
  BY <1>1, <1>2, RefuseInv DEF Link
<1>3. CASE target[d] = NoFile
  <2>1. /\ target' = [target EXCEPT ![d] = Whole(p)] /\ writer' = [writer EXCEPT ![d] = p]
        /\ publisher' = [publisher EXCEPT ![p].step = "tidy"] /\ temp' = temp /\ bound' = bound
    BY <1>1, <1>3 DEF Link, To
  <2>2. /\ publisher' \in [Publishers -> PublisherType] /\ publisher'[p].step = "tidy"
        /\ publisher'[p].dir = d /\ publisher'[p].expected = d /\ publisher'[p].result = "none"
        /\ \A q \in Publishers : q # p => publisher'[q] = publisher[q]
    BY <1>1, <2>1, CommandFacts DEF PublisherType, Opened
  <2> HIDE DEF d
  <2>3. /\ Whole(p) \in FileType /\ Whole(p) # NoFile
        /\ target \in [Directories -> FileType]
        /\ writer \in [Directories -> Publishers \cup {"nobody", "other"}]
    BY DEF Whole, FileType, NoFile, PublishInv, PublishTypeOK
  <2>4. /\ target' \in [Directories -> FileType] /\ target'[d] = Whole(p) /\ writer'[d] = p
        /\ writer' \in [Directories -> Publishers \cup {"nobody", "other"}]
        /\ \A e \in Directories : e # d => target'[e] = target[e] /\ writer'[e] = writer[e]
    BY <1>1, <2>1, <2>3
  <2>5. PublishTypeOK'
    BY <2>1, <2>2, <2>4 DEF PublishInv, PublishTypeOK
  <2>6. writer[d] = "nobody"
    BY <1>1, <1>3 DEF PublishInv, NameInv
  <2>7. ASSUME NEW q \in Publishers PROVE CommandInv(q)'
    <3>1. CASE q = p
      BY <1>1, <2>1, <2>2, <2>4, <3>1 DEF CommandInv, Opened, Resolving, Verified
    <3>2. CASE q # p
      <4>1. CommandInv(q) /\ q # "nobody" /\ publisher'[q] = publisher[q] /\ temp'[q] = temp[q]
        BY <2>1, <2>2, <3>2, PublishAssumption DEF PublishInv
      <4>2. \A e \in Directories : writer'[e] = q <=> writer[e] = q
        BY <2>4, <2>6, <3>2, <4>1
      <4>3. publisher[q].step = "tidy" => publisher[q].dir \in Directories
        BY <4>1 DEF CommandInv, Opened, Resolving
      <4>4. QED
        BY <4>1, <4>2, <4>3 DEF CommandInv
    <3>3. QED
      BY <3>1, <3>2
  <2>8. ASSUME NEW e \in Directories PROVE NameInv(e)'
    <3>1. CASE e = d
      BY <2>3, <2>4, <3>1 DEF NameInv, Whole
    <3>2. CASE e # d
      BY <1>1, <2>4, <3>2 DEF PublishInv, NameInv, Whole
    <3>3. QED
      BY <3>1, <3>2
  <2>9. QED
    BY <2>5, <2>7, <2>8 DEF PublishInv
<1>4. QED
  BY <1>2, <1>3

LEMMA TidyInv ==
  ASSUME PublishInv, NEW p \in Publishers, Tidy(p)
  PROVE  PublishInv'
<1>1. NoFile \in FileType
  BY DEF NoFile, FileType
<1>2. /\ publisher' \in [Publishers -> PublisherType]
      /\ \A q \in Publishers : q # p => publisher'[q] = publisher[q]
      /\ publisher'[p].step = "end" /\ publisher'[p].result = "ok"
      /\ publisher'[p].expected = publisher[p].expected /\ publisher[p].step = "tidy"
      /\ UNCHANGED <<bound, target, writer>>
  BY CommandFacts DEF Tidy, PublisherAt, PublisherType
<1>3. /\ temp' \in [Publishers -> FileType]
      /\ \A q \in Publishers : q # p => temp'[q] = temp[q]
  BY <1>1, CommandFacts DEF Tidy
<1>4. CommandInv(p)'
  BY <1>2, CommandFacts DEF CommandInv, Opened, Resolving, Verified
<1>5. QED
  BY <1>2, <1>3, <1>4, OwnStepInv DEF OwnStep

LEMMA WriteByHandInv ==
  ASSUME PublishInv, WriteByHand
  PROVE  PublishInv'
<1>1. PICK d \in Directories :
        /\ target[d] = NoFile /\ writer[d] = "nobody"
        /\ target' = [target EXCEPT ![d] = Whole("other")]
        /\ writer' = [writer EXCEPT ![d] = "other"]
        /\ UNCHANGED <<bound, temp, publisher>>
  BY DEF WriteByHand, Whole
<1>2. /\ Whole("other") \in FileType /\ Whole("other") # NoFile
      /\ target \in [Directories -> FileType]
      /\ writer \in [Directories -> Publishers \cup {"nobody", "other"}]
  BY DEF Whole, FileType, NoFile, PublishInv, PublishTypeOK
<1>3. /\ target' \in [Directories -> FileType] /\ target'[d] = Whole("other") /\ writer'[d] = "other"
      /\ writer' \in [Directories -> Publishers \cup {"nobody", "other"}]
      /\ \A e \in Directories : e # d => target'[e] = target[e] /\ writer'[e] = writer[e]
  BY <1>1, <1>2
<1>4. PublishTypeOK'
  BY <1>1, <1>3 DEF PublishInv, PublishTypeOK
<1>5. ASSUME NEW q \in Publishers PROVE CommandInv(q)'
  <2>1. CommandInv(q) /\ q \notin {"nobody", "other"}
    BY PublishAssumption DEF PublishInv
  <2>2. \A e \in Directories : writer'[e] = q <=> writer[e] = q
    BY <1>1, <1>3, <2>1
  <2>3. publisher[q].step = "tidy" => publisher[q].dir \in Directories
    BY <2>1 DEF CommandInv, Opened, Resolving
  <2>4. QED
    BY <1>1, <2>1, <2>2, <2>3 DEF CommandInv
<1>6. ASSUME NEW e \in Directories PROVE NameInv(e)'
  <2>1. CASE e = d
    BY <1>2, <1>3, <2>1 DEF NameInv, Whole
  <2>2. CASE e # d
    BY <1>1, <1>3, <2>2 DEF PublishInv, NameInv, Whole
  <2>3. QED
    BY <2>1, <2>2
<1>7. QED
  BY <1>4, <1>5, <1>6 DEF PublishInv

LEMMA PowerFailsInv ==
  ASSUME PublishInv, PowerFails
  PROVE  PublishInv'
<1>1. PICK lost \in SUBSET Directories :
        /\ target' = [d \in Directories |-> IF d \in lost THEN NoFile ELSE Truncated(target[d])]
        /\ temp' = [p \in Publishers |-> Truncated(temp[p])]
        /\ publisher' = [p \in Publishers |-> [publisher[p] EXCEPT !.step = "end"]]
        /\ UNCHANGED <<bound, writer>>
  BY DEF PowerFails
<1>2. \A file \in FileType : Truncated(file) \in FileType
  BY DEF Truncated, FileType
<1>3. /\ NoFile \in FileType /\ Truncated(NoFile) = NoFile
      /\ \A by : Truncated(Whole(by)) = Whole(by)
  BY DEF NoFile, FileType, Truncated, Whole
<1>4. PublishTypeOK'
  <2>1. target' \in [Directories -> FileType] /\ temp' \in [Publishers -> FileType]
    BY <1>1, <1>2, <1>3 DEF PublishInv, PublishTypeOK
  <2>2. publisher' \in [Publishers -> PublisherType]
    <3>1. \A p \in Publishers : [publisher[p] EXCEPT !.step = "end"] \in PublisherType
      BY DEF PublishInv, PublishTypeOK, PublisherType
    <3>2. QED
      BY <1>1, <3>1
  <2>3. QED
    BY <1>1, <2>1, <2>2 DEF PublishInv, PublishTypeOK
<1>5. ASSUME NEW p \in Publishers PROVE CommandInv(p)'
  <2>1. publisher'[p].step = "end" /\ publisher'[p].result = publisher[p].result
        /\ publisher'[p].expected = publisher[p].expected
    BY <1>1, CommandFacts DEF PublisherType
  <2>2. QED
    BY <1>1, <2>1, CommandFacts DEF CommandInv, Opened, Resolving, Verified
<1>6. ASSUME NEW d \in Directories PROVE NameInv(d)'
  <2>1. \A p \in Publishers : publisher'[p].step = "end"
    BY <1>1, CommandFacts DEF PublisherType
  <2>2. target'[d] \in {NoFile, Truncated(target[d])}
    BY <1>1
  <2>3. target[d] = NoFile \/ target[d] = Whole(writer[d])
    BY DEF PublishInv, NameInv
  <2>4. target'[d] # NoFile => target'[d] = Whole(writer[d])
    BY <1>3, <2>2, <2>3
  <2>5. QED
    BY <1>1, <2>1, <2>4 DEF NameInv, Whole
<1>7. QED
  BY <1>4, <1>5, <1>6 DEF PublishInv

LEMMA PublishNextInv == PublishInv /\ [PublishNext]_publishVars => PublishInv'
<1> SUFFICES ASSUME PublishInv, [PublishNext]_publishVars PROVE PublishInv'
  OBVIOUS
<1>1. CASE UNCHANGED publishVars \/ Rebind
  <2>1. UNCHANGED <<target, temp, publisher, writer>> /\ bound' \in Directories \cup {"symlink"}
    BY <1>1 DEF publishVars, Rebind, PublishInv, PublishTypeOK
  <2>2. QED
    BY <2>1 DEF PublishInv, PublishTypeOK, CommandInv, NameInv, Whole
<1>2. ASSUME NEW p \in Publishers, CallFails(p) PROVE PublishInv'
  BY <1>2, RefuseInv DEF CallFails
<1>3. QED
  BY <1>1, <1>2, LookingInv, WritingInv, LinkInv, TidyInv, WriteByHandInv, PowerFailsInv DEF PublishNext

LEMMA PublishInvOnce == PublishInv => PublishedOnce
<1> SUFFICES ASSUME PublishInv PROVE PublishedOnce
  OBVIOUS
<1>1. \A by : Whole(by).bytes = "all" /\ Whole(by).by = by
  BY DEF Whole
<1>2. \A d \in Directories : target[d] # NoFile => target[d].bytes = "all" /\ target[d].by = writer[d]
  BY <1>1 DEF PublishInv, NameInv
<1>3. \A p \in Publishers :
        /\ publisher[p].result = "ok" => writer[publisher[p].expected] = p
        /\ publisher[p].result = "error" => \A d \in Directories : writer[d] # p
  BY DEF PublishInv, CommandInv
<1>4. QED
  BY <1>2, <1>3 DEF PublishedOnce

(* A published migration is whole, also after a power failure, is in the   *)
(* directory that was validated, and is the work of the one command that    *)
(* reported success; a command that reports an error has published nothing  *)
(* (publishAccessSQL), for any number of commands.                          *)
THEOREM PublishedExactlyOnce == PublishSpec => []PublishedOnce
<1>1. PublishSpec => []PublishInv
  BY PublishInitInv, PublishNextInv, PTL DEF PublishSpec
<1>2. QED
  BY <1>1, PublishInvOnce, PTL

-----------------------------------------------------------------------------
(* Metrics. *)

LifecycleType == [state : States, failed : BOOLEAN, moving : States \cup {"no"}]

(* Instances counted in a state, and streams that are open. *)
In(x) == {s \in Services : Counted(s) = x}
OpenStreams == {c \in Calls : streams[c] = "open"}

CountsInv ==
  /\ lifecycle \in [Services -> LifecycleType]
  /\ counts = [x \in States |-> Cardinality(In(x))]

GaugeInv ==
  /\ streams \in [Calls -> {"new", "open", "closed"}]
  /\ gauge = [l \in {StreamAttrs} |-> Cardinality(OpenStreams)]

ProviderInv ==
  /\ \A s \in Signals : export[s].enabled \in BOOLEAN
  /\ setup = "starting" => provider = [s \in Signals |-> "none"]
  /\ setup \in {"failed", "stopped"} => \A s \in Signals : provider[s] # "open"
  /\ setup = "ready" => \A s \in Signals : (provider[s] = "open") <=> export[s].enabled

TelemetryInv == CountsInv /\ GaugeInv /\ ProviderInv

LEMMA TelemetryInitInv == TelemetryInit => TelemetryInv
<1> SUFFICES ASSUME TelemetryInit PROVE TelemetryInv
  OBVIOUS
<1>1. /\ lifecycle = [s \in Services |-> [state |-> "created", failed |-> FALSE, moving |-> "no"]]
      /\ counts = [x \in States |-> IF x = "created" THEN Cardinality(Services) ELSE 0]
      /\ streams = [c \in Calls |-> "new"] /\ gauge = [l \in {StreamAttrs} |-> 0]
  BY DEF TelemetryInit
<1>2. \A s \in Services : Counted(s) = "created"
  BY <1>1 DEF Counted
<1>3. \A x \in States : Cardinality(In(x)) = IF x = "created" THEN Cardinality(Services) ELSE 0
  <2>1. In("created") = Services
    BY <1>2 DEF In
  <2>2. \A x \in States : x # "created" => In(x) = {}
    BY <1>2 DEF In
  <2>3. QED
    BY <2>1, <2>2, FS_EmptySet
<1>4. CountsInv
  BY <1>1, <1>3 DEF CountsInv, LifecycleType, States
<1>5. GaugeInv
  <2>1. OpenStreams = {}
    BY <1>1 DEF OpenStreams
  <2>2. QED
    BY <1>1, <2>1, FS_EmptySet DEF GaugeInv
<1>6. ProviderInv
  BY DEF TelemetryInit, ProviderInv, Exports
<1>7. QED
  BY <1>4, <1>5, <1>6 DEF TelemetryInv

LEMMA InFacts ==
  ASSUME NEW x PROVE IsFiniteSet(In(x)) /\ Cardinality(In(x)) \in Nat /\ (Cardinality(In(x)) = 0 <=> In(x) = {})
<1>1. In(x) \in SUBSET Services
  BY DEF In
<1>2. IsFiniteSet(In(x))
  BY <1>1, TelemetryAssumption, FS_Subset
<1>3. QED
  BY <1>2, FS_CardinalityType, FS_EmptySet

(* One more, one less. *)
LEMMA CountMoves ==
  ASSUME NEW S, IsFiniteSet(S), NEW e
  PROVE  /\ e \notin S => Cardinality(S \cup {e}) = Cardinality(S) + 1
         /\ e \in S => Cardinality(S \ {e}) = Cardinality(S) - 1
<1>1. e \notin S => Cardinality(S \cup {e}) = Cardinality(S) + 1
  BY FS_AddElement
<1>2. e \in S => Cardinality(S \ {e}) = Cardinality(S) - 1
  BY FS_RemoveElement
<1>3. QED
  BY <1>1, <1>2

LEMMA BeginTransitionInv ==
  ASSUME TelemetryInv, NEW s \in Services, NEW next \in States, BeginTransition(s, next)
  PROVE  CountsInv'
<1>1. PICK from \in States : from = lifecycle[s].state
  BY DEF TelemetryInv, CountsInv, LifecycleType
<1> DEFINE b == lifecycle[s].failed \/ next = "failed"
<1>2. /\ lifecycle \in [Services -> LifecycleType] /\ lifecycle[s] \in LifecycleType
      /\ counts = [x \in States |-> Cardinality(In(x))]
      /\ lifecycle[s].moving = "no" /\ from # next
  BY <1>1 DEF TelemetryInv, CountsInv, BeginTransition, LifecycleType
<1>3. lifecycle' = [lifecycle EXCEPT ![s].moving = next, ![s].failed = b] /\ counts' = Move(counts, from, next)
  BY <1>1, <1>2 DEF BeginTransition, LifecycleType
<1>4. b \in BOOLEAN
  OBVIOUS
<1> HIDE DEF b
<1>5. /\ lifecycle' \in [Services -> LifecycleType] /\ lifecycle'[s].moving = next
      /\ \A q \in Services : q # s => lifecycle'[q] = lifecycle[q]
  BY <1>2, <1>3, <1>4 DEF LifecycleType
<1>6. Counted(s) = from /\ Counted(s)' = next /\ next # "no"
  BY <1>1, <1>2, <1>5 DEF Counted, States
<1>7. \A q \in Services : q # s => Counted(q)' = Counted(q)
  BY <1>5 DEF Counted
<1>8. /\ In(from)' = In(from) \ {s} /\ s \in In(from)
      /\ In(next)' = In(next) \cup {s} /\ s \notin In(next)
      /\ \A x \in States : x \notin {from, next} => In(x)' = In(x)
  BY <1>2, <1>6, <1>7 DEF In
<1>9. /\ Cardinality(In(from)') = Cardinality(In(from)) - 1
      /\ Cardinality(In(next)') = Cardinality(In(next)) + 1
      /\ Cardinality(In(from)) \in Nat /\ Cardinality(In(from)) # 0
  BY <1>8, InFacts, CountMoves
<1>10. counts' = [x \in States |-> Cardinality(In(x)')]
  <2>1. (IF Cardinality(In(from)) <= 1 THEN 0 ELSE Cardinality(In(from)) - 1) = Cardinality(In(from)')
    BY <1>9
  <2>2. counts' = [counts EXCEPT ![from] = Cardinality(In(from)'), ![next] = Cardinality(In(next)')]
    BY <1>2, <1>3, <1>9, <2>1 DEF Move
  <2>3. QED
    BY <1>2, <1>8, <2>2
<1>11. QED
  BY <1>5, <1>10 DEF CountsInv

LEMMA EndTransitionInv ==
  ASSUME TelemetryInv, NEW s \in Services, EndTransition(s)
  PROVE  CountsInv'
<1>1. /\ lifecycle \in [Services -> LifecycleType] /\ lifecycle[s] \in LifecycleType
      /\ lifecycle[s].moving # "no" /\ lifecycle[s].moving \in States /\ counts' = counts
      /\ lifecycle' = [lifecycle EXCEPT ![s].state = lifecycle[s].moving, ![s].moving = "no"]
  BY DEF TelemetryInv, CountsInv, EndTransition, LifecycleType
<1>2. /\ lifecycle' \in [Services -> LifecycleType] /\ lifecycle'[s].moving = "no"
      /\ lifecycle'[s].state = lifecycle[s].moving
      /\ \A q \in Services : q # s => lifecycle'[q] = lifecycle[q]
  BY <1>1 DEF LifecycleType
<1>3. \A q \in Services : Counted(q)' = Counted(q)
  BY <1>1, <1>2 DEF Counted
<1>4. \A x \in States : In(x)' = In(x)
  BY <1>3 DEF In
<1>5. QED
  BY <1>1, <1>2, <1>4 DEF TelemetryInv, CountsInv

LEMMA StreamCountInv ==
  ASSUME TelemetryInv, NEW c \in Calls, StreamOpened(c) \/ StreamClosed(c)
  PROVE  GaugeInv'
<1>1. /\ streams \in [Calls -> {"new", "open", "closed"}]
      /\ gauge = [l \in {StreamAttrs} |-> Cardinality(OpenStreams)]
  BY DEF TelemetryInv, GaugeInv
<1>2. IsFiniteSet(OpenStreams)
  <2>1. OpenStreams \in SUBSET Calls
    BY DEF OpenStreams
  <2>2. QED
    BY <2>1, TelemetryAssumption, FS_Subset
<1>3. CASE StreamOpened(c)
  <2>1. streams' \in [Calls -> {"new", "open", "closed"}] /\ OpenStreams' = OpenStreams \cup {c} /\ c \notin OpenStreams
    BY <1>1, <1>3 DEF StreamOpened, OpenStreams
  <2>2. gauge' = [l \in {StreamAttrs} |-> Cardinality(OpenStreams) + 1]
    BY <1>1, <1>3 DEF StreamOpened
  <2>3. Cardinality(OpenStreams') = Cardinality(OpenStreams) + 1
    BY <1>2, <2>1, CountMoves
  <2>4. QED
    BY <2>1, <2>2, <2>3 DEF GaugeInv, StreamAttrs
<1>4. CASE StreamClosed(c)
  <2>1. streams' \in [Calls -> {"new", "open", "closed"}] /\ OpenStreams' = OpenStreams \ {c} /\ c \in OpenStreams
    BY <1>1, <1>4 DEF StreamClosed, OpenStreams
  <2>2. gauge' = [l \in {StreamAttrs} |-> Cardinality(OpenStreams) - 1]
    BY <1>1, <1>4 DEF StreamClosed
  <2>3. Cardinality(OpenStreams') = Cardinality(OpenStreams) - 1
    BY <1>2, <2>1, CountMoves
  <2>4. QED
    BY <2>1, <2>2, <2>3 DEF GaugeInv, StreamAttrs
<1>5. QED
  BY <1>3, <1>4

LEMMA ProviderStepInv ==
  ASSUME TelemetryInv, InitTelemetry \/ ShutdownTelemetry
  PROVE  ProviderInv'
<1>1. ProviderInv /\ export' = export
  BY DEF TelemetryInv, InitTelemetry, ShutdownTelemetry
<1>2. CASE InitTelemetry
  <2>1. provider = [s \in Signals |-> "none"]
    BY <1>1, <1>2 DEF InitTelemetry, ProviderInv
  <2>2. \/ setup' = "failed" /\ provider' = provider
        \/ /\ setup' = "failed"
           /\ provider' = [provider EXCEPT !["traces"] = IF export["traces"].enabled THEN "closed" ELSE "none"]
        \/ /\ setup' = "ready"
           /\ provider' = [s \in Signals |-> IF export[s].enabled THEN "open" ELSE "none"]
    BY <1>2 DEF InitTelemetry
  <2>3. CASE setup' = "failed"
    <3>1. \A s \in Signals : provider'[s] # "open"
      BY <2>1, <2>2, <2>3 DEF Signals
    <3>2. QED
      BY <1>1, <2>3, <3>1 DEF ProviderInv
  <2>4. CASE setup' = "ready"
    <3>1. \A s \in Signals : (provider'[s] = "open") <=> export[s].enabled
      BY <2>2, <2>4
    <3>2. QED
      BY <1>1, <2>4, <3>1 DEF ProviderInv
  <2>5. QED
    BY <2>2, <2>3, <2>4
<1>3. CASE ShutdownTelemetry
  BY <1>1, <1>3 DEF ShutdownTelemetry, ProviderInv
<1>4. QED
  BY <1>2, <1>3

LEMMA TelemetryNextInv == TelemetryInv /\ [TelemetryNext]_telemetryVars => TelemetryInv'
<1> SUFFICES ASSUME TelemetryInv, [TelemetryNext]_telemetryVars PROVE TelemetryInv'
  OBVIOUS
<1>1. ASSUME UNCHANGED <<lifecycle, counts>> PROVE CountsInv'
  <2>1. \A x \in States : In(x)' = In(x)
    BY <1>1 DEF In, Counted
  <2>2. QED
    BY <1>1, <2>1 DEF TelemetryInv, CountsInv
<1>2. ASSUME UNCHANGED <<streams, gauge>> PROVE GaugeInv'
  BY <1>2 DEF TelemetryInv, GaugeInv, OpenStreams
<1>3. ASSUME UNCHANGED <<export, provider, setup>> PROVE ProviderInv'
  BY <1>3 DEF TelemetryInv, ProviderInv
<1>4. CASE UNCHANGED telemetryVars
  BY <1>1, <1>2, <1>3, <1>4 DEF telemetryVars, TelemetryInv
<1>5. CASE InitTelemetry \/ ShutdownTelemetry
  BY <1>1, <1>2, <1>5, ProviderStepInv DEF InitTelemetry, ShutdownTelemetry, TelemetryInv
<1>6. ASSUME NEW s \in Services, EndTransition(s) \/ \E next \in States : BeginTransition(s, next)
      PROVE  TelemetryInv'
  BY <1>2, <1>3, <1>6, EndTransitionInv, BeginTransitionInv DEF EndTransition, BeginTransition, TelemetryInv
<1>7. ASSUME NEW c \in Calls, StreamOpened(c) \/ StreamClosed(c) PROVE TelemetryInv'
  BY <1>1, <1>3, <1>7, StreamCountInv DEF StreamOpened, StreamClosed, TelemetryInv
<1>8. QED
  BY <1>4, <1>5, <1>6, <1>7 DEF TelemetryNext

(* Whatever the raw values are. *)
LEMMA Labels == LabelsAreBounded
<1>1. \A set, value : OneOf(set, value) \in set \cup {"other"}
  BY DEF OneOf
<1>2. ASSUME NEW x \in Raw, NEW y \in Raw, NEW z \in Raw
      PROVE  LET attrs == StreamFrameAttrs(x, y, z) IN
               /\ attrs[1] \in Transports \cup {"other"} /\ attrs[2] \in Directions \cup {"other"}
               /\ attrs[3] # "other" => attrs[1] # "other" /\ attrs[3] \in Frames[attrs[1]]
  <2>1. /\ StreamFrameAttrs(x, y, z)[1] = OneOf(Transports, x)
        /\ StreamFrameAttrs(x, y, z)[2] = OneOf(Directions, y)
        /\ StreamFrameAttrs(x, y, z)[3] = StreamFrameType(x, z)
    BY DEF StreamFrameAttrs
  <2>2. ASSUME StreamFrameType(x, z) # "other"
        PROVE  OneOf(Transports, x) # "other" /\ StreamFrameType(x, z) \in Frames[OneOf(Transports, x)]
    <3>1. x \in Transports /\ StreamFrameType(x, z) = OneOf(Frames[x], z)
      BY <2>2 DEF StreamFrameType
    <3>2. OneOf(Transports, x) = x /\ x # "other"
      BY <3>1 DEF OneOf, Transports
    <3>3. QED
      BY <1>1, <2>2, <3>1, <3>2
  <2>3. QED
    BY <1>1, <2>1, <2>2
<1>3. ASSUME NEW x \in Raw, NEW y \in Raw, NEW z \in Raw
      PROVE  /\ HTTPClientCall(x, y, z)[1] \in HTTPMethods \cup {"other"}
             /\ HTTPClientCall(x, y, z)[2] \in StatusClasses \cup {"other"}
  BY <1>1 DEF HTTPClientCall
<1>4. \A x \in Raw : StreamErrorCode(x) \in ErrorCodes \cup {"other"}
  BY <1>1 DEF StreamErrorCode
<1>5. \A sql : Operation(sql) \in Verbs \cup {"other"}
  BY <1>1 DEF Operation
<1>6. QED
  BY <1>2, <1>3, <1>4, <1>5 DEF LabelsAreBounded

LEMMA SnapshotIsTrue ==
  ASSUME TelemetryInv
  PROVE  Snapshot = {<<Counted(s), Cardinality({t \in Services : Counted(t) = Counted(s)})>> : s \in Services}
<1>1. \A x \in States : counts[x] = Cardinality(In(x)) /\ (counts[x] > 0 <=> In(x) # {})
  BY InFacts DEF TelemetryInv, CountsInv
<1>2. Snapshot = {<<x, Cardinality(In(x))>> : x \in {y \in States : In(y) # {}}}
  BY <1>1 DEF Snapshot
<1>3. \A s \in Services : Counted(s) \in States
  BY DEF TelemetryInv, CountsInv, LifecycleType, Counted
<1>4. {y \in States : In(y) # {}} = {Counted(s) : s \in Services}
  BY <1>3 DEF In
<1>5. Snapshot = {<<Counted(s), Cardinality(In(Counted(s)))>> : s \in Services}
  BY <1>2, <1>4
<1>6. QED
  BY <1>5 DEF In

LEMMA TelemetryInvTrue == TelemetryInv => MetricsAreTrue
<1> SUFFICES ASSUME TelemetryInv PROVE MetricsAreTrue
  OBVIOUS
<1>1. gauge[StreamAttrs] = Cardinality({c \in Calls : streams[c] = "open"})
  BY DEF TelemetryInv, GaugeInv, OpenStreams
<1>2. QED
  BY <1>1, SnapshotIsTrue, Labels DEF TelemetryInv, ProviderInv, MetricsAreTrue

(* The aggregates tell the truth at every moment they can be scraped: one   *)
(* row of Snapshot per service however many transitions are under way, a    *)
(* gauge that is the number of open streams, no exporter left open, and     *)
(* labels of the enumerations only (hoststate, internal/metrics,            *)
(* telemetry), for any number of services and streams.                      *)
THEOREM MetricsTellTheTruth == TelemetrySpec => []MetricsAreTrue
<1>1. TelemetrySpec => []TelemetryInv
  BY TelemetryInitInv, TelemetryNextInv, PTL DEF TelemetrySpec
<1>2. QED
  BY <1>1, TelemetryInvTrue, PTL

-----------------------------------------------------------------------------
(* Pinned workflows. *)

Resolution ==
  [step : {"start", "head", "show", "sync"}, current : {"none", "appkit", "other"},
   ref : Commits \cup {"none"}, result : {"none", "error", "synced"}, file : 1..3]

(* A binary of AppKit's main module carries a commit of AppKit, or none. *)
RefTypeOK ==
  /\ head \in Commits /\ worktree \in {"appkit", "other"}
  /\ build.main = "appkit" => build.revision \in AppKit \cup {"none", "short"}
  /\ resolve \in Resolution
  /\ files \in [Workflows -> AppKit \cup {"none"}]

(* What is being written is a commit of AppKit, and the files before the    *)
(* current one have it; a run that reports success has written them all.    *)
SyncInv ==
  /\ resolve.step = "sync" =>
       /\ resolve.ref \in AppKit
       /\ \A k \in 1..2 : k < resolve.file => files[WorkflowOrder[k]] = resolve.ref
  /\ resolve.step # "sync" => resolve.file = 1 /\ resolve.result # "synced"
  /\ resolve.result = "synced" => resolve.file = 3

RefInv == RefTypeOK /\ SyncInv

LEMMA RefInitInv == RefInit => RefInv
<1> SUFFICES ASSUME RefInit PROVE RefInv
  OBVIOUS
<1>1. RefTypeOK
  BY DEF RefInit, RefTypeOK, Resolution, Commits, AppKit, ModuleOf
<1>2. SyncInv
  BY DEF RefInit, SyncInv
<1> QED
  BY <1>1, <1>2 DEF RefInv

(* The resolution moves on, and nothing else does. *)
LEMMA ResolutionMoves ==
  ASSUME RefInv, Unmoved, resolve' \in Resolution,
         resolve'.file = resolve.file,
         resolve'.step = "sync" =>
           resolve'.ref \in AppKit /\ (resolve.step = "sync" => resolve'.ref = resolve.ref),
         resolve'.step # "sync" => resolve.step # "sync" /\ resolve'.result # "synced",
         resolve'.result = "synced" => resolve.file = 3
  PROVE  RefInv'
<1>1. RefTypeOK'
  BY DEF RefInv, RefTypeOK, Unmoved
<1>2. resolve.file \in 1..3 /\ files' = files
  BY DEF Unmoved, RefInv, RefTypeOK, Resolution
<1>3. SyncInv'
  BY <1>2 DEF RefInv, SyncInv
<1> QED
  BY <1>1, <1>3 DEF RefInv

(* A failure ends the resolution where it stands. *)
LEMMA ErrorInv ==
  ASSUME RefInv, resolve' = [resolve EXCEPT !.result = "error"], Unmoved
  PROVE  RefInv'
<1>1. resolve \in Resolution
  BY DEF RefInv, RefTypeOK
<1>2. /\ resolve' \in Resolution /\ resolve'.step = resolve.step /\ resolve'.result = "error"
      /\ resolve'.ref = resolve.ref /\ resolve'.file = resolve.file
  BY <1>1 DEF Resolution
<1>3. resolve.step = "sync" => resolve.ref \in AppKit
  BY DEF RefInv, SyncInv
<1> QED
  BY <1>2, <1>3, ResolutionMoves

(* A commit of AppKit is what the files will be pinned to; anything shorter *)
(* than a commit is an error.                                               *)
LEMMA AnswerInv ==
  ASSUME RefInv, resolve.result = "none", resolve.step # "sync",
         NEW ref, ref \in Commits => ref \in AppKit, Answer(ref)
  PROVE  RefInv'
<1>1. resolve \in Resolution /\ Unmoved
  BY DEF RefInv, RefTypeOK, Answer
<1>2. CASE ref \in Commits
  <2>1. resolve' = [resolve EXCEPT !.step = "sync", !.ref = ref]
    BY <1>2 DEF Answer, FullCommit
  <2>2. /\ resolve' \in Resolution /\ resolve'.step = "sync" /\ resolve'.ref = ref
        /\ resolve'.file = resolve.file /\ resolve'.result = "none"
    BY <1>1, <1>2, <2>1 DEF Resolution
  <2> QED
    BY <1>1, <1>2, <2>2, ResolutionMoves
<1>3. CASE ref \notin Commits
  BY <1>1, <1>3, ErrorInv DEF Answer, FullCommit
<1> QED
  BY <1>2, <1>3

LEMMA ResolvedInv ==
  ASSUME RefInv, Download \/ BuildInfo \/ ShowGoMod
  PROVE  RefInv'
<1>1. CASE Download
  <2>1. PICK origin \in AppKit \cup {"none"} : Answer(origin)
    BY <1>1 DEF Download
  <2>2. origin \in Commits => origin \in AppKit
    BY DEF Commits, AppKit
  <2> QED
    BY <1>1, <2>1, <2>2, AnswerInv DEF Download, ResolveAt
<1>2. CASE BuildInfo
  <2>1. build.revision \in Commits => build.revision \in AppKit
    BY <1>2 DEF BuildInfo, RefInv, RefTypeOK, Commits, AppKit
  <2> QED
    BY <1>2, <2>1, AnswerInv DEF BuildInfo, ResolveAt
<1>3. CASE ShowGoMod
  <2>1. CASE resolve.current = "appkit" /\ ModuleOf(resolve.ref) = "appkit"
    <3>1. resolve.ref \in AppKit
      BY <2>1 DEF ModuleOf
    <3> QED
      BY <1>3, <2>1, <3>1, AnswerInv DEF ShowGoMod, ResolveAt
  <2>2. CASE ~(resolve.current = "appkit" /\ ModuleOf(resolve.ref) = "appkit")
    BY <1>3, <2>2, ErrorInv DEF ShowGoMod, Error
  <2> QED
    BY <2>1, <2>2
<1> QED
  BY <1>1, <1>2, <1>3

LEMMA ResolvingInv ==
  ASSUME RefInv, ReadGoMod \/ RevParse \/ SyncDone
  PROVE  RefInv'
<1>1. resolve \in Resolution /\ worktree \in {"appkit", "other"} /\ head \in Commits
  BY DEF RefInv, RefTypeOK
<1>2. CASE ReadGoMod
  <2>1. Unmoved /\ resolve.step = "start" /\ resolve.result = "none"
        /\ resolve' = [resolve EXCEPT !.step = "head", !.current = worktree]
    BY <1>2 DEF ReadGoMod, ResolveAt
  <2>2. /\ resolve' \in Resolution /\ resolve'.step = "head" /\ resolve'.file = resolve.file
        /\ resolve'.result = "none"
    BY <1>1, <2>1 DEF Resolution
  <2> QED
    BY <2>1, <2>2, ResolutionMoves
<1>3. CASE RevParse
  <2>1. Unmoved /\ resolve.step = "head" /\ resolve.result = "none"
        /\ resolve' = [resolve EXCEPT !.step = "show", !.ref = head]
    BY <1>3 DEF RevParse, ResolveAt
  <2>2. /\ resolve' \in Resolution /\ resolve'.step = "show" /\ resolve'.file = resolve.file
        /\ resolve'.result = "none"
    BY <1>1, <2>1 DEF Resolution
  <2> QED
    BY <2>1, <2>2, ResolutionMoves
<1>4. CASE SyncDone
  <2>1. Unmoved /\ resolve.step = "sync" /\ resolve.file > Len(WorkflowOrder)
        /\ resolve' = [resolve EXCEPT !.result = "synced"]
    BY <1>4 DEF SyncDone, ResolveAt
  <2>2. Len(WorkflowOrder) = 2
    BY DEF WorkflowOrder
  <2>3. /\ resolve' \in Resolution /\ resolve'.step = "sync" /\ resolve'.file = resolve.file
        /\ resolve'.ref = resolve.ref /\ resolve.file = 3
    BY <1>1, <2>1, <2>2 DEF Resolution
  <2>4. resolve.ref \in AppKit
    BY <2>1 DEF RefInv, SyncInv
  <2> QED
    BY <2>1, <2>3, <2>4, ResolutionMoves
<1> QED
  BY <1>2, <1>3, <1>4

(* One more file has the commit, and the earlier ones keep it. *)
LEMMA SyncFileInv ==
  ASSUME RefInv, SyncFile
  PROVE  RefInv'
<1>1. /\ resolve \in Resolution /\ resolve.step = "sync" /\ resolve.result = "none"
      /\ resolve.ref \in AppKit /\ files \in [Workflows -> AppKit \cup {"none"}]
      /\ \A k \in 1..2 : k < resolve.file => files[WorkflowOrder[k]] = resolve.ref
  BY DEF RefInv, RefTypeOK, SyncInv, SyncFile, ResolveAt
<1>2. Len(WorkflowOrder) = 2 /\ WorkflowOrder[1] = "ci.yml" /\ WorkflowOrder[2] = "lint.yml"
  BY DEF WorkflowOrder
<1>3. resolve.file \in 1..2 /\ resolve' = [resolve EXCEPT !.file = @ + 1]
  BY <1>1, <1>2 DEF SyncFile, Resolution
<1>4. /\ resolve' \in Resolution /\ resolve'.step = "sync" /\ resolve'.result = "none"
      /\ resolve'.ref = resolve.ref /\ resolve'.file = resolve.file + 1
  BY <1>1, <1>3 DEF Resolution
<1>5. files' = [files EXCEPT ![WorkflowOrder[resolve.file]] = resolve.ref]
  BY DEF SyncFile
<1>6. files' \in [Workflows -> AppKit \cup {"none"}]
  BY <1>1, <1>5
<1>7. RefTypeOK'
  BY <1>4, <1>6 DEF RefInv, RefTypeOK, SyncFile
<1>8. files'[WorkflowOrder[1]] = resolve.ref /\ (resolve.file = 2 => files'[WorkflowOrder[2]] = resolve.ref)
  BY <1>1, <1>2, <1>3, <1>5 DEF Workflows
<1>9. SyncInv'
  <2>1. \A k \in 1..2 : k < resolve'.file => files'[WorkflowOrder[k]] = resolve'.ref
    BY <1>3, <1>4, <1>8
  <2> QED
    BY <1>1, <1>4, <2>1 DEF SyncInv
<1> QED
  BY <1>7, <1>9 DEF RefInv

LEMMA OthersInv ==
  ASSUME RefInv, MoveRepository \/ Again
  PROVE  RefInv'
<1>1. CASE MoveRepository
  <2>1. build' = build /\ resolve' = resolve /\ files' = files
    BY <1>1 DEF MoveRepository
  <2>2. head' \in Commits /\ worktree' \in {"appkit", "other"}
    BY <1>1 DEF MoveRepository, RefInv, RefTypeOK, ModuleOf
  <2> QED
    BY <2>1, <2>2 DEF RefInv, RefTypeOK, SyncInv
<1>2. CASE Again
  <2>1. build' = build /\ head' = head /\ worktree' = worktree /\ files' = files
        /\ resolve' = [resolve EXCEPT !.step = "start", !.current = "none", !.ref = "none", !.result = "none", !.file = 1]
    BY <1>2 DEF Again
  <2>2. /\ resolve' \in Resolution /\ resolve'.step = "start" /\ resolve'.result = "none"
        /\ resolve'.file = 1
    <3>1. resolve \in Resolution
      BY DEF RefInv, RefTypeOK
    <3>2. resolve' = [step |-> "start", current |-> "none", ref |-> "none", result |-> "none", file |-> 1]
      BY <2>1, <3>1 DEF Resolution
    <3> QED
      BY <3>2 DEF Resolution
  <2> QED
    BY <2>1, <2>2 DEF RefInv, RefTypeOK, SyncInv
<1> QED
  BY <1>1, <1>2

LEMMA RefNextInv == RefInv /\ [RefNext]_refVars => RefInv'
<1> SUFFICES ASSUME RefInv, [RefNext]_refVars PROVE RefInv'
  OBVIOUS
<1>1. CASE Download \/ BuildInfo \/ ShowGoMod
  BY <1>1, ResolvedInv
<1>2. CASE ReadGoMod \/ RevParse \/ SyncDone
  BY <1>2, ResolvingInv
<1>3. CASE CommandFails
  BY <1>3, ErrorInv DEF CommandFails, Error
<1>4. CASE SyncFile
  BY <1>4, SyncFileInv
<1>5. CASE MoveRepository \/ Again
  BY <1>5, OthersInv
<1>6. CASE UNCHANGED refVars
  BY <1>6 DEF refVars, RefInv, RefTypeOK, SyncInv
<1> QED
  BY <1>1, <1>2, <1>3, <1>4, <1>5, <1>6 DEF RefNext

LEMMA RefInvImpliesPinned == RefInv => PinnedToAppKit
<1> SUFFICES ASSUME RefInv PROVE PinnedToAppKit
  OBVIOUS
<1>1. \A f \in Workflows : files[f] \in AppKit \cup {"none"}
  BY DEF RefInv, RefTypeOK
<1>2. ASSUME resolve.result = "synced" PROVE Drift(resolve.ref) = {}
  <2>1. files[WorkflowOrder[1]] = resolve.ref /\ files[WorkflowOrder[2]] = resolve.ref
    BY <1>2 DEF RefInv, SyncInv
  <2>2. WorkflowOrder[1] = "ci.yml" /\ WorkflowOrder[2] = "lint.yml"
    BY DEF WorkflowOrder
  <2> QED
    BY <2>1, <2>2 DEF Drift, Workflows
<1> QED
  BY <1>1, <1>2 DEF PinnedToAppKit

(* ResolveWorkflowRefContext and SyncPinned: however often HEAD and the     *)
(* working tree move between the commands of a resolution, no generated     *)
(* workflow is pinned to a commit that is not AppKit's, and a run that      *)
(* reports success left every file at the commit it resolved.               *)
THEOREM WorkflowsArePinned == RefSpec => []PinnedToAppKit
<1>1. RefInit => RefInv
  BY RefInitInv
<1>2. RefInv /\ [RefNext]_refVars => RefInv'
  BY RefNextInv
<1>3. RefInv => PinnedToAppKit
  BY RefInvImpliesPinned
<1> QED
  BY <1>1, <1>2, <1>3, PTL DEF RefSpec

-----------------------------------------------------------------------------
(* Planning, review and apply: what is applied was derived from what is     *)
(* there.                                                                   *)

PlanSteps == {"start", "list", "read", "empty", "render", "guards", "capture"}

(* What the planner renders from what it holds, and the targets it names.   *)
HeldInputs == [f \in Inputs |-> Held(f)]
Files == Rendered(command.op, HeldInputs)
Stale == {f \in DOMAIN seen \intersect Outputs : seen[f] # Absent}
Targets == (DOMAIN seen \intersect Inputs) \union DOMAIN Files
             \union (IF command.op = "schema" THEN Stale ELSE {})
ContentOf(f) == IF TargetOperation(Files, f) \in {"create", "update"} THEN Files[f] ELSE Absent
ChangeOf(f, before) == [op |-> TargetOperation(Files, f), content |-> ContentOf(f), before |-> before]

StageInv ==
  /\ command \in [op : Operations, authorised : BOOLEAN, at : PlanSteps]
  /\ command.at \in {"list", "guards"} => command.op = "schema"
  /\ command.at = "read" => command.op # "new"
  /\ command.at = "empty" => command.op = "new"

(* What was read: nothing for New, no output written by hand for the        *)
(* schema, and, once reading is done, the source of what is rendered.       *)
SeenInv ==
  /\ command.op = "new" => DOMAIN seen = {}
  /\ command.op = "schema" => \A o \in Outputs \intersect DOMAIN seen : seen[o] = Absent \/ Generated(seen[o])
  /\ command.at \in {"render", "guards", "capture"} =>
       /\ command.op = "derive" => "in" \in DOMAIN seen
       /\ command.op = "schema" /\ "m1" \in listed => "m1" \in DOMAIN seen

(* The plan is what was rendered; a finished one has as preconditions the   *)
(* states it was rendered from.                                             *)
AsRendered == DOMAIN plan = Targets /\ \A f \in Targets : plan[f] = ChangeOf(f, plan[f].before)

PlanInv ==
  /\ command.at \in {"guards", "capture"} => AsRendered
  /\ exit = "planned" =>
       /\ command.at = "capture"
       /\ \A f \in Targets : plan[f].before = IF command.op = "new" THEN Absent ELSE Held(f)

AppliedInv == (applied # <<>> => exit = "applied") /\ AppliedIsDerived

AgentInv == StageInv /\ SeenInv /\ PlanInv /\ AppliedInv

LEMMA PlanInitInv == PlanInit => AgentInv
<1> SUFFICES ASSUME PlanInit PROVE AgentInv
  OBVIOUS
<1>1. StageInv
  BY DEF PlanInit, StageInv, PlanSteps
<1>2. command.at = "start" /\ DOMAIN seen = {} /\ exit = "none" /\ applied = <<>>
  BY DEF PlanInit, NoPlan
<1>3. SeenInv /\ PlanInv
  BY <1>2 DEF SeenInv, PlanInv
<1>4. AppliedInv
  BY <1>2 DEF AppliedInv, AppliedIsDerived
<1> QED
  BY <1>1, <1>3, <1>4 DEF AgentInv

(* What is rendered depends on the operation and on what was seen. *)
LEMMA SameFiles ==
  ASSUME command'.op = command.op, seen' = seen
  PROVE  /\ Files' = Files /\ Targets' = Targets /\ \A f : Held(f)' = Held(f)
         /\ \A f : TargetOperation(Files, f)' = TargetOperation(Files, f) /\ ContentOf(f)' = ContentOf(f)
<1>1. \A f : Held(f)' = Held(f)
  BY DEF Held
<1>2. HeldInputs' = HeldInputs
  BY <1>1 DEF HeldInputs
<1>3. Files' = Files
  BY <1>2 DEF Files
<1>4. Targets' = Targets
  BY <1>3 DEF Targets, Stale
<1>5. \A f : TargetOperation(Files, f)' = TargetOperation(Files, f)
  BY <1>1, <1>3 DEF TargetOperation
<1>6. \A f : ContentOf(f)' = ContentOf(f)
  BY <1>3, <1>5 DEF ContentOf
<1> QED
  BY <1>1, <1>3, <1>4, <1>5, <1>6

(* Nothing has been applied yet, and nothing is now. *)
LEMMA NotApplied ==
  ASSUME AgentInv, exit # "applied", applied' = applied
  PROVE  AppliedInv'
<1>1. applied' = <<>>
  BY DEF AgentInv, AppliedInv
<1> QED
  BY <1>1 DEF AppliedInv, AppliedIsDerived

(* Neither the planner nor what it holds moves. *)
LEMMA PlannerRests ==
  ASSUME AgentInv, command' = command, seen' = seen, listed' = listed, plan' = plan, applied' = applied,
         exit' = exit \/ (exit # "applied" /\ exit' # "planned" )
  PROVE  AgentInv'
<1>1. StageInv' /\ SeenInv'
  BY DEF AgentInv, StageInv, SeenInv
<1>2. PlanInv'
  BY SameFiles DEF AgentInv, PlanInv, AsRendered, ChangeOf
<1>3. AppliedInv'
  <2>1. CASE exit # "applied"
    BY <2>1, NotApplied
  <2>2. CASE exit' = exit
    BY <2>2 DEF AgentInv, AppliedInv, AppliedIsDerived
  <2> QED
    BY <2>1, <2>2
<1> QED
  BY <1>1, <1>2, <1>3 DEF AgentInv

LEMMA FailsInv ==
  ASSUME AgentInv, NEW code, code # "planned", exit # "applied", PlanFails(code)
  PROVE  AgentInv'
BY PlannerRests DEF PlanFails

(* The planner moves on; the plan is not finished by it. *)
LEMMA PlannerMoves ==
  ASSUME AgentInv, exit = "none", exit' = exit, applied' = applied, StageInv', SeenInv',
         command'.at \in {"guards", "capture"} => AsRendered'
  PROVE  AgentInv'
<1>1. PlanInv'
  BY DEF PlanInv
<1>2. AppliedInv'
  BY NotApplied
<1> QED
  BY <1>1, <1>2 DEF AgentInv

LEMMA GotoFields ==
  ASSUME AgentInv, NEW step \in PlanSteps, Goto(step)
  PROVE  /\ command' \in [op : Operations, authorised : BOOLEAN, at : PlanSteps]
         /\ command'.op = command.op /\ command'.at = step
BY DEF AgentInv, StageInv, Goto

LEMMA BeginsInv ==
  ASSUME AgentInv, Begin \/ ListDirectory \/ EmptyTarget
  PROVE  AgentInv'
<1>1. CASE Begin
  <2>1. PICK step \in {"read", "list", "empty"} :
          /\ Goto(step) /\ (step = "list" => command.op = "schema") /\ (step = "read" => command.op # "new")
          /\ (step = "empty" => command.op = "new")
    BY <1>1 DEF Begin, AgentInv, StageInv, Operations
  <2>2. /\ command' \in [op : Operations, authorised : BOOLEAN, at : PlanSteps]
        /\ command'.op = command.op /\ command'.at = step
    BY <2>1, GotoFields DEF PlanSteps
  <2>3. exit = "none" /\ exit' = exit /\ applied' = applied /\ seen' = seen
    BY <1>1 DEF Begin, CommandAt
  <2>4. StageInv' /\ SeenInv'
    BY <2>1, <2>2, <2>3 DEF StageInv, SeenInv, AgentInv
  <2> QED
    BY <2>2, <2>3, <2>4, PlannerMoves
<1>2. CASE ListDirectory
  <2>1. command.at = "list" /\ command.op = "schema" /\ Goto("read")
    BY <1>2 DEF ListDirectory, CommandAt, AgentInv, StageInv
  <2>2. /\ command' \in [op : Operations, authorised : BOOLEAN, at : PlanSteps]
        /\ command'.op = command.op /\ command'.at = "read"
    BY <2>1, GotoFields DEF PlanSteps
  <2>3. exit = "none" /\ exit' = exit /\ applied' = applied /\ seen' = seen
    BY <1>2 DEF ListDirectory, CommandAt
  <2>4. StageInv' /\ SeenInv'
    BY <2>1, <2>2, <2>3 DEF StageInv, SeenInv, AgentInv
  <2> QED
    BY <2>2, <2>3, <2>4, PlannerMoves
<1>3. CASE EmptyTarget
  <2>1. exit = "none" /\ command.at = "empty"
    BY <1>3 DEF EmptyTarget, CommandAt
  <2>2. CASE PlanFails("invalid_plan")
    BY <2>1, <2>2, FailsInv
  <2>3. CASE Goto("render") /\ UNCHANGED <<disk, seen, listed, plan, captured, document, applied, exit, edits>>
    <3>1. /\ command' \in [op : Operations, authorised : BOOLEAN, at : PlanSteps]
          /\ command'.op = command.op /\ command'.at = "render"
      BY <2>3, GotoFields DEF PlanSteps
    <3>2. command.op = "new"
      BY <2>1 DEF AgentInv, StageInv
    <3>3. StageInv' /\ SeenInv'
      BY <2>3, <3>1, <3>2 DEF StageInv, SeenInv, AgentInv
    <3> QED
      BY <2>1, <2>3, <3>1, <3>3, PlannerMoves
  <2> QED
    BY <1>3, <2>2, <2>3 DEF EmptyTarget
<1> QED
  BY <1>1, <1>2, <1>3

LEMMA ReadsInv ==
  ASSUME AgentInv, ReadNext \/ ReadDone
  PROVE  AgentInv'
<1>1. exit = "none" /\ command.at = "read" /\ command.op # "new"
  BY DEF ReadNext, ReadDone, CommandAt, AgentInv, StageInv
<1>2. CASE ReadDone
  <2>1. /\ Goto("render") /\ seen' = seen /\ listed' = listed /\ exit' = exit /\ applied' = applied
        /\ ToRead = {}
    BY <1>2 DEF ReadDone
  <2>2. /\ command' \in [op : Operations, authorised : BOOLEAN, at : PlanSteps]
        /\ command'.op = command.op /\ command'.at = "render"
    BY <2>1, GotoFields DEF PlanSteps
  <2>3. command.op = "derive" => "in" \in DOMAIN seen
    BY <2>1 DEF ToRead, Wanted, Paths, Inputs
  <2>4. command.op = "schema" /\ "m1" \in listed => "m1" \in DOMAIN seen
    BY <2>1 DEF ToRead, Wanted, Paths, Inputs
  <2>5. StageInv' /\ SeenInv'
    BY <1>1, <2>1, <2>2, <2>3, <2>4 DEF StageInv, SeenInv, AgentInv
  <2> QED
    BY <1>1, <2>1, <2>2, <2>5, PlannerMoves
<1>3. CASE ReadNext
  <2>1. PICK f : (Refusal(f) = "none" /\ ReadFile(f)) \/ (Refusal(f) # "none" /\ PlanFails(Refusal(f)))
    BY <1>3 DEF ReadNext
  <2>2. CASE Refusal(f) # "none" /\ PlanFails(Refusal(f))
    <3>1. Refusal(f) # "planned"
      BY DEF Refusal
    <3> QED
      BY <1>1, <2>2, <3>1, FailsInv
  <2>3. CASE Refusal(f) = "none" /\ ReadFile(f)
    <3>1. /\ command' = command /\ listed' = listed /\ exit' = exit /\ applied' = applied
          /\ DOMAIN seen' = DOMAIN seen \union {f}
          /\ \A g \in DOMAIN seen' : seen'[g] = IF g = f THEN disk[f] ELSE seen[g]
      BY <2>3 DEF ReadFile
    <3>2. command.op = "schema" /\ f \in Outputs => disk[f] = Absent \/ Generated(disk[f])
      BY <2>3 DEF Refusal, Outputs
    <3>3. StageInv' /\ SeenInv'
      BY <1>1, <3>1, <3>2 DEF AgentInv, StageInv, SeenInv, Generated
    <3> QED
      BY <1>1, <3>1, <3>3, PlannerMoves
  <2> QED
    BY <2>1, <2>2, <2>3
<1> QED
  BY <1>2, <1>3

LEMMA RenderInv ==
  ASSUME AgentInv, Render
  PROVE  AgentInv'
<1>1. PICK step \in {"guards", "capture"} : Goto(step) /\ (step = "guards" => command.op = "schema")
  BY DEF Render
<1>2. /\ exit = "none" /\ exit' = exit /\ applied' = applied /\ seen' = seen /\ listed' = listed
      /\ command.at = "render"
  BY DEF Render, CommandAt
<1>3. /\ command' \in [op : Operations, authorised : BOOLEAN, at : PlanSteps]
      /\ command'.op = command.op /\ command'.at = step
  BY <1>1, GotoFields DEF PlanSteps
<1>4. StageInv' /\ SeenInv'
  BY <1>1, <1>2, <1>3 DEF StageInv, SeenInv, AgentInv
<1>5. plan' = [f \in Targets |-> ChangeOf(f, Absent)]
  BY DEF Render, Targets, Stale, Files, HeldInputs, ChangeOf, ContentOf
<1>6. DOMAIN plan' = Targets /\ \A f \in Targets : plan'[f] = ChangeOf(f, plan'[f].before)
  BY <1>5 DEF ChangeOf
<1>7. AsRendered'
  BY <1>2, <1>3, <1>6, SameFiles DEF AsRendered, ChangeOf
<1> QED
  BY <1>2, <1>4, <1>7, PlannerMoves

LEMMA GuardsInv ==
  ASSUME AgentInv, CheckGuards \/ CaptureTarget
  PROVE  AgentInv'
<1>1. CASE CaptureTarget
  BY <1>1, PlannerRests DEF CaptureTarget
<1>2. CASE CheckGuards
  <2>1. exit = "none" /\ command.at = "guards"
    BY <1>2 DEF CheckGuards, CommandAt
  <2>2. CASE PlanFails("workspace_conflict")
    BY <2>1, <2>2, FailsInv
  <2>3. CASE Goto("capture") /\ UNCHANGED <<disk, seen, listed, plan, captured, document, applied, exit, edits>>
    <3>1. /\ command' \in [op : Operations, authorised : BOOLEAN, at : PlanSteps]
          /\ command'.op = command.op /\ command'.at = "capture"
      BY <2>3, GotoFields DEF PlanSteps
    <3>2. StageInv' /\ SeenInv'
      BY <2>1, <2>3, <3>1 DEF StageInv, SeenInv, AgentInv
    <3>3. PlanInv'
      BY <2>1, <2>3, <3>1, SameFiles DEF AgentInv, PlanInv, AsRendered, ChangeOf
    <3>4. AppliedInv'
      BY <2>1, <2>3, NotApplied
    <3> QED
      BY <3>2, <3>3, <3>4 DEF AgentInv
  <2> QED
    BY <1>2, <2>2, <2>3 DEF CheckGuards
<1> QED
  BY <1>1, <1>2

(* BuildPlan has compared what it captured with what the plan was made      *)
(* from.                                                                    *)
LEMMA FinishInv ==
  ASSUME AgentInv, FinishPlan
  PROVE  AgentInv'
<1>1. exit = "none" /\ command.at = "capture"
  BY DEF FinishPlan, CommandAt
<1>2. CASE PlanFails("invalid_plan") \/ PlanFails("workspace_conflict")
  BY <1>1, <1>2, FailsInv
<1>3. CASE /\ MarshalPlan /\ UNCHANGED <<disk, command, seen, listed, captured, applied, edits>>
           /\ UnchangedTargets /\ ~\E f \in DOMAIN plan : ContradictsPlan(f, captured[f])
  <2>1. DOMAIN plan = Targets /\ \A f \in Targets : plan[f] = ChangeOf(f, plan[f].before)
    BY <1>1 DEF AgentInv, PlanInv, AsRendered
  <2>2. DOMAIN plan' = Targets /\ \A f \in Targets : plan'[f] = [plan[f] EXCEPT !.before = captured[f]]
    BY <1>3, <2>1 DEF MarshalPlan
  <2>3. \A f \in Targets : plan'[f] = ChangeOf(f, captured[f]) /\ plan'[f].before = captured[f]
    <3> SUFFICES ASSUME NEW f \in Targets
                 PROVE  plan'[f] = ChangeOf(f, captured[f]) /\ plan'[f].before = captured[f]
      OBVIOUS
    <3>1. PICK o, c, b : plan[f] = [op |-> o, content |-> c, before |-> b]
                         /\ o = TargetOperation(Files, f) /\ c = ContentOf(f)
      BY <2>1 DEF ChangeOf
    <3>2. plan'[f] = [op |-> o, content |-> c, before |-> captured[f]]
      BY <2>2, <3>1
    <3> QED
      BY <3>1, <3>2 DEF ChangeOf
  <2>4. command.op # "new" => \A f \in Targets : captured[f] = Held(f)
    BY <1>3, <2>1 DEF UnchangedTargets
  <2>5. command.op = "new" => \A f \in Targets : captured[f] = Absent
    <3> SUFFICES ASSUME command.op = "new", NEW f \in Targets PROVE captured[f] = Absent
      OBVIOUS
    <3>1. f \in DOMAIN Files
      <4>1. DOMAIN seen = {}
        BY DEF AgentInv, SeenInv
      <4> QED
        BY <4>1 DEF Targets
    <3>2. plan[f].op = "create"
      <4>1. \A rendered : f \in DOMAIN rendered => TargetOperation(rendered, f) = "create"
        BY DEF TargetOperation
      <4> QED
        BY <2>1, <3>1, <4>1 DEF ChangeOf
    <3> QED
      BY <1>3, <2>1, <3>2 DEF ContradictsPlan
  <2>6. StageInv' /\ SeenInv'
    BY <1>3 DEF AgentInv, StageInv, SeenInv
  <2>7. AppliedInv'
    BY <1>1, <1>3, NotApplied
  <2>8. PlanInv'
    <3>1. Targets' = Targets /\ \A f : Held(f)' = Held(f)
      BY <1>3, SameFiles
    <3>2. AsRendered'
      BY <1>3, <2>2, <2>3, SameFiles DEF AsRendered, ChangeOf
    <3> QED
      BY <1>1, <1>3, <2>3, <2>4, <2>5, <3>1, <3>2 DEF PlanInv
  <2> QED
    BY <2>6, <2>7, <2>8 DEF AgentInv
<1> QED
  BY <1>2, <1>3 DEF FinishPlan

(* The reviewed plan, applied with its digest. *)
LEMMA ApplyDerives ==
  ASSUME AgentInv, exit = "planned", Preconditions(plan), NEW after, after = [f \in Paths |-> Final(plan, f)]
  PROVE  LET rendered == Rendered(command.op, [f \in Inputs |-> disk[f]]) IN
           /\ \A f \in DOMAIN rendered : after[f] = rendered[f]
           /\ \A f \in Inputs : after[f] = disk[f]
           /\ command.op = "schema" => \A o \in Outputs : after[o] # disk[o] => disk[o] # Hand
           /\ command.op = "new" => \A o \in Outputs : disk[o] = Absent
<1>1. /\ command.at = "capture" /\ command.op \in Operations
      /\ DOMAIN plan = Targets /\ \A f \in Targets : plan[f] = ChangeOf(f, plan[f].before)
      /\ \A f \in Targets : plan[f].before = IF command.op = "new" THEN Absent ELSE Held(f)
  BY DEF AgentInv, PlanInv, StageInv, AsRendered
<1>2. \A f \in Targets : plan[f].op = TargetOperation(Files, f) /\ plan[f].content = ContentOf(f)
  BY <1>1 DEF ChangeOf
<1>3. \A f \in Targets : disk[f] = IF command.op = "new" THEN Absent ELSE Held(f)
  BY <1>1 DEF Preconditions
(* What was rendered is what would be rendered now. *)
<1>4. Files = Rendered(command.op, [f \in Inputs |-> disk[f]])
  <2>1. CASE command.op = "new"
    BY <2>1 DEF Files, Rendered
  <2>2. CASE command.op = "derive"
    <3>1. "in" \in DOMAIN seen /\ "in" \in Inputs
      BY <1>1, <2>2 DEF AgentInv, SeenInv, Inputs
    <3>2. disk["in"] = Held("in")
      BY <1>3, <2>2, <3>1 DEF Targets
    <3>3. HeldInputs["in"] = disk["in"] /\ [f \in Inputs |-> disk[f]]["in"] = disk["in"]
      BY <3>1, <3>2 DEF HeldInputs
    <3> QED
      BY <2>2, <3>3 DEF Files, Rendered
  <2>3. CASE command.op = "schema"
    <3>1. "m1" \in Inputs /\ ("m1" \in listed => "m1" \in DOMAIN seen)
      BY <1>1, <2>3 DEF AgentInv, SeenInv, Inputs
    <3>2. disk["m1"] = Held("m1")
      <4>1. CASE "m1" \in DOMAIN seen
        BY <1>3, <2>3, <3>1, <4>1 DEF Targets
      <4>2. CASE "m1" \notin DOMAIN seen
        BY <2>3, <3>1, <4>2 DEF Held, Preconditions, GuardsHold
      <4> QED
        BY <4>1, <4>2
    <3>3. HeldInputs["m1"] = disk["m1"] /\ [f \in Inputs |-> disk[f]]["m1"] = disk["m1"]
      BY <3>1, <3>2 DEF HeldInputs
    <3> QED
      BY <2>3, <3>3 DEF Files, Rendered
  <2> QED
    BY <1>1, <2>1, <2>2, <2>3 DEF Operations
<1>5. DOMAIN Files \subseteq Outputs /\ (command.op = "new" => DOMAIN Files = Outputs)
  <2>1. Outputs = {"out", "part"}
    BY DEF Outputs
  <2>2. CASE command.op = "new"
    BY <2>2 DEF Files, Rendered
  <2>3. CASE command.op = "derive"
    BY <2>1, <2>3 DEF Files, Rendered
  <2>4. CASE command.op = "schema"
    BY <2>1, <2>4 DEF Files, Rendered
  <2> QED
    BY <1>1, <2>2, <2>3, <2>4 DEF Operations
<1>6. \A f \in DOMAIN Files : after[f] = Files[f]
  <2> SUFFICES ASSUME NEW f \in DOMAIN Files PROVE after[f] = Files[f]
    OBVIOUS
  <2>1. f \in Targets /\ f \in Paths
    BY <1>5 DEF Targets, Paths
  <2>2. after[f] = Final(plan, f)
    BY <2>1
  <2>3. CASE command.op = "new" \/ Held(f) = Absent
    <3>1. plan[f].op = "create" /\ plan[f].content = Files[f]
      BY <1>2, <2>1, <2>3 DEF TargetOperation, ContentOf
    <3> QED
      BY <1>1, <2>1, <2>2, <3>1 DEF Final
  <2>4. CASE command.op # "new" /\ Held(f) # Absent /\ Held(f) = Files[f]
    <3>1. plan[f].op = "assert"
      BY <1>2, <2>1, <2>4 DEF TargetOperation
    <3> QED
      BY <1>3, <2>1, <2>2, <2>4, <3>1 DEF Final
  <2>5. CASE command.op # "new" /\ Held(f) # Absent /\ Held(f) # Files[f]
    <3>1. plan[f].op = "update" /\ plan[f].content = Files[f]
      BY <1>2, <2>1, <2>5 DEF TargetOperation, ContentOf
    <3> QED
      BY <1>1, <2>1, <2>2, <3>1 DEF Final
  <2> QED
    BY <2>3, <2>4, <2>5
<1>7. \A f \in Inputs : after[f] = disk[f]
  <2> SUFFICES ASSUME NEW f \in Inputs PROVE after[f] = disk[f]
    OBVIOUS
  <2>1. f \in Paths /\ f \notin DOMAIN Files
    BY <1>5 DEF Paths, Inputs, Outputs
  <2>2. f \in Targets => plan[f].op = "assert"
    BY <1>2, <2>1 DEF TargetOperation
  <2> QED
    BY <1>1, <2>1, <2>2 DEF Final
<1>8. ASSUME command.op = "schema", NEW o \in Outputs, after[o] # disk[o], disk[o] = Hand
      PROVE  FALSE
  <2>1. o \in Paths
    BY DEF Paths
  <2>2. o \in Targets
    BY <1>1, <1>8, <2>1 DEF Final
  <2>3. Held(o) = Hand
    BY <1>3, <1>8, <2>2
  <2>4. Hand # Absent /\ ~Generated(Hand)
    BY DEF Hand, Absent, Generated
  <2>5. o \in DOMAIN seen /\ seen[o] = Hand
    BY <2>3, <2>4 DEF Held
  <2> QED
    BY <1>8, <2>4, <2>5 DEF AgentInv, SeenInv
<1>9. command.op = "new" => \A o \in Outputs : disk[o] = Absent
  BY <1>3, <1>5 DEF Targets
<1> QED
  BY <1>4, <1>6, <1>7, <1>8, <1>9

LEMMA ApplyInv ==
  ASSUME AgentInv, NEW expected \in BOOLEAN, ApplyPlan(expected)
  PROVE  AgentInv'
<1>1. exit = "planned"
  BY DEF ApplyPlan
<1>2. CASE PlanFails("invalid_plan") \/ PlanFails("workspace_conflict")
  BY <1>1, <1>2, FailsInv
<1>3. CASE /\ ParsePlan /\ (expected => document.digest = plan) /\ Preconditions(document.plan)
           /\ disk' = [f \in Paths |-> Final(document.plan, f)]
           /\ applied' = <<[plan |-> document.plan, expected |-> expected, before |-> disk, after |-> disk']>>
           /\ exit' = "applied"
           /\ UNCHANGED <<command, seen, listed, plan, captured, document, edits>>
  <2>1. StageInv' /\ SeenInv'
    BY <1>3 DEF AgentInv, StageInv, SeenInv
  <2>2. PlanInv'
    BY <1>3, SameFiles DEF AgentInv, PlanInv, AsRendered, ChangeOf
  <2>3. expected => document.plan = plan
    BY <1>3 DEF ParsePlan
  <2>4. PICK run : run = [plan |-> document.plan, expected |-> expected, before |-> disk, after |-> disk']
    OBVIOUS
  <2>5. DOMAIN applied' = {1} /\ applied'[1] = run
    BY <1>3, <2>4
  <2>6. run.plan = document.plan /\ run.expected = expected /\ run.before = disk /\ run.after = disk'
    BY <2>4
  <2>7. expected =>
          LET rendered == Rendered(command.op, [f \in Inputs |-> disk[f]]) IN
            /\ \A f \in DOMAIN rendered : disk'[f] = rendered[f]
            /\ \A f \in Inputs : disk'[f] = disk[f]
            /\ command.op = "schema" => \A o \in Outputs : disk'[o] # disk[o] => disk[o] # Hand
            /\ command.op = "new" => \A o \in Outputs : disk[o] = Absent
    <3> SUFFICES ASSUME expected
                 PROVE  LET rendered == Rendered(command.op, [f \in Inputs |-> disk[f]]) IN
                          /\ \A f \in DOMAIN rendered : disk'[f] = rendered[f]
                          /\ \A f \in Inputs : disk'[f] = disk[f]
                          /\ command.op = "schema" => \A o \in Outputs : disk'[o] # disk[o] => disk[o] # Hand
                          /\ command.op = "new" => \A o \in Outputs : disk[o] = Absent
      OBVIOUS
    <3>1. Preconditions(plan) /\ disk' = [f \in Paths |-> Final(plan, f)]
      BY <1>3, <2>3
    <3> QED
      BY <1>1, <3>1, ApplyDerives
  <2>8. AppliedIsDerived'
    <3>1. command' = command /\ plan' = plan
      BY <1>3
    <3>2. PICK rendered : rendered = Rendered(command.op, [f \in Inputs |-> disk[f]])
      OBVIOUS
    <3>3. Rendered(command'.op, [f \in Inputs |-> run.before[f]]) = rendered
      BY <2>6, <3>1, <3>2
    <3> QED
      BY <2>3, <2>5, <2>6, <2>7, <3>1, <3>2, <3>3 DEF AppliedIsDerived
  <2> QED
    BY <1>3, <2>1, <2>2, <2>8 DEF AgentInv, AppliedInv
<1> QED
  BY <1>2, <1>3 DEF ApplyPlan

LEMMA PlanNextInv ==
  ASSUME AgentInv, [PlanNext]_planVars
  PROVE  AgentInv'
<1>1. CASE Edit \/ Rewrite \/ UNCHANGED planVars
  BY <1>1, PlannerRests DEF Edit, Rewrite, planVars
<1>2. CASE Usage \/ Interrupted \/ ReadUnstable \/ RenderFails \/ CaptureUnstable
  <2>1. exit = "none"
    BY <1>2 DEF Usage, Interrupted, ReadUnstable, RenderFails, CaptureUnstable, CommandAt
  <2>2. PICK code \in {"invalid_arguments", "canceled", "operation_failed", "workspace_conflict"} : PlanFails(code)
    BY <1>2 DEF Usage, Interrupted, ReadUnstable, RenderFails, CaptureUnstable
  <2> QED
    BY <2>1, <2>2, FailsInv
<1>3. CASE Begin \/ ListDirectory \/ EmptyTarget
  BY <1>3, BeginsInv
<1>4. CASE ReadNext \/ ReadDone
  BY <1>4, ReadsInv
<1>5. CASE Render
  BY <1>5, RenderInv
<1>6. CASE CheckGuards \/ CaptureTarget
  BY <1>6, GuardsInv
<1>7. CASE FinishPlan
  BY <1>7, FinishInv
<1>8. CASE \E expected \in BOOLEAN : ApplyPlan(expected)
  BY <1>8, ApplyInv
<1> QED
  BY <1>1, <1>2, <1>3, <1>4, <1>5, <1>6, <1>7, <1>8 DEF PlanNext

(* `appkit plan` and `appkit apply`: a plan applied with its reviewed       *)
(* digest leaves every output it writes rendered from the inputs of that    *)
(* moment, changes no input and no schema file written by hand, for any     *)
(* number of edits while it was planned, reviewed and stored                *)
(* (internal/agentplan, internal/cli/agent.go).                             *)
THEOREM AppliedPlansAreDerived == PlanSpec => []AppliedIsDerived
<1>1. PlanInit => AgentInv
  BY PlanInitInv
<1>2. AgentInv /\ [PlanNext]_planVars => AgentInv'
  BY PlanNextInv
<1>3. AgentInv => AppliedIsDerived
  BY DEF AgentInv, AppliedInv
<1> QED
  BY <1>1, <1>2, <1>3, PTL DEF PlanSpec

-----------------------------------------------------------------------------
(* Assembly of an App. *)

(* A set of numbers that is not empty has a least one. *)
LEMMA LeastNatural ==
  ASSUME NEW S, S \subseteq Nat, S # {}
  PROVE  \E x \in S : \A y \in S : x <= y
<1>1. PICK x \in S : \A y \in S : ~(<<y, x>> \in OpToRel(<, Nat))
  BY NatLessThanWellFounded, WFMin, Zenon
<1>2. ASSUME NEW y \in S PROVE x <= y
  <2>1. CASE y < x
    <3>1. <<y, x>> \in OpToRel(<, Nat)
      BY <2>1 DEF OpToRel
    <3> QED
      BY <1>1, <3>1
  <2> QED
    BY <2>1
<1> QED
  BY <1>2

BindingKeys == Keys \cup Contributions

AsmPhases == {"target", "remotes", "register", "resolve", "migrate", "migrated", "setup", "factories", "validate",
              "subscribe", "mux", "starting", "failed"}
AsmFailures == {"none", "target", "remote", "duplicate", "register", "mode", "missing", "cycle", "early", "constructor",
                "migration", "no_migrator", "setup", "factory", "validation", "no_bus", "mux"}

AsmState ==
  [entry : {"Run", "Migrate"}, phase : AsmPhases, enabled : Nat, next : Nat, failure : AsmFailures,
   at : BindingKeys \cup {0}, mode : {"none", "headless"} \cup SecurityModes, migrations : BOOLEAN,
   migrated : {"no", "skipped", "applied"}, codes : SUBSET Codes, routes : SUBSET RouteKinds, binds : SUBSET Codes,
   consumers : Nat, subscribed : Nat]

AsmFrame ==
  [key : BindingKeys, dep : Keys \cup {0}, err : {"none", "missing", "cycle", "early", "constructor"},
   at : BindingKeys \cup {0}]

AsmTypeOK ==
  /\ asm \in AsmState /\ local \subseteq Keys /\ remote \subseteq Keys /\ contrib \subseteq Contributions
  /\ stack \in Seq(AsmFrame) /\ built \in [BindingKeys -> Nat] /\ deps \in [BindingKeys -> SUBSET Keys]

IsBuilt(k) == built[k] = 1
DependsOnBuilt(k, S) == \A j \in deps[k] : j \in S /\ IsBuilt(j)

(* The constructors under way are of different keys, none of them built;   *)
(* each waits for the one above it, has what it resolved before, and knows  *)
(* how the last Resolve failed.                                             *)
UniqueKeys == \A i, j \in DOMAIN stack : stack[i].key = stack[j].key => i = j
NoneBuilt == \A i \in DOMAIN stack : built[stack[i].key] = 0
EachWaits ==
  \A i \in DOMAIN stack : i + 1 \in DOMAIN stack =>
    /\ stack[i].err = "none" /\ stack[i].dep = stack[i + 1].key
    /\ stack[i].dep \in deps[stack[i].key]
HasResolved ==
  \A i \in DOMAIN stack : \A j \in deps[stack[i].key] :
    IsBuilt(j) \/ (j = stack[i].dep /\ (i + 1 \in DOMAIN stack \/ stack[i].err # "none"))
KnowsWhy ==
  \A i \in DOMAIN stack :
    /\ stack[i].err = "missing" => stack[i].at \notin local \cup remote
    /\ stack[i].err = "cycle" => \E k \in BindingKeys : k = stack[i].at /\ k \in Reaches(k)

StackInv ==
  /\ stack # <<>> => asm.phase \in {"resolve"} \cup Callbacks
  /\ UniqueKeys /\ NoneBuilt /\ EachWaits /\ HasResolved /\ KnowsWhy

(* What was there when the constructor of k returned is closed under what   *)
(* constructors depend on, and k is not in it.                              *)
BuiltInv ==
  \A k \in BindingKeys :
    /\ built[k] \in {0, 1}
    /\ IsBuilt(k) => \E S \in SUBSET Keys :
         k \notin S /\ deps[k] \subseteq S /\ \A j \in S : IsBuilt(j) /\ deps[j] \subseteq S

AssembledPhases == {"setup", "factories", "validate", "subscribe", "mux", "starting"}

PhaseInv ==
  /\ asm.phase \in AssembledPhases => asm.entry = "Run"
  /\ asm.phase \in {"migrate"} \cup AssembledPhases /\ asm.entry = "Run" =>
       \A k \in local \cup contrib : built[k] > 0
  /\ asm.phase \in AssembledPhases /\ asm.migrations => asm.migrated \in {"applied", "skipped"}
  /\ asm.phase \in {"subscribe", "mux", "starting"} =>
       /\ asm.mode = "headless" => asm.routes = {}
       /\ asm.mode \in {"user_facing", "internal_service", "mixed"} => "unclassified" \notin asm.routes
       /\ asm.binds \subseteq asm.codes
  /\ asm.phase \in {"mux", "starting"} => asm.subscribed = asm.consumers
  /\ asm.failure # "none" => asm.phase = "failed"
  /\ asm.failure = "missing" => asm.at \notin local \cup remote
  /\ asm.failure = "cycle" => asm.at \in Reaches(asm.at)

AsmInv == AsmTypeOK /\ StackInv /\ BuiltInv /\ PhaseInv

(* The fields of asm and what they range over. *)
LEMMA AsmStateFacts ==
  ASSUME AsmTypeOK
  PROVE  /\ asm.entry \in {"Run", "Migrate"} /\ asm.phase \in AsmPhases /\ asm.enabled \in Nat /\ asm.next \in Nat
         /\ asm.failure \in AsmFailures /\ asm.at \in BindingKeys \cup {0} /\ asm.consumers \in Nat
         /\ asm.subscribed \in Nat /\ asm.codes \subseteq Codes /\ asm.binds \subseteq Codes
         /\ asm.routes \subseteq RouteKinds /\ asm.migrations \in BOOLEAN
         /\ asm.migrated \in {"no", "skipped", "applied"} /\ asm.mode \in {"none", "headless"} \cup SecurityModes
BY DEF AsmTypeOK, AsmState

(* The initial state satisfies the invariant. *)
LEMMA AsmInit == AssemblyInit => AsmInv
<1> SUFFICES ASSUME AssemblyInit PROVE AsmInv
  OBVIOUS
<1> USE DEF AssemblyInit
<1>1. PICK entry \in {"Run", "Migrate"} :
        asm = [entry |-> entry, phase |-> "target", enabled |-> 0, next |-> 1, failure |-> "none",
               at |-> 0, mode |-> "none", migrations |-> FALSE, migrated |-> "no", codes |-> {},
               routes |-> {}, binds |-> {}, consumers |-> 0, subscribed |-> 0]
  OBVIOUS
<1>2. asm \in AsmState
  BY <1>1 DEF AsmState, AsmPhases, AsmFailures
<1>3. AsmTypeOK
  BY <1>2 DEF AsmTypeOK, BindingKeys
<1>4. StackInv
  BY DEF StackInv, UniqueKeys, NoneBuilt, EachWaits, HasResolved, KnowsWhy
<1>5. BuiltInv
  BY DEF BuiltInv, BindingKeys, IsBuilt
<1>6. asm.phase = "target" /\ asm.failure = "none"
  BY <1>1
<1>7. PhaseInv
  BY <1>6 DEF PhaseInv, AssembledPhases
<1> QED
  BY <1>3, <1>4, <1>5, <1>7 DEF AsmInv

(* A step that leaves the graph and the resolution alone. *)
LEMMA AsmAlone ==
  ASSUME AsmInv, UNCHANGED <<graph, resolution>>, asm' \in AsmState, PhaseInv',
         stack = <<>> \/ asm'.phase = asm.phase
  PROVE  AsmInv'
<1> USE DEF AsmInv, graph, resolution
<1>1. AsmTypeOK'
  BY DEF AsmTypeOK
<1>2. \A k : Reaches(k)' = Reaches(k)
  BY DEF Reaches
<1>3. StackInv'
  BY <1>2 DEF StackInv, UniqueKeys, NoneBuilt, EachWaits, HasResolved, KnowsWhy, IsBuilt, Callbacks
<1>4. BuiltInv'
  BY DEF BuiltInv, IsBuilt
<1> QED
  BY <1>1, <1>3, <1>4

(* The assembly that gives up, with no constructor under way. *)
LEMMA AsmGivesUp ==
  ASSUME AsmInv, NEW why \in AsmFailures \ {"missing", "cycle"}, Fails(why), UNCHANGED <<graph, resolution>>, stack = <<>>
  PROVE  AsmInv'
<1> USE DEF AsmInv, Fails
<1>1. asm' \in AsmState
  BY DEF AsmTypeOK, AsmState, AsmPhases
<1>2. asm'.phase = "failed" /\ asm'.failure = why
  BY DEF AsmTypeOK, AsmState
<1>3. PhaseInv'
  BY <1>2 DEF PhaseInv, AssembledPhases
<1> QED
  BY <1>1, <1>3, AsmAlone

(* The steps of the assembly that construct nothing. *)
LEMMA AsmBeginning ==
  ASSUME AsmInv, EnabledModules \/ (\E keys \in SUBSET Keys : ApplyRemotes(keys))
                 \/ (\E keys \in SUBSET Keys, cs \in SUBSET Contributions : Register(keys, cs, {}, FALSE))
                 \/ (\E codes \in SUBSET Codes, mig \in BOOLEAN : Register({}, {}, codes, mig))
  PROVE  AsmInv'
<1>1. asm.phase \in {"target", "remotes", "register"}
  BY DEF EnabledModules, ApplyRemotes, Register
<1>2. stack = <<>> /\ asm.failure = "none" /\ UNCHANGED resolution
  BY <1>1 DEF AsmInv, StackInv, PhaseInv, Callbacks, EnabledModules, ApplyRemotes, Register, resolution
<1>3. local' \subseteq Keys /\ remote' \subseteq Keys /\ contrib' \subseteq Contributions
  BY DEF AsmInv, AsmTypeOK, EnabledModules, ApplyRemotes, Register, graph
<1>4. /\ asm' \in AsmState /\ asm'.phase \in {"remotes", "register", "failed"}
      /\ asm'.failure \notin {"missing", "cycle"} /\ (asm'.failure # "none" => asm'.phase = "failed")
  <2>0. asm \in AsmState
    BY DEF AsmInv, AsmTypeOK
  <2>1. CASE EnabledModules
    <3>1. \A n \in 1..Len(AppModules) : n \in Nat
      OBVIOUS
    <3> QED
      BY ZenonT(60), <1>2, <2>0, <2>1, <3>1 DEF EnabledModules, Fails, AsmState, AsmPhases, AsmFailures
  <2>2. CASE \E keys \in SUBSET Keys : ApplyRemotes(keys)
    BY <1>2, <2>0, <2>2 DEF ApplyRemotes, Fails, AsmState, AsmPhases, AsmFailures
  <2>3. ASSUME NEW keys, NEW cs, NEW codes \in SUBSET Codes, NEW mig \in BOOLEAN, Register(keys, cs, codes, mig)
        PROVE  <1>4!:
    <3>1. CASE Fails("duplicate")
      BY <1>2, <2>0, <3>1 DEF Fails, AsmState, AsmPhases, AsmFailures
    <3>2. CASE asm' = [asm EXCEPT !.next = @ + 1, !.codes = @ \cup codes, !.migrations = @ \/ mig]
      <4>1. asm.phase = "register"
        BY <2>3 DEF Register
      <4>2. PICK both \in BOOLEAN : both = (asm.migrations \/ mig)
        OBVIOUS
      <4>3. asm' = [asm EXCEPT !.next = @ + 1, !.codes = @ \cup codes, !.migrations = both]
        BY <3>2, <4>2
      <4>a. PICK l : l = [asm EXCEPT !.next = @ + 1]
        OBVIOUS
      <4>b. l \in AsmState /\ l.phase = "register" /\ l.failure = "none" /\ l.codes = asm.codes
        BY <1>2, <2>0, <4>1, <4>a DEF AsmState
      <4>4. PICK m : m = [l EXCEPT !.codes = @ \cup codes]
        OBVIOUS
      <4>5. m \in AsmState /\ m.phase = "register" /\ m.failure = "none"
        BY <4>4, <4>b DEF AsmState
      <4>6. asm' = [m EXCEPT !.migrations = both]
        BY <2>0, <4>3, <4>4, <4>a, <4>b DEF AsmState
      <4> QED
        BY <4>2, <4>5, <4>6 DEF AsmState
    <3> QED
      BY <2>3, <3>1, <3>2 DEF Register
  <2>4. {} \subseteq Codes /\ FALSE \in BOOLEAN
    OBVIOUS
  <2> QED
    BY <2>1, <2>2, <2>3, <2>4
<1>5. AsmTypeOK'
  BY <1>2, <1>3, <1>4 DEF AsmInv, AsmTypeOK, resolution
<1>6. StackInv'
  BY <1>2 DEF StackInv, UniqueKeys, NoneBuilt, EachWaits, HasResolved, KnowsWhy, resolution
<1>7. BuiltInv'
  BY <1>2 DEF AsmInv, BuiltInv, IsBuilt, resolution
<1>8. PhaseInv'
  BY <1>4 DEF PhaseInv, AssembledPhases
<1> QED
  BY <1>5, <1>6, <1>7, <1>8 DEF AsmInv

LEMMA AsmStages ==
  ASSUME AsmInv, RegisterFails \/ Registered \/ Resolved
                 \/ (\E capability \in {"none", "disabled", "skip", "migrator"} : Migrate(capability))
  PROVE  AsmInv'
<1>0. asm \in AsmState /\ asm.failure \in AsmFailures
  BY AsmStateFacts DEF AsmInv, AsmTypeOK
<1>1. stack = <<>> /\ UNCHANGED <<graph, resolution>>
  BY DEF AsmInv, StackInv, Callbacks, RegisterFails, Registered, Resolved, Migrate
<1>2. asm.phase \in {"register", "resolve", "migrate"} /\ asm.failure = "none"
  BY DEF AsmInv, PhaseInv, RegisterFails, Registered, Resolved, Migrate
<1>3. CASE \E why \in {"register", "mode", "migration", "no_migrator"} : Fails(why)
  <2>1. PICK why \in {"register", "mode", "migration", "no_migrator"} : Fails(why)
    BY <1>3
  <2>2. why \in AsmFailures \ {"missing", "cycle"}
    BY <2>1 DEF AsmFailures
  <2> QED
    BY <1>1, <2>1, <2>2, AsmGivesUp
<1>4. CASE (Registered \/ Resolved) /\ asm' = [asm EXCEPT !.phase = "migrate"]
  <2>1. asm' \in AsmState /\ asm'.phase = "migrate" /\ asm'.failure = "none" /\ asm'.entry = asm.entry
    BY <1>0, <1>2, <1>4 DEF AsmState, AsmPhases
  <2>2. asm.entry = "Run" => \A k \in local \cup contrib : built[k] > 0
    <3>1. CASE Registered
      <4>1. asm.entry = "Migrate"
        BY <3>1, <2>1, <1>0 DEF Registered, Fails, AsmState
      <4> QED
        BY <4>1
    <3>2. CASE Resolved
      <4>1. \A k \in local \cup contrib : built[k] \in Nat /\ built[k] # 0
        BY <3>2 DEF Resolved, Unresolved, Uncontributed, AsmInv, AsmTypeOK, BindingKeys
      <4> QED
        BY <4>1
    <3> QED
      BY <1>4, <3>1, <3>2
  <2>3. PhaseInv'
    BY <1>1, <2>1, <2>2 DEF PhaseInv, AssembledPhases, graph, resolution
  <2> QED
    BY <1>1, <2>1, <2>3, AsmAlone
<1>6. CASE asm' = [asm EXCEPT !.phase = "resolve"]
  <2>1. asm' \in AsmState /\ asm'.phase = "resolve" /\ asm'.failure = "none"
    BY <1>0, <1>2, <1>6 DEF AsmState, AsmPhases
  <2>2. PhaseInv'
    BY <2>1 DEF PhaseInv, AssembledPhases
  <2> QED
    BY <1>1, <2>1, <2>2, AsmAlone
<1>5. CASE \E capability \in {"none", "disabled", "skip", "migrator"} : Migrate(capability)
  <2>1. PICK capability \in {"none", "disabled", "skip", "migrator"} : Migrate(capability)
    BY <1>5
  <2> DEFINE done == IF asm.entry = "Run" THEN "setup" ELSE "migrated"
  <2>2. \/ ~asm.migrations /\ asm' = [asm EXCEPT !.phase = done]
        \/ asm.entry = "Run" /\ asm' = [asm EXCEPT !.phase = done, !.migrated = "skipped"]
        \/ asm' = [asm EXCEPT !.phase = done, !.migrated = "applied"]
        \/ Fails("migration") \/ Fails("no_migrator")
    BY <2>1 DEF Migrate
  <2>3. asm.phase = "migrate"
    BY <2>1 DEF Migrate
  <2>4. CASE Fails("migration") \/ Fails("no_migrator")
    BY <2>4, <1>3
  <2>5. CASE ~(Fails("migration") \/ Fails("no_migrator"))
    <3>1. done \in {"setup", "migrated"} /\ (done = "setup" => asm.entry = "Run")
      OBVIOUS
    <3> HIDE DEF done
    <3>2. /\ asm' \in AsmState /\ asm'.phase = done /\ asm'.failure = "none" /\ asm'.entry = asm.entry
          /\ asm'.migrations = asm.migrations
          /\ asm.migrations => asm'.migrated \in {"applied", "skipped"}
      <4>1. CASE ~asm.migrations /\ asm' = [asm EXCEPT !.phase = done]
        BY <1>0, <1>2, <3>1, <4>1 DEF AsmState, AsmPhases
      <4>2. CASE asm' = [asm EXCEPT !.phase = done, !.migrated = "skipped"]
        BY <1>0, <1>2, <3>1, <4>2 DEF AsmState, AsmPhases
      <4>3. CASE asm' = [asm EXCEPT !.phase = done, !.migrated = "applied"]
        BY <1>0, <1>2, <3>1, <4>3 DEF AsmState, AsmPhases
      <4> QED
        BY <2>2, <2>5, <4>1, <4>2, <4>3
    <3>3. asm.entry = "Run" => \A k \in local \cup contrib : built[k] > 0
      BY <2>3 DEF AsmInv, PhaseInv
    <3>4. PhaseInv'
      BY <1>1, <3>1, <3>2, <3>3 DEF PhaseInv, AssembledPhases, graph, resolution
    <3> QED
      BY <1>1, <3>2, <3>4, AsmAlone
  <2> QED
    BY <2>4, <2>5
<1> QED
  BY <1>3, <1>4, <1>5, <1>6 DEF RegisterFails, Registered, Resolved

LEMMA AsmSetups ==
  ASSUME AsmInv, (\E routes \in SUBSET RouteKinds, binds \in SUBSET Codes, consumers \in Nat :
                    SetupDeclares(routes, binds, consumers))
                 \/ SetupFails \/ SetupsDone \/ ResolveManagedServices
  PROVE  AsmInv'
<1>0. asm \in AsmState /\ AsmTypeOK
  BY AsmStateFacts DEF AsmInv, AsmTypeOK
<1>1. stack = <<>> /\ UNCHANGED <<graph, resolution>>
  BY DEF SetupDeclares, SetupFails, SetupsDone, ResolveManagedServices
<1>2. asm.phase \in {"setup", "factories"} /\ asm.failure = "none" /\ asm.entry = "Run"
      /\ (\A k \in local \cup contrib : built[k] > 0) /\ (asm.migrations => asm.migrated \in {"applied", "skipped"})
  BY DEF AsmInv, PhaseInv, AssembledPhases, SetupDeclares, SetupFails, SetupsDone, ResolveManagedServices
<1>3. CASE \E why \in {"setup", "factory"} : Fails(why)
  <2>1. PICK why \in {"setup", "factory"} : Fails(why)
    BY <1>3
  <2>2. why \in AsmFailures \ {"missing", "cycle"}
    BY <2>1 DEF AsmFailures
  <2> QED
    BY <1>1, <2>1, <2>2, AsmGivesUp
<1>4. ASSUME ~(Fails("setup") \/ Fails("factory"))
      PROVE  /\ asm' \in AsmState /\ asm'.phase \in {"setup", "factories", "validate"} /\ asm'.failure = "none"
             /\ asm'.entry = "Run" /\ asm'.migrations = asm.migrations /\ asm'.migrated = asm.migrated
  <2>1. CASE SetupsDone \/ ResolveManagedServices
    BY <1>0, <1>2, <1>4, <2>1 DEF SetupsDone, ResolveManagedServices, AsmState, AsmPhases
  <2>2. ASSUME NEW routes \in SUBSET RouteKinds, NEW binds \in SUBSET Codes, NEW consumers \in Nat,
               SetupDeclares(routes, binds, consumers)
        PROVE  <1>4!2
    <3>1. PICK m : m = [asm EXCEPT !.routes = @ \cup routes, !.binds = @ \cup binds]
      OBVIOUS
    <3>2. m \in AsmState /\ m.phase = "setup" /\ m.failure = "none" /\ m.entry = asm.entry
          /\ m.migrations = asm.migrations /\ m.migrated = asm.migrated /\ m.consumers = asm.consumers
      BY <1>0, <1>2, <2>2, <3>1 DEF SetupDeclares, AsmState
    <3>3. asm' = [m EXCEPT !.consumers = @ + consumers]
      BY <1>0, <2>2, <3>1, <3>2 DEF SetupDeclares, AsmState
    <3> QED
      BY <1>2, <3>2, <3>3 DEF AsmState
  <2> QED
    BY <1>4, <2>1, <2>2 DEF SetupFails
<1>5. CASE ~(Fails("setup") \/ Fails("factory"))
  <2>1. PhaseInv'
    BY <1>1, <1>2, <1>4, <1>5 DEF PhaseInv, AssembledPhases, graph, resolution
  <2> QED
    BY <1>1, <1>4, <1>5, <2>1, AsmAlone
<1> QED
  BY <1>3, <1>5

(* The checks before anything listens. *)
LEMMA AsmChecks ==
  ASSUME AsmInv, (\E mode \in SecurityModes \cup {"headless"}, pprof \in BOOLEAN : Validate(mode, pprof))
                 \/ (\E hasBus \in BOOLEAN : Subscribe(hasBus)) \/ BuildMux
  PROVE  AsmInv'
<1>0. asm \in AsmState /\ AsmTypeOK
  BY AsmStateFacts DEF AsmInv, AsmTypeOK
<1>1. stack = <<>> /\ UNCHANGED <<graph, resolution>>
  BY DEF AsmInv, StackInv, Callbacks, Validate, Subscribe, BuildMux
<1>2. /\ asm.phase \in {"validate", "subscribe", "mux"} /\ asm.failure = "none" /\ asm.entry = "Run"
      /\ (\A k \in local \cup contrib : built[k] > 0) /\ (asm.migrations => asm.migrated \in {"applied", "skipped"})
  BY DEF AsmInv, PhaseInv, AssembledPhases, Validate, Subscribe, BuildMux
<1>3. CASE \E why \in {"validation", "no_bus", "mux"} : Fails(why)
  <2>1. PICK why \in {"validation", "no_bus", "mux"} : Fails(why)
    BY <1>3
  <2>2. why \in AsmFailures \ {"missing", "cycle"}
    BY <2>1 DEF AsmFailures
  <2> QED
    BY <1>1, <2>1, <2>2, AsmGivesUp
<1>4. CASE ~(Fails("validation") \/ Fails("no_bus") \/ Fails("mux"))
  <2>1. ASSUME NEW mode \in SecurityModes \cup {"headless"}, NEW pprof \in BOOLEAN, Validate(mode, pprof)
        PROVE  /\ asm' = [asm EXCEPT !.phase = "subscribe", !.mode = mode] /\ PermsDeclared
               /\ mode = "headless" => asm.routes = {}
               /\ mode \in {"user_facing", "internal_service", "mixed"} => "unclassified" \notin asm.routes
    BY <1>4, <2>1 DEF Validate, Refused
  <2>2. /\ asm' \in AsmState /\ asm'.phase \in {"subscribe", "mux", "starting"} /\ asm'.failure = "none"
        /\ asm'.entry = "Run" /\ asm'.migrations = asm.migrations /\ asm'.migrated = asm.migrated
        /\ asm'.mode = "headless" => asm'.routes = {}
        /\ asm'.mode \in {"user_facing", "internal_service", "mixed"} => "unclassified" \notin asm'.routes
        /\ asm'.binds \subseteq asm'.codes
        /\ asm'.phase \in {"mux", "starting"} => asm'.subscribed = asm'.consumers
    <3>1. CASE \E mode \in SecurityModes \cup {"headless"}, pprof \in BOOLEAN : Validate(mode, pprof)
      <4>1. PICK mode \in SecurityModes \cup {"headless"}, pprof \in BOOLEAN : Validate(mode, pprof)
        BY <3>1
      <4>2. asm' = [asm EXCEPT !.phase = "subscribe", !.mode = mode]
        BY <2>1, <4>1
      <4>3. asm' \in AsmState
        BY <1>0, <4>2 DEF AsmState, AsmPhases
      <4>4. /\ asm'.phase = "subscribe" /\ asm'.mode = mode /\ asm'.failure = "none" /\ asm'.entry = "Run"
            /\ asm'.migrations = asm.migrations /\ asm'.migrated = asm.migrated /\ asm'.routes = asm.routes
            /\ asm'.binds = asm.binds /\ asm'.codes = asm.codes
        BY <1>0, <1>2, <4>2 DEF AsmState
      <4> QED
        BY <2>1, <4>1, <4>3, <4>4 DEF PermsDeclared
    <3>2. CASE (\E hasBus \in BOOLEAN : Subscribe(hasBus)) \/ BuildMux
      <4>1. /\ asm.mode = "headless" => asm.routes = {}
            /\ asm.mode \in {"user_facing", "internal_service", "mixed"} => "unclassified" \notin asm.routes
            /\ asm.binds \subseteq asm.codes
            /\ asm.phase = "mux" => asm.subscribed = asm.consumers
        BY <3>2 DEF AsmInv, PhaseInv, Subscribe, BuildMux
      <4>2. \/ asm.phase = "subscribe" /\ asm' = [asm EXCEPT !.phase = "mux", !.subscribed = asm.consumers]
            \/ asm.phase = "mux" /\ asm' = [asm EXCEPT !.phase = "starting"]
        BY <1>4, <3>2 DEF Subscribe, BuildMux
      <4>a. ASSUME asm.phase = "subscribe", asm' = [asm EXCEPT !.phase = "mux", !.subscribed = asm.consumers]
            PROVE  asm' \in AsmState /\ asm'.phase \in {"mux", "starting"} /\ asm'.subscribed = asm'.consumers
        <5>1. PICK n \in Nat : n = asm.consumers
          BY <1>0 DEF AsmState
        <5>2. asm' = [asm EXCEPT !.phase = "mux", !.subscribed = n]
          BY <4>a, <5>1
        <5>3. asm' \in AsmState
          BY <1>0, <5>2 DEF AsmState, AsmPhases
        <5>4. asm'.phase = "mux" /\ asm'.subscribed = n /\ asm'.consumers = asm.consumers
          BY <1>0, <5>2 DEF AsmState
        <5> QED
          BY <5>1, <5>3, <5>4
      <4>b. ASSUME asm.phase = "mux", asm' = [asm EXCEPT !.phase = "starting"]
            PROVE  asm' \in AsmState /\ asm'.phase \in {"mux", "starting"} /\ asm'.subscribed = asm'.consumers
        BY <1>0, <4>1, <4>b DEF AsmState, AsmPhases
      <4>3. asm' \in AsmState /\ asm'.phase \in {"mux", "starting"} /\ asm'.subscribed = asm'.consumers
        BY <4>2, <4>a, <4>b
      <4>4. /\ asm'.mode = asm.mode /\ asm'.failure = "none" /\ asm'.entry = "Run"
            /\ asm'.migrations = asm.migrations /\ asm'.migrated = asm.migrated /\ asm'.routes = asm.routes
            /\ asm'.binds = asm.binds /\ asm'.codes = asm.codes /\ asm'.consumers = asm.consumers
        BY <1>0, <1>2, <4>2 DEF AsmState
      <4> QED
        BY <4>1, <4>3, <4>4
    <3> QED
      BY <3>1, <3>2
  <2>3. PhaseInv'
    BY <1>1, <1>2, <2>2 DEF PhaseInv, AssembledPhases, graph, resolution
  <2> QED
    BY <1>1, <2>2, <2>3, AsmAlone
<1> QED
  BY <1>3, <1>4

(* What the constructors under way and the built bindings have in common,  *)
(* whichever of them the step is about.                                    *)
LEMMA StackFacts ==
  ASSUME AsmInv, stack # <<>>
  PROVE  /\ Len(stack) \in Nat \ {0} /\ DOMAIN stack = 1..Len(stack) /\ Last(stack) = stack[Len(stack)]
         /\ \A i \in 1..Len(stack) : stack[i] \in AsmFrame
         /\ Last(stack).key \in BindingKeys /\ built[Last(stack).key] = 0 /\ ~IsBuilt(Last(stack).key)
         /\ asm.phase \in {"resolve"} \cup Callbacks /\ asm.failure = "none"
<1>1. Len(stack) \in Nat \ {0} /\ DOMAIN stack = 1..Len(stack) /\ \A i \in 1..Len(stack) : stack[i] \in AsmFrame
  BY DEF AsmInv, AsmTypeOK
<1>2. Len(stack) \in 1..Len(stack) /\ Last(stack) = stack[Len(stack)]
  BY <1>1 DEF Last
<1>3. asm.phase \in {"resolve"} \cup Callbacks /\ built[Last(stack).key] = 0
  BY <1>1, <1>2 DEF AsmInv, StackInv, UniqueKeys, NoneBuilt, EachWaits, HasResolved, KnowsWhy
<1>4. asm.failure = "none"
  BY <1>3 DEF AsmInv, PhaseInv, Callbacks
<1> QED
  BY <1>1, <1>2, <1>3, <1>4 DEF AsmFrame, IsBuilt

(* The constructors under way are of different keys. *)
LEMMA KeysUnderWay ==
  ASSUME AsmInv, NEW i \in 1..Len(stack), NEW j \in 1..Len(stack), i # j
  PROVE  stack[i].key # stack[j].key
<1>1. DOMAIN stack = 1..Len(stack)
  BY DEF AsmInv, AsmTypeOK
<1>2. \A x, y \in DOMAIN stack : stack[x].key = stack[y].key => x = y
  BY DEF AsmInv, StackInv, UniqueKeys, NoneBuilt, EachWaits, HasResolved, KnowsWhy
<1>3. i \in DOMAIN stack /\ j \in DOMAIN stack
  BY <1>1
<1> QED
  BY <1>2, <1>3, Zenon

(* Constructing what is not built changes nothing for what is.              *)
LEMMA BuiltKept ==
  ASSUME AsmInv, UNCHANGED built, NEW k \in BindingKeys, ~IsBuilt(k), NEW l \in BindingKeys, ~IsBuilt(l),
         deps' \in [BindingKeys -> SUBSET Keys], \A j \in BindingKeys \ {k, l} : deps'[j] = deps[j]
  PROVE  BuiltInv'
<1> SUFFICES ASSUME NEW b \in BindingKeys, built[b] = 1
             PROVE  \E S \in SUBSET Keys : b \notin S /\ deps'[b] \subseteq S
                                           /\ \A j \in S : built[j] = 1 /\ deps'[j] \subseteq S
  BY DEF AsmInv, BuiltInv, IsBuilt
<1>1. PICK S \in SUBSET Keys : b \notin S /\ deps[b] \subseteq S /\ \A j \in S : IsBuilt(j) /\ deps[j] \subseteq S
  BY DEF AsmInv, BuiltInv, IsBuilt
<1>2. b # k /\ b # l /\ k \notin S /\ l \notin S
  BY <1>1 DEF IsBuilt
<1>3. S \subseteq BindingKeys
  BY DEF BindingKeys
<1>4. deps'[b] = deps[b] /\ \A j \in S : deps'[j] = deps[j]
  BY <1>2, <1>3
<1> QED
  BY <1>1, <1>4 DEF IsBuilt

(* The lookup of a key. *)
LEMMA LookupFacts ==
  ASSUME AsmInv, NEW k \in Keys
  PROVE  /\ Lookup(k) \in {"missing", "value", "cycle", "construct"}
         /\ Lookup(k) = "missing" => k \notin local \cup remote
         /\ Lookup(k) = "value" => IsBuilt(k)
         /\ Lookup(k) = "cycle" => k \in Inflight
         /\ Lookup(k) = "construct" => ~IsBuilt(k) /\ built[k] = 0 /\ k \notin Inflight
<1>1. built[k] \in {0, 1}
  BY DEF AsmInv, BuiltInv, BindingKeys
<1>2. CASE k \notin local \cup remote
  BY <1>1, <1>2 DEF Lookup
<1>3. CASE k \in local \cup remote /\ built[k] > 0
  BY <1>1, <1>3 DEF Lookup, IsBuilt
<1>4. CASE k \in local \cup remote /\ built[k] = 0 /\ k \in Inflight
  BY <1>1, <1>4 DEF Lookup
<1>5. CASE k \in local \cup remote /\ built[k] = 0 /\ k \notin Inflight
  BY <1>1, <1>5 DEF Lookup, IsBuilt
<1> QED
  BY <1>1, <1>2, <1>3, <1>4, <1>5

(* A key that is resolved again while its constructor is under way is on a  *)
(* cycle: each constructor between depends on the one above it.             *)
LEMMA CycleIsReached ==
  ASSUME NEW k \in Keys, NEW m \in Nat, NEW n \in Nat, m <= n, NEW key, key[m] = k, NEW D,
         \A i \in m..n - 1 : key[i + 1] \in D[key[i]],
         k \in D[key[n]],
         NEW S \in SUBSET Keys, D[k] \subseteq S, \A i \in S : D[i] \subseteq S
  PROVE  k \in S
<1> SUFFICES ASSUME k \notin S PROVE FALSE
  OBVIOUS
<1> DEFINE T == {i \in m + 1..n : key[i] \notin S}
<1>1. m < n
  OBVIOUS
<1>2. n \in T
  BY <1>1
<1>3. T \subseteq Nat /\ T # {}
  BY <1>2
<1>4. PICK i \in T : \A j \in T : i <= j
  <2> HIDE DEF T
  <2> QED
    BY <1>3, LeastNatural
<1>5. CASE i = m + 1
  <2>1. key[m + 1] \in D[k]
    BY <1>1
  <2> QED
    BY <1>4, <1>5, <2>1
<1>6. CASE i # m + 1
  <2>1. i - 1 \in m + 1..n /\ i - 1 \in m..n - 1 /\ i = (i - 1) + 1
    BY <1>4, <1>6
  <2>2. key[i - 1] \in S
    BY <1>4, <2>1
  <2>3. key[i] \in D[key[i - 1]]
    BY <2>1
  <2> QED
    BY <1>4, <2>2, <2>3
<1> QED
  BY <1>5, <1>6

(* The constructor on top goes on: what it has resolved, and how the last   *)
(* Resolve of it failed, may change.  l is a key whose constructor is       *)
(* called again, if one is.                                                 *)
LEMMA TopGoesOn ==
  ASSUME AsmInv, stack # <<>>, UNCHANGED <<asm, graph, built>>,
         NEW f \in AsmFrame, f.key = Last(stack).key, stack' = [stack EXCEPT ![Len(stack)] = f],
         deps' \in [BindingKeys -> SUBSET Keys],
         \A j \in BindingKeys \ {Last(stack).key} : deps'[j] = deps[j],
         \A j \in deps'[Last(stack).key] : IsBuilt(j) \/ (j = f.dep /\ f.err # "none"),
         f.err = "missing" => f.at \notin local \cup remote,
         f.err = "cycle" => \E k \in BindingKeys : k = f.at /\ k \in Reaches(k)'
  PROVE  AsmInv'
<1> DEFINE n == Len(stack)
           top == Last(stack).key
<1>0. /\ n \in Nat \ {0} /\ DOMAIN stack = 1..n /\ Last(stack) = stack[n]
      /\ \A i \in 1..n : stack[i] \in AsmFrame
      /\ top \in BindingKeys /\ built[top] = 0 /\ ~IsBuilt(top)
      /\ asm.phase \in {"resolve"} \cup Callbacks /\ asm.failure = "none"
  BY StackFacts
<1>1. stack' \in Seq(AsmFrame) /\ Len(stack') = n /\ DOMAIN stack' = 1..n
  BY <1>0, ExceptSeq DEF AsmInv, AsmTypeOK
<1>2. stack'[n] = f /\ \A i \in 1..n : i # n => stack'[i] = stack[i]
  <2>1. n \in DOMAIN stack
    BY <1>0
  <2> QED
    BY <1>0, <2>1
<1>3. \A i \in 1..n : stack'[i].key = stack[i].key
  BY <1>0, <1>2
<1>4. \A i \in 1..n : i # n => stack[i].key # top /\ stack[i].key \in BindingKeys /\ i + 1 \in 1..n /\ i \in 1..n
  <2> SUFFICES ASSUME NEW i \in 1..n, i # n
               PROVE  stack[i].key # top /\ stack[i].key \in BindingKeys /\ i + 1 \in 1..n
    OBVIOUS
  <2>0. n \in Nat
    BY <1>0
  <2>1. n \in 1..n /\ i + 1 \in 1..n
    BY <2>0
  <2>2. stack[i].key # stack[n].key
    BY <2>1, KeysUnderWay
  <2> QED
    BY <1>0, <2>1, <2>2 DEF AsmFrame
<1>5. \A i \in 1..n : i # n => deps'[stack[i].key] = deps[stack[i].key]
  BY <1>4
<1>6. AsmTypeOK'
  BY <1>1 DEF AsmInv, AsmTypeOK, graph
<1>7. BuiltInv'
  BY <1>0, BuiltKept
<1>8. PhaseInv'
  BY <1>0 DEF AsmInv, PhaseInv, AssembledPhases, Callbacks, graph
<1> HIDE DEF n, top
<1>9. StackInv'
  <2>1. stack' # <<>> => asm'.phase \in {"resolve"} \cup Callbacks
    BY <1>0
  <2>2. \A i, j \in 1..n : stack'[i].key = stack'[j].key => i = j
    <3> SUFFICES ASSUME NEW i \in 1..n, NEW j \in 1..n, i # j PROVE stack'[i].key # stack'[j].key
      OBVIOUS
    <3> QED
      BY <1>3, KeysUnderWay DEF n
  <2>3. \A i \in 1..n : built'[stack'[i].key] = 0
    BY <1>0, <1>3 DEF AsmInv, StackInv, UniqueKeys, NoneBuilt, EachWaits, HasResolved, KnowsWhy
  <2>4. \A i \in 1..n : i + 1 \in 1..n =>
          /\ stack'[i].err = "none" /\ stack'[i].dep = stack'[i + 1].key
          /\ stack'[i].dep \in deps'[stack'[i].key]
    <3> SUFFICES ASSUME NEW i \in 1..n, i + 1 \in 1..n
                 PROVE  /\ stack'[i].err = "none" /\ stack'[i].dep = stack'[i + 1].key
                        /\ stack'[i].dep \in deps'[stack'[i].key]
      OBVIOUS
    <3>1. i # n
      BY <1>0
    <3>2. /\ stack[i].err = "none" /\ stack[i].dep = stack[i + 1].key /\ stack[i].dep \in deps[stack[i].key]
      BY <1>0 DEF AsmInv, StackInv, UniqueKeys, NoneBuilt, EachWaits, HasResolved, KnowsWhy
    <3> QED
      BY <1>2, <1>3, <1>5, <3>1, <3>2
  <2>5. \A i \in 1..n : \A j \in deps'[stack'[i].key] :
          (built'[j] = 1) \/ (j = stack'[i].dep /\ (i + 1 \in 1..n \/ stack'[i].err # "none"))
    <3> SUFFICES ASSUME NEW i \in 1..n, NEW j \in deps'[stack'[i].key]
                 PROVE  (built'[j] = 1) \/ (j = stack'[i].dep /\ (i + 1 \in 1..n \/ stack'[i].err # "none"))
      OBVIOUS
    <3>1. CASE i = n
      <4>1. stack'[i] = f /\ j \in deps'[Last(stack).key]
        BY <1>2, <3>1
      <4> QED
        BY <4>1 DEF IsBuilt
    <3>2. CASE i # n
      <4>1. stack'[i] = stack[i] /\ j \in deps[stack[i].key]
        BY <1>2, <1>5, <3>2
      <4> QED
        BY <1>0, <4>1 DEF AsmInv, StackInv, UniqueKeys, NoneBuilt, EachWaits, HasResolved, KnowsWhy, IsBuilt
    <3> QED
      BY <3>1, <3>2
  <2>6. \A i \in 1..n : stack'[i].err = "missing" => stack'[i].at \notin local' \cup remote'
    <3> SUFFICES ASSUME NEW i \in 1..n, stack'[i].err = "missing" PROVE stack'[i].at \notin local \cup remote
      BY DEF graph
    <3>1. CASE i = n
      <4>1. f.err = "missing" /\ stack'[i].at = f.at
        BY <1>2, <3>1
      <4> QED
        BY <4>1
    <3>2. CASE i # n
      BY <1>0, <1>2, <3>2 DEF AsmInv, StackInv, UniqueKeys, NoneBuilt, EachWaits, HasResolved, KnowsWhy
    <3> QED
      BY <3>1, <3>2
  <2>7. \A i \in 1..n : stack'[i].err = "cycle" => \E k \in BindingKeys : k = stack'[i].at /\ k \in Reaches(k)'
    <3> SUFFICES ASSUME NEW i \in 1..n, stack'[i].err = "cycle"
                 PROVE  \E k \in BindingKeys : k = stack'[i].at /\ k \in Reaches(k)'
      OBVIOUS
    <3>1. i = n
      BY <1>0, <1>2, <1>4 DEF AsmInv, StackInv, EachWaits
    <3>2. f.err = "cycle" /\ f.at = stack'[i].at
      BY <1>2, <3>1
    <3> QED
      BY <3>2
  <2>8. UniqueKeys' /\ NoneBuilt' /\ EachWaits'
    BY <1>1, <2>2, <2>3, <2>4 DEF UniqueKeys, NoneBuilt, EachWaits
  <2>9. HasResolved'
    BY <1>1, <2>5 DEF HasResolved, IsBuilt
  <2>10. KnowsWhy'
    BY <1>1, <2>6, <2>7 DEF KnowsWhy
  <2> QED
    BY <2>1, <2>8, <2>9, <2>10 DEF StackInv
<1> QED
  BY <1>6, <1>7, <1>8, <1>9 DEF AsmInv

(* A constructor begins, on top of the one that resolves its key if one     *)
(* does (rest is then the stack with that one waiting).                     *)
LEMMA ConstructorBegins ==
  ASSUME AsmInv, UNCHANGED <<asm, graph, built>>, asm.phase \in {"resolve"} \cup Callbacks,
         NEW k \in BindingKeys, built[k] = 0, k \notin Inflight,
         NEW rest \in Seq(AsmFrame), Len(rest) = Len(stack), stack' = Append(rest, Frame(k)),
         \A i \in 1..Len(stack) : rest[i].key = stack[i].key /\ rest[i].err = "none",
         \A i \in 1..Len(stack) - 1 : rest[i] = stack[i],
         Len(stack) # 0 => rest[Len(stack)].dep = k /\ k \in Keys,
         deps' = [(IF Len(stack) = 0 THEN Restarted(k) ELSE [Restarted(k) EXCEPT ![stack[Len(stack)].key] = @ \cup {k}])
                    EXCEPT ![k] = {}],
         Len(stack) # 0 => stack[Len(stack)].err = "none"
  PROVE  AsmInv'
<1> DEFINE n == Len(stack)
<1>0. n \in Nat /\ DOMAIN stack = 1..n /\ \A i \in 1..n : stack[i] \in AsmFrame
  BY DEF AsmInv, AsmTypeOK
<1>1. Frame(k) \in AsmFrame /\ Frame(k).key = k /\ Frame(k).err = "none"
  BY DEF AsmFrame, Frame
<1>2. stack' \in Seq(AsmFrame) /\ Len(stack') = n + 1 /\ DOMAIN stack' = 1..n + 1
  BY <1>0, <1>1, AppendProperties
<1>3. stack'[n + 1] = Frame(k) /\ \A i \in 1..n : stack'[i] = rest[i]
  BY <1>0, <1>1, AppendProperties
<1>4. \A i \in 1..n : stack'[i].key = stack[i].key /\ stack'[i].err = "none" /\ stack[i].key # k
                      /\ stack[i].key \in BindingKeys
  BY <1>0, <1>3 DEF Inflight, AsmFrame
<1>5. deps' \in [BindingKeys -> SUBSET Keys] /\ deps'[k] = {}
  BY <1>0, <1>4 DEF AsmInv, AsmTypeOK, Restarted
<1>6. /\ \A i \in 1..n : i # n => deps'[stack[i].key] = deps[stack[i].key]
      /\ n # 0 => deps'[stack[n].key] = deps[stack[n].key] \cup {k}
  <2>1. \A i \in 1..n : i # n => stack[i].key # stack[n].key
    <3> SUFFICES ASSUME NEW i \in 1..n, i # n PROVE stack[i].key # stack[n].key
      OBVIOUS
    <3>1. n \in 1..n
      BY <1>0
    <3> QED
      BY <3>1, KeysUnderWay
  <2> QED
    BY <1>0, <1>4, <2>1 DEF AsmInv, AsmTypeOK, Restarted
<1>7. \E l \in BindingKeys : ~IsBuilt(l) /\ \A j \in BindingKeys \ {k, l} : deps'[j] = deps[j]
  <2>1. CASE n = 0
    BY <2>1 DEF Restarted, IsBuilt, AsmInv, AsmTypeOK
  <2>2. CASE n # 0
    <3>1. stack[n].key \in BindingKeys /\ built[stack[n].key] = 0
      BY <1>0, <1>4, <2>2 DEF AsmInv, StackInv, UniqueKeys, NoneBuilt, EachWaits, HasResolved, KnowsWhy
    <3>2. \A j \in BindingKeys \ {k, stack[n].key} : deps'[j] = deps[j]
      BY <2>2 DEF Restarted, AsmInv, AsmTypeOK
    <3>3. ~IsBuilt(stack[n].key)
      BY <3>1 DEF IsBuilt
    <3> QED
      BY <3>1, <3>2, <3>3
  <2> QED
    BY <2>1, <2>2
<1>8. AsmTypeOK'
  BY <1>2, <1>5 DEF AsmInv, AsmTypeOK, graph
<1>9. BuiltInv'
  <2>1. PICK l \in BindingKeys : ~IsBuilt(l) /\ \A j \in BindingKeys \ {k, l} : deps'[j] = deps[j]
    BY <1>7
  <2>2. ~IsBuilt(k)
    BY DEF IsBuilt
  <2> QED
    BY <1>5, <2>1, <2>2, BuiltKept
<1>10. PhaseInv'
  BY DEF AsmInv, PhaseInv, AssembledPhases, Callbacks, graph
<1> HIDE DEF n
<1>11. StackInv'
  <2>1. \A i, j \in 1..n + 1 : stack'[i].key = stack'[j].key => i = j
    <3> SUFFICES ASSUME NEW i \in 1..n + 1, NEW j \in 1..n + 1, i # j PROVE stack'[i].key # stack'[j].key
      BY ZenonT(60)
    <3>1. (i \in 1..n \/ i = n + 1) /\ (j \in 1..n \/ j = n + 1)
      BY <1>0
    <3>2. stack'[n + 1].key = k
      BY <1>1, <1>3
    <3>3. i \in 1..n /\ j \in 1..n => stack[i].key # stack[j].key
      BY KeysUnderWay DEF n
    <3> QED
      BY ZenonT(60), <1>4, <3>1, <3>2, <3>3
  <2>2. \A i \in 1..n + 1 : built'[stack'[i].key] = 0
    <3>1. \A i \in 1..n : built[stack[i].key] = 0
      BY <1>0 DEF AsmInv, StackInv, UniqueKeys, NoneBuilt, EachWaits, HasResolved, KnowsWhy
    <3>2. \A i \in 1..n + 1 : i \in 1..n \/ i = n + 1
      BY <1>0
    <3>3. stack'[n + 1].key = k
      BY <1>1, <1>3
    <3> QED
      BY <1>4, <3>1, <3>2, <3>3
  <2>3. \A i \in 1..n + 1 : i + 1 \in 1..n + 1 =>
          /\ stack'[i].err = "none" /\ stack'[i].dep = stack'[i + 1].key
          /\ stack'[i].dep \in deps'[stack'[i].key]
    <3> SUFFICES ASSUME NEW i \in 1..n + 1, i + 1 \in 1..n + 1
                 PROVE  /\ stack'[i].err = "none" /\ stack'[i].dep = stack'[i + 1].key
                        /\ stack'[i].dep \in deps'[stack'[i].key]
      OBVIOUS
    <3>1. CASE i = n
      <4>1. i \in 1..n /\ n # 0
        BY <1>0, <3>1
      <4>2. stack'[i].dep = k /\ k \in deps'[stack[i].key]
        BY <1>3, <1>6, <3>1, <4>1 DEF n
      <4> QED
        BY <1>1, <1>3, <1>4, <3>1, <4>1, <4>2
    <3>2. CASE i # n
      <4>1. i \in 1..n /\ i + 1 \in 1..n /\ i \in 1..n - 1
        BY <1>0, <3>2
      <4>2. stack'[i] = stack[i]
        BY <1>3, <4>1 DEF n
      <4>3. stack[i].err = "none" /\ stack[i].dep = stack[i + 1].key /\ stack[i].dep \in deps[stack[i].key]
        BY <1>0, <4>1 DEF AsmInv, StackInv, UniqueKeys, NoneBuilt, EachWaits, HasResolved, KnowsWhy
      <4>4. stack'[i + 1].key = stack[i + 1].key /\ stack'[i].key = stack[i].key
        BY <1>4, <4>1
      <4>5. deps'[stack[i].key] = deps[stack[i].key]
        BY <1>6, <3>2, <4>1
      <4> QED
        BY <4>2, <4>3, <4>4, <4>5
    <3> QED
      BY <3>1, <3>2
  <2>4. \A i \in 1..n + 1 : \A j \in deps'[stack'[i].key] :
          (built'[j] = 1) \/ (j = stack'[i].dep /\ (i + 1 \in 1..n + 1 \/ stack'[i].err # "none"))
    <3> SUFFICES ASSUME NEW i \in 1..n + 1, NEW j \in deps'[stack'[i].key]
                 PROVE  (built'[j] = 1) \/ (j = stack'[i].dep /\ (i + 1 \in 1..n + 1 \/ stack'[i].err # "none"))
      OBVIOUS
    <3>1. CASE i = n + 1
      BY <1>1, <1>3, <1>5, <3>1
    <3>2. CASE i = n /\ i # n + 1
      <4>1. i \in 1..n /\ n # 0 /\ i + 1 \in 1..n + 1
        BY <1>0, <3>2
      <4>2. j \in deps[stack[i].key] \cup {k} /\ stack'[i].dep = k
        BY <1>3, <1>4, <1>6, <3>2, <4>1 DEF n
      <4>3. j \in deps[stack[i].key] => IsBuilt(j)
        <5>1. ~(i + 1 \in 1..n) /\ stack[i].err = "none"
          BY <1>0, <3>2, <4>1 DEF n
        <5> QED
          BY <1>0, <4>1, <5>1 DEF AsmInv, StackInv, UniqueKeys, NoneBuilt, EachWaits, HasResolved, KnowsWhy
      <4> QED
        BY <4>1, <4>2, <4>3 DEF IsBuilt
    <3>3. CASE i # n /\ i # n + 1
      <4>1. i \in 1..n /\ i + 1 \in 1..n /\ i \in 1..n - 1 /\ i + 1 \in 1..n + 1
        BY <1>0, <3>3
      <4>2. stack'[i] = stack[i]
        BY <1>3, <4>1 DEF n
      <4>3. deps'[stack[i].key] = deps[stack[i].key]
        BY <1>6, <3>3, <4>1
      <4>4. j \in deps[stack[i].key]
        BY <4>2, <4>3
      <4> QED
        BY SMTT(60), <1>0, <4>1, <4>2, <4>4 DEF AsmInv, StackInv, UniqueKeys, NoneBuilt, EachWaits,
            HasResolved, KnowsWhy, IsBuilt
    <3> QED
      BY <3>1, <3>2, <3>3
  <2>5. \A i \in 1..n + 1 : stack'[i].err = "none"
    <3>1. \A i \in 1..n + 1 : i \in 1..n \/ i = n + 1
      BY <1>0
    <3> QED
      BY <1>1, <1>3, <1>4, <3>1
  <2>6. asm'.phase \in {"resolve"} \cup Callbacks
    OBVIOUS
  <2>7. \A i \in 1..n + 1 : stack'[i].err # "missing" /\ stack'[i].err # "cycle"
    BY <2>5
  <2>8. UniqueKeys' /\ NoneBuilt' /\ EachWaits'
    BY <1>2, <2>1, <2>2, <2>3 DEF UniqueKeys, NoneBuilt, EachWaits
  <2>9. HasResolved'
    BY <1>2, <2>4 DEF HasResolved, IsBuilt
  <2>10. KnowsWhy'
    BY <1>2, <2>7 DEF KnowsWhy
  <2> QED
    BY <2>6, <2>8, <2>9, <2>10 DEF StackInv
<1> QED
  BY <1>8, <1>9, <1>10, <1>11 DEF AsmInv

(* The constructor on top is done: it returned and is built, or the one     *)
(* below has its error.                                                     *)
LEMMA TopIsPopped ==
  ASSUME AsmInv, stack # <<>>, UNCHANGED <<local, remote, deps>>, asm'.phase \in {"resolve"} \cup Callbacks \/ stack' = <<>>,
         NEW rest \in Seq(AsmFrame), stack' = rest, Len(rest) = Len(stack) - 1,
         \A i \in 1..Len(stack) - 2 : rest[i] = stack[i],
         Len(stack) # 1 => /\ rest[Len(stack) - 1].key = stack[Len(stack) - 1].key
                           /\ rest[Len(stack) - 1].dep = stack[Len(stack) - 1].dep,
         \A j \in BindingKeys \ {Last(stack).key} : built'[j] = built[j],
         \/ built'[Last(stack).key] = 1 /\ (Len(stack) # 1 => rest[Len(stack) - 1].err = "none")
         \/ /\ built' = built
            /\ Len(stack) # 1 => rest[Len(stack) - 1].err # "none"
            /\ Len(stack) # 1 /\ rest[Len(stack) - 1].err = "missing" => rest[Len(stack) - 1].at \notin local \cup remote
            /\ Len(stack) # 1 /\ rest[Len(stack) - 1].err = "cycle" =>
                 \E k \in BindingKeys : k = rest[Len(stack) - 1].at /\ k \in Reaches(k)
  PROVE  StackInv'
<1> DEFINE n == Len(stack)
           top == Last(stack).key
<1>0. /\ n \in Nat \ {0} /\ DOMAIN stack = 1..n /\ Last(stack) = stack[n]
      /\ \A i \in 1..n : stack[i] \in AsmFrame
      /\ top \in BindingKeys /\ built[top] = 0 /\ ~IsBuilt(top)
  BY StackFacts
<1>n. n \in Nat \ {0}
  BY <1>0
<1>1. stack' = rest /\ DOMAIN rest = 1..n - 1
  BY <1>n
<1>2. \A i \in 1..n - 1 : /\ i \in 1..n /\ i + 1 \in 1..n
                          /\ rest[i].key = stack[i].key /\ rest[i].dep = stack[i].dep
                          /\ (i # n - 1 => rest[i] = stack[i] /\ i + 1 \in 1..n - 1)
                          /\ stack[i].key # top /\ stack[i].key \in BindingKeys
  <2> SUFFICES ASSUME NEW i \in 1..n - 1
               PROVE  /\ i \in 1..n /\ i + 1 \in 1..n
                      /\ rest[i].key = stack[i].key /\ rest[i].dep = stack[i].dep
                      /\ (i # n - 1 => rest[i] = stack[i] /\ i + 1 \in 1..n - 1)
                      /\ stack[i].key # top /\ stack[i].key \in BindingKeys
    OBVIOUS
  <2>1. i \in 1..n /\ i + 1 \in 1..n /\ n \in 1..n /\ i # n /\ n # 1
    BY <1>n
  <2>2. i # n - 1 => i \in 1..n - 2 /\ i + 1 \in 1..n - 1
    BY <1>n
  <2>3. i # n - 1 => rest[i] = stack[i]
    BY <2>2
  <2>4. rest[i].key = stack[i].key /\ rest[i].dep = stack[i].dep
    BY <2>1, <2>3
  <2>5. stack[i].key # stack[n].key
    BY <2>1, KeysUnderWay
  <2>6. stack[i].key \in BindingKeys
    BY <1>0, <2>1 DEF AsmFrame
  <2> QED
    BY <1>0, <2>1, <2>2, <2>3, <2>4, <2>5, <2>6
<1>3. \A j : IsBuilt(j) /\ j \in BindingKeys => built'[j] = 1
  BY <1>0 DEF IsBuilt
<1>4. \A k : Reaches(k)' = Reaches(k)
  BY DEF Reaches
<1>5. \A i \in 1..n - 1 : stack[i].dep = stack[i + 1].key /\ stack[i].dep \in deps[stack[i].key] /\ stack[i].err = "none"
  BY <1>0, <1>2 DEF AsmInv, StackInv, EachWaits
<1> HIDE DEF n, top
<1>6. UniqueKeys'
  <2> SUFFICES ASSUME NEW i \in 1..n - 1, NEW j \in 1..n - 1, i # j PROVE rest[i].key # rest[j].key
    BY <1>1 DEF UniqueKeys
  <2> QED
    BY <1>2, KeysUnderWay DEF n
<1>7. NoneBuilt'
  <2> SUFFICES ASSUME NEW i \in 1..n - 1 PROVE built'[rest[i].key] = 0
    BY <1>1 DEF NoneBuilt
  <2>1. built[stack[i].key] = 0
    BY <1>0, <1>2 DEF AsmInv, StackInv, NoneBuilt
  <2>2. built'[stack[i].key] = built[stack[i].key]
    BY <1>2 DEF top
  <2> QED
    BY <1>2, <2>1, <2>2
<1>8. EachWaits'
  <2> SUFFICES ASSUME NEW i \in 1..n - 1, i + 1 \in 1..n - 1
               PROVE  rest[i].err = "none" /\ rest[i].dep = rest[i + 1].key /\ rest[i].dep \in deps[rest[i].key]
    BY <1>1 DEF EachWaits
  <2>1. i # n - 1
    BY <1>n DEF n
  <2> QED
    BY <1>2, <1>5, <2>1
<1>9. HasResolved'
  <2> SUFFICES ASSUME NEW i \in 1..n - 1, NEW j \in deps[rest[i].key]
               PROVE  built'[j] = 1 \/ (j = rest[i].dep /\ (i + 1 \in 1..n - 1 \/ rest[i].err # "none"))
    BY <1>1 DEF HasResolved, IsBuilt
  <2>1. j \in BindingKeys
    BY <1>2 DEF AsmInv, AsmTypeOK, BindingKeys
  <2>2. IsBuilt(j) \/ j = stack[i].dep
    BY <1>0, <1>2 DEF AsmInv, StackInv, HasResolved
  <2>3. CASE IsBuilt(j)
    BY <1>3, <2>1, <2>3
  <2>4. CASE j = stack[i].dep /\ i # n - 1
    BY <1>2, <2>4
  <2>5. CASE j = stack[i].dep /\ i = n - 1
    <3>1. j = stack[i + 1].key /\ i + 1 = n
      BY <1>n, <1>5, <2>5 DEF n
    <3>2. j = top /\ n # 1
      BY <1>0, <1>n, <2>5, <3>1 DEF top, n
    <3>3. CASE built'[top] = 1
      BY <3>2, <3>3
    <3>4. CASE rest[n - 1].err # "none"
      BY <1>2, <2>5, <3>4
    <3> QED
      BY <3>2, <3>3, <3>4 DEF n, top
  <2> QED
    BY <2>2, <2>3, <2>4, <2>5
<1>10. KnowsWhy'
  <2> SUFFICES ASSUME NEW i \in 1..n - 1
               PROVE  /\ rest[i].err = "missing" => rest[i].at \notin local \cup remote
                      /\ rest[i].err = "cycle" => \E k \in BindingKeys : k = rest[i].at /\ k \in Reaches(k)
    BY <1>1, <1>4 DEF KnowsWhy
  <2>1. CASE i # n - 1
    BY <1>2, <1>5, <2>1
  <2>2. CASE i = n - 1
    <3>1. n # 1
      BY <1>n, <2>2 DEF n
    <3> QED
      BY <2>2, <3>1 DEF n
  <2> QED
    BY <2>1, <2>2
<1>11. stack' # <<>> => asm'.phase \in {"resolve"} \cup Callbacks
  OBVIOUS
<1> QED
  BY <1>6, <1>7, <1>8, <1>9, <1>10, <1>11 DEF StackInv

(* The frame that is left on top when the top constructor is done. *)
LEMMA FrontFacts ==
  ASSUME AsmInv, stack # <<>>
  PROVE  /\ Front(stack) \in Seq(AsmFrame) /\ Len(Front(stack)) = Len(stack) - 1
         /\ \A i \in 1..Len(stack) - 1 : Front(stack)[i] = stack[i]
<1> DEFINE n == Len(stack)
<1>1. n \in Nat \ {0} /\ stack \in Seq(AsmFrame)
  BY StackFacts DEF AsmInv, AsmTypeOK
<1>2. 1 \in 1..n + 1 /\ n - 1 \in 0..n /\ (IF 1 <= n - 1 THEN (n - 1) - 1 + 1 ELSE 0) = n - 1
      /\ \A i \in 1..n - 1 : i \in 1..(n - 1) - 1 + 1 /\ 1 + i - 1 = i
  <2> HIDE DEF n
  <2> QED
    BY <1>1
<1>3. SubSeq(stack, 1, n - 1) \in Seq(AsmFrame) /\ Len(SubSeq(stack, 1, n - 1)) = n - 1
      /\ \A i \in 1..n - 1 : SubSeq(stack, 1, n - 1)[i] = stack[i]
  BY <1>1, <1>2, SubSeqProperties
<1> QED
  BY <1>3 DEF Front

(* A constructor that succeeds is built once, after all it depends on.      *)
LEMMA AsmReturns == ASSUME AsmInv, ConstructorReturns PROVE AsmInv'
<1> DEFINE n == Len(stack)
           top == Last(stack).key
<1>0. /\ n \in Nat \ {0} /\ DOMAIN stack = 1..n /\ Last(stack) = stack[n]
      /\ \A i \in 1..n : stack[i] \in AsmFrame
      /\ top \in BindingKeys /\ built[top] = 0 /\ ~IsBuilt(top) /\ stack # <<>>
      /\ asm.phase \in {"resolve"} \cup Callbacks /\ asm.failure = "none"
  BY StackFacts DEF ConstructorReturns
<1>n. n \in Nat \ {0} /\ n - 1 \in Nat
  BY <1>0
<1>1. stack' = Front(stack) /\ Last(stack).err = "none" /\ UNCHANGED <<asm, local, remote, contrib, deps>>
  BY DEF ConstructorReturns, graph
<1>2. Front(stack) \in Seq(AsmFrame) /\ Len(Front(stack)) = n - 1 /\ \A i \in 1..n - 1 : Front(stack)[i] = stack[i]
  BY <1>0, FrontFacts
<1>3. built' \in [BindingKeys -> Nat] /\ built'[top] = 1 /\ \A j \in BindingKeys \ {top} : built'[j] = built[j]
  BY <1>0 DEF AsmInv, AsmTypeOK, ConstructorReturns
<1>4. \A j \in deps[top] : IsBuilt(j)
  <2>1. n \in DOMAIN stack /\ ~(n + 1 \in DOMAIN stack)
    BY <1>0, <1>n
  <2> QED
    BY <1>0, <1>1, <2>1 DEF AsmInv, StackInv, HasResolved
<1>5. StackInv'
  <2> PICK rest \in Seq(AsmFrame) : rest = Front(stack)
    BY <1>2
  <2>1. \A i \in 1..n - 2 : rest[i] = stack[i]
    BY <1>2, <1>n
  <2>2. n # 1 => n - 1 \in 1..n - 1 /\ n - 1 \in 1..n /\ (n - 1) + 1 \in 1..n
    <3> HIDE DEF n
    <3> QED
      BY <1>n
  <2>3. n # 1 => rest[n - 1] = stack[n - 1]
    BY <1>2, <2>2
  <2>4. n # 1 => stack[n - 1].err = "none"
    BY <1>0, <2>2 DEF AsmInv, StackInv, EachWaits
  <2> QED
    BY <1>0, <1>1, <1>2, <1>3, <2>1, <2>3, <2>4, TopIsPopped
<1>6. AsmTypeOK'
  BY <1>1, <1>2, <1>3 DEF AsmInv, AsmTypeOK
<1>7. \A j \in BindingKeys : IsBuilt(j) => built'[j] = 1
  BY <1>0, <1>3 DEF IsBuilt
<1>8. BuiltInv'
  <2> SUFFICES ASSUME NEW k \in BindingKeys
               PROVE  /\ built'[k] \in {0, 1}
                      /\ built'[k] = 1 => \E S \in SUBSET Keys :
                           k \notin S /\ deps[k] \subseteq S /\ \A j \in S : built'[j] = 1 /\ deps[j] \subseteq S
    BY <1>1 DEF BuiltInv, IsBuilt
  <2>1. CASE k # top
    <3>1. built'[k] = built[k]
      BY <1>3, <2>1
    <3>2. Keys \subseteq BindingKeys
      BY DEF BindingKeys
    <3>3. built[k] \in {0, 1} /\ (IsBuilt(k) => \E S \in SUBSET Keys :
                           k \notin S /\ deps[k] \subseteq S /\ \A j \in S : IsBuilt(j) /\ deps[j] \subseteq S)
      BY DEF AsmInv, BuiltInv
    <3>4. ASSUME NEW S \in SUBSET Keys, NEW j \in S, IsBuilt(j) PROVE built'[j] = 1
      BY <1>7, <3>2, <3>4
    <3> QED
      BY <3>1, <3>3, <3>4 DEF IsBuilt
  <2>2. CASE k = top
    <3> DEFINE S == {j \in Keys : IsBuilt(j)}
    <3>1. k \notin S /\ deps[k] \subseteq S
      BY <1>0, <1>4, <2>2 DEF AsmInv, AsmTypeOK
    <3>2. ASSUME NEW j \in S PROVE built'[j] = 1 /\ deps[j] \subseteq S
      <4>1. j \in BindingKeys /\ IsBuilt(j)
        BY DEF BindingKeys
      <4>2. PICK T \in SUBSET Keys : deps[j] \subseteq T /\ \A i \in T : IsBuilt(i)
        BY <4>1 DEF AsmInv, BuiltInv
      <4> QED
        BY <1>7, <4>1, <4>2
    <3>3. S \in SUBSET Keys
      OBVIOUS
    <3> HIDE DEF S
    <3> QED
      BY <1>3, <2>2, <3>1, <3>2, <3>3
  <2> QED
    BY <2>1, <2>2
<1>9. PhaseInv'
  <2>1. \A k \in local \cup contrib : k \in BindingKeys
    BY DEF AsmInv, AsmTypeOK, BindingKeys
  <2>2. \A k \in local \cup contrib : built[k] > 0 => built'[k] > 0
    BY <1>0, <1>3, <2>1
  <2> QED
    BY <1>0, <1>1, <2>2 DEF AsmInv, PhaseInv, AssembledPhases, Callbacks
<1> QED
  BY <1>5, <1>6, <1>8, <1>9 DEF AsmInv

(* The error of the top constructor goes to the one below, or to what       *)
(* resolves: the assembly fails, or the callback goes on.                   *)
LEMMA AsmFails == ASSUME AsmInv, ConstructorFails PROVE AsmInv'
<1> DEFINE n == Len(stack)
           top == Last(stack)
           err == IF top.err = "none" THEN "constructor" ELSE top.err
<1>0. /\ n \in Nat \ {0} /\ DOMAIN stack = 1..n /\ top = stack[n]
      /\ \A i \in 1..n : stack[i] \in AsmFrame
      /\ top \in AsmFrame /\ top.key \in BindingKeys /\ stack # <<>>
      /\ asm.phase \in {"resolve"} \cup Callbacks /\ asm.failure = "none" /\ asm \in AsmState
  BY StackFacts DEF ConstructorFails, AsmInv, AsmTypeOK
<1>n. n \in Nat \ {0} /\ n \in 1..n
  BY <1>0
<1>1. ReturnError(err, top.at) /\ UNCHANGED <<local, remote, contrib, built, deps>>
  BY DEF ConstructorFails, graph
<1>2. /\ err \in {"missing", "cycle", "early", "constructor"} /\ top.at \in BindingKeys \cup {0}
      /\ err = "missing" => top.at \notin local \cup remote
      /\ err = "cycle" => \E k \in BindingKeys : k = top.at /\ k \in Reaches(k)
  BY <1>0, <1>n DEF AsmInv, StackInv, KnowsWhy, AsmFrame
<1>3. \A k : Reaches(k)' = Reaches(k)
  BY <1>1 DEF Reaches
<1>4. BuiltInv'
  BY <1>1 DEF AsmInv, BuiltInv, IsBuilt
<1>5. /\ asm' \in AsmState
      /\ asm' = asm \/ (n = 1 /\ asm'.phase = "failed" /\ asm'.failure = err /\ asm'.at = top.at)
  <2> HIDE DEF err, top, n
  <2>1. CASE asm' = [asm EXCEPT !.phase = "failed", !.failure = err, !.at = top.at] /\ n = 1
    BY ZenonT(60), <1>0, <1>2, <2>1 DEF AsmState, AsmPhases, AsmFailures
  <2> QED
    BY <1>0, <1>1, <2>1 DEF ReturnError, n
<1> HIDE DEF err
<1>6. StackInv' /\ stack' \in Seq(AsmFrame)
  <2>1. CASE n = 1
    <3>1. stack' = <<>> /\ Len(stack') = 0
      BY <1>1, <2>1 DEF ReturnError
    <3> QED
      BY <3>1 DEF StackInv, UniqueKeys, NoneBuilt, EachWaits, HasResolved, KnowsWhy
  <2>2. CASE n # 1
    <3>1. n - 1 \in 1..n - 1 /\ n - 1 \in 1..n /\ \A i \in 1..n - 2 : i \in 1..n - 1 /\ i # n - 1
      <4> HIDE DEF n
      <4> QED
        BY <1>n, <2>2
    <3>2. PICK front \in Seq(AsmFrame) : front = Front(stack)
      BY <1>0, FrontFacts
    <3>3. Len(front) = n - 1 /\ DOMAIN front = 1..n - 1 /\ \A i \in 1..n - 1 : front[i] = stack[i]
      <4>1. Len(front) = n - 1 /\ \A i \in 1..n - 1 : front[i] = stack[i]
        BY <1>0, <3>2, FrontFacts
      <4>2. DOMAIN front = 1..Len(front)
        OBVIOUS
      <4> QED
        BY <4>1, <4>2
    <3>4. PICK g : g = [stack[n - 1] EXCEPT !.err = err]
      OBVIOUS
    <3>5. PICK f : f = [g EXCEPT !.at = top.at]
      OBVIOUS
    <3>6. g \in AsmFrame /\ g.key = stack[n - 1].key /\ g.dep = stack[n - 1].dep /\ g.err = err
      BY <1>0, <1>2, <3>1, <3>4 DEF AsmFrame
    <3>7. f \in AsmFrame /\ f.key = stack[n - 1].key /\ f.dep = stack[n - 1].dep /\ f.err = err /\ f.at = top.at
      <4> HIDE DEF top
      <4> QED
        BY <1>2, <3>5, <3>6 DEF AsmFrame
    <3>8. stack' = [front EXCEPT ![n - 1] = f]
      <4>1. stack' = [front EXCEPT ![n - 1].err = err, ![n - 1].at = top.at]
        BY <1>1, <2>2, <3>2 DEF ReturnError
      <4>2. n - 1 \in DOMAIN front /\ front[n - 1] = stack[n - 1]
        BY <3>1, <3>3
      <4> HIDE DEF n, top
      <4>3. PICK other : other = [front EXCEPT ![n - 1].err = err]
        OBVIOUS
      <4>4. other = [front EXCEPT ![n - 1] = g]
        BY <4>2, <4>3, <3>4
      <4>5. stack' = [other EXCEPT ![n - 1].at = top.at]
        BY <4>1, <4>3
      <4>6. other[n - 1] = g
        BY <4>2, <4>4
      <4>7. stack' = [other EXCEPT ![n - 1] = f]
        BY <4>5, <4>6, <3>5
      <4> QED
        BY <4>4, <4>7
    <3>9. PICK rest \in Seq(AsmFrame) : rest = stack'
      <4>1. stack' \in Seq(AsmFrame)
        BY <3>1, <3>3, <3>7, <3>8, ExceptSeq
      <4> QED
        BY <4>1
    <3>10. Len(rest) = n - 1 /\ rest[n - 1] = f /\ \A i \in 1..n - 2 : rest[i] = stack[i]
      BY <3>1, <3>3, <3>7, <3>8, <3>9, ExceptSeq
    <3>11. asm'.phase \in {"resolve"} \cup Callbacks
      BY <1>0, <1>5, <2>2
    <3>12. err # "none"
      BY <1>2
    <3>13. /\ rest[n - 1].key = stack[n - 1].key /\ rest[n - 1].dep = stack[n - 1].dep
           /\ rest[n - 1].err # "none"
           /\ rest[n - 1].err = "missing" => rest[n - 1].at \notin local \cup remote
           /\ rest[n - 1].err = "cycle" => \E k \in BindingKeys : k = rest[n - 1].at /\ k \in Reaches(k)
      BY <1>2, <3>7, <3>10, <3>12
    <3>14. StackInv'
      BY <1>0, <1>1, <3>9, <3>10, <3>11, <3>13, TopIsPopped
    <3> QED
      BY <3>9, <3>14
  <2> QED
    BY <2>1, <2>2
<1>7. AsmTypeOK'
  BY <1>1, <1>5, <1>6 DEF AsmInv, AsmTypeOK
<1>8. PhaseInv'
  <2>1. CASE asm' = asm
    BY <1>1, <1>3, <2>1 DEF AsmInv, PhaseInv
  <2>2. CASE asm'.phase = "failed" /\ asm'.failure = err /\ asm'.at = top.at
    <3>1. asm'.failure = "missing" => asm'.at \notin local' \cup remote'
      BY <1>1, <1>2, <2>2
    <3>2. (asm.failure = "cycle" => asm.at \in Reaches(asm.at))'
      BY <1>2, <1>1, <2>2 DEF Reaches
    <3> QED
      BY <2>2, <3>1, <3>2 DEF PhaseInv, AssembledPhases
  <2> QED
    BY <1>5, <2>1, <2>2
<1> QED
  BY <1>4, <1>6, <1>7, <1>8 DEF AsmInv

(* The constructor on top goes on without what failed, or asks for the      *)
(* contributions too early.                                                 *)
LEMMA AsmTop == ASSUME AsmInv, ConstructorIgnores \/ ConstructorCollects PROVE AsmInv'
<1> DEFINE n == Len(stack)
           top == Last(stack)
<1>0. /\ n \in Nat \ {0} /\ DOMAIN stack = 1..n /\ top = stack[n]
      /\ top \in AsmFrame /\ top.key \in BindingKeys /\ stack # <<>>
  BY StackFacts DEF ConstructorIgnores, ConstructorCollects
<1>n. n \in 1..n /\ ~(n + 1 \in 1..n)
  BY <1>0
<1>1. \A j \in deps[top.key] : IsBuilt(j) \/ (j = top.dep /\ top.err # "none")
  BY <1>0, <1>n DEF AsmInv, StackInv, HasResolved
<1>2. UNCHANGED <<asm, graph, built>>
  BY DEF ConstructorIgnores, ConstructorCollects
<1> HIDE DEF n, top
<1>3. CASE ConstructorIgnores
  <2>1. PICK f : f = [top EXCEPT !.err = "none"]
    OBVIOUS
  <2>2. f \in AsmFrame /\ f.key = top.key /\ f.err = "none"
    BY <1>0, <2>1 DEF AsmFrame
  <2>3. stack' = [stack EXCEPT ![n] = f] /\ deps' = [deps EXCEPT ![top.key] = @ \ {top.dep}]
    BY <1>0, <1>n, <1>3, <2>1 DEF ConstructorIgnores, n, top
  <2>4. /\ deps' \in [BindingKeys -> SUBSET Keys] /\ \A j \in BindingKeys \ {top.key} : deps'[j] = deps[j]
        /\ deps'[top.key] = deps[top.key] \ {top.dep}
    BY <1>0, <2>3 DEF AsmInv, AsmTypeOK
  <2>5. \A j \in deps'[top.key] : IsBuilt(j)
    BY <1>1, <2>4
  <2> QED
    BY <1>0, <1>2, <2>2, <2>3, <2>4, <2>5, TopGoesOn DEF n, top
<1>4. CASE ConstructorCollects
  <2>0. PICK g : g = [top EXCEPT !.err = "early"]
    OBVIOUS
  <2>1. PICK f : f = [g EXCEPT !.dep = 0]
    OBVIOUS
  <2>2. g \in AsmFrame /\ g.key = top.key /\ g.err = "early"
    BY <1>0, <2>0 DEF AsmFrame
  <2>3. f \in AsmFrame /\ f.key = top.key /\ f.err = "early"
    BY <2>1, <2>2 DEF AsmFrame
  <2>4. stack' = [stack EXCEPT ![n] = f] /\ deps' = deps /\ top.err = "none"
    <3>1. stack' = [stack EXCEPT ![n].err = "early", ![n].dep = 0]
      BY <1>4 DEF ConstructorCollects, n
    <3>2. PICK other : other = [stack EXCEPT ![n].err = "early"]
      OBVIOUS
    <3>3. other = [stack EXCEPT ![n] = g]
      BY <1>0, <1>n, <2>0, <3>2
    <3>4. stack' = [other EXCEPT ![n].dep = 0] /\ other[n] = g
      BY <1>0, <1>n, <3>1, <3>2, <3>3
    <3>5. stack' = [other EXCEPT ![n] = f]
      BY <2>1, <3>4
    <3> QED
      BY <1>4, <3>3, <3>5 DEF ConstructorCollects, top
  <2>5. \A j \in deps[top.key] : IsBuilt(j)
    BY <1>1, <2>4
  <2>6. deps' \in [BindingKeys -> SUBSET Keys]
    BY <2>4 DEF AsmInv, AsmTypeOK
  <2> QED
    BY <1>0, <1>2, <2>3, <2>4, <2>5, <2>6, TopGoesOn DEF n, top
<1> QED
  BY <1>3, <1>4

(* The constructor on top resolves a key. *)
LEMMA AsmResolves ==
  ASSUME AsmInv, NEW k \in Keys, ConstructorResolves(k)
  PROVE  AsmInv'
<1> DEFINE n == Len(stack)
           top == Last(stack)
<1>0. /\ n \in Nat \ {0} /\ DOMAIN stack = 1..n /\ top = stack[n] /\ stack \in Seq(AsmFrame)
      /\ \A i \in 1..n : stack[i] \in AsmFrame
      /\ top \in AsmFrame /\ top.key \in BindingKeys /\ stack # <<>> /\ built[top.key] = 0
      /\ asm.phase \in {"resolve"} \cup Callbacks
  BY StackFacts DEF ConstructorResolves, AsmInv, AsmTypeOK
<1>n. n \in Nat \ {0} /\ n \in 1..n /\ ~(n + 1 \in 1..n)
  BY <1>0
<1>1. top.err = "none" /\ UNCHANGED <<asm, graph, built>> /\ k \in BindingKeys
  BY DEF ConstructorResolves, BindingKeys
<1>2. \A j \in deps[top.key] : IsBuilt(j)
  BY <1>0, <1>n, <1>1 DEF AsmInv, StackInv, HasResolved
<1>3. /\ Lookup(k) \in {"missing", "value", "cycle", "construct"}
      /\ Lookup(k) = "missing" => k \notin local \cup remote
      /\ Lookup(k) = "value" => IsBuilt(k)
      /\ Lookup(k) = "cycle" => k \in Inflight
      /\ Lookup(k) = "construct" => ~IsBuilt(k) /\ built[k] = 0 /\ k \notin Inflight
  BY LookupFacts
<1>a. deps' = [(IF Lookup(k) = "construct" THEN Restarted(k) ELSE deps) EXCEPT ![top.key] = @ \cup {k}]
  BY DEF ConstructorResolves
<1> DEFINE waiting == [stack EXCEPT ![n].dep = k]
<1>b. stack' = CASE Lookup(k) = "value" -> stack
                 [] Lookup(k) = "construct" -> Append(waiting, Frame(k))
                 [] OTHER -> [waiting EXCEPT ![n].err = Lookup(k), ![n].at = k]
  BY DEF ConstructorResolves
<1>c. PICK g : g = [top EXCEPT !.dep = k]
  OBVIOUS
<1> HIDE DEF top
<1>d. g \in AsmFrame /\ g.key = top.key /\ g.dep = k /\ g.err = "none"
  BY <1>0, <1>1, <1>c DEF AsmFrame
<1>e. waiting = [stack EXCEPT ![n] = g] /\ waiting \in Seq(AsmFrame) /\ Len(waiting) = n /\ waiting[n] = g
      /\ \A i \in 1..n : i # n => waiting[i] = stack[i]
  <2>1. waiting = [stack EXCEPT ![n] = g]
    BY <1>0, <1>n, <1>c
  <2>2. [stack EXCEPT ![n] = g] \in Seq(AsmFrame) /\ Len([stack EXCEPT ![n] = g]) = n
    BY <1>0, <1>n, <1>d, ExceptSeq
  <2>3. [stack EXCEPT ![n] = g][n] = g /\ \A i \in 1..n : i # n => [stack EXCEPT ![n] = g][i] = stack[i]
    BY <1>0, <1>n
  <2> QED
    BY <2>1, <2>2, <2>3
<1> HIDE DEF n, waiting
<1>4. CASE Lookup(k) # "construct"
  <2>1. deps' = [deps EXCEPT ![top.key] = @ \cup {k}]
    BY <1>a, <1>4
  <2>2. /\ deps' \in [BindingKeys -> SUBSET Keys] /\ \A j \in BindingKeys \ {top.key} : deps'[j] = deps[j]
        /\ deps'[top.key] = deps[top.key] \cup {k}
    BY <1>0, <2>1 DEF AsmInv, AsmTypeOK
  <2>3. CASE Lookup(k) = "value"
    <3>1. stack' = [stack EXCEPT ![n] = top]
      BY <1>0, <1>b, <2>3
    <3>2. \A j \in deps'[top.key] : IsBuilt(j)
      BY <1>2, <1>3, <2>2, <2>3
    <3> QED
      BY <1>0, <1>1, <2>2, <3>1, <3>2, TopGoesOn DEF n, top
  <2>4. CASE Lookup(k) \in {"missing", "cycle"}
    <3>1. PICK h : h = [g EXCEPT !.err = Lookup(k)]
      OBVIOUS
    <3>2. PICK f : f = [h EXCEPT !.at = k]
      OBVIOUS
    <3>3. h \in AsmFrame /\ h.key = top.key /\ h.dep = k /\ h.err = Lookup(k)
      BY <1>d, <2>4, <3>1 DEF AsmFrame
    <3>4. f \in AsmFrame /\ f.key = top.key /\ f.dep = k /\ f.err = Lookup(k) /\ f.at = k
      BY <1>1, <3>2, <3>3 DEF AsmFrame
    <3>5. stack' = [stack EXCEPT ![n] = f]
      <4>1. stack' = [waiting EXCEPT ![n].err = Lookup(k), ![n].at = k]
        BY <1>b, <2>4
      <4>2. PICK other : other = [waiting EXCEPT ![n].err = Lookup(k)]
        OBVIOUS
      <4>3. other = [waiting EXCEPT ![n] = h]
        BY <1>e, <4>2, <3>1
      <4>4. stack' = [other EXCEPT ![n].at = k]
        BY <4>1, <4>2
      <4>5. n \in DOMAIN waiting
        BY <1>n, <1>e
      <4>6. other[n] = h
        BY <4>3, <4>5
      <4>7. stack' = [other EXCEPT ![n] = f]
        BY <4>4, <4>6, <3>2
      <4> QED
        BY <1>e, <4>3, <4>7
    <3>6. \A j \in deps'[top.key] : IsBuilt(j) \/ (j = f.dep /\ f.err # "none")
      BY <1>2, <2>2, <2>4, <3>4
    <3>7. f.err = "cycle" => \E c \in BindingKeys : c = f.at /\ c \in Reaches(c)'
      <4> SUFFICES ASSUME Lookup(k) = "cycle" PROVE k \in Reaches(k)'
        BY <1>1, <3>4
      <4>1. PICK m \in 1..n : stack[m].key = k
        BY <1>3 DEF Inflight, n
      <4> SUFFICES ASSUME NEW S \in SUBSET Keys, deps'[k] \subseteq S, \A i \in S : deps'[i] \subseteq S
                   PROVE  k \in S
        BY DEF Reaches
      <4> DEFINE key == [i \in 1..n |-> stack[i].key]
      <4>2. \A i \in m..n - 1 : key[i + 1] \in deps'[key[i]]
        <5> SUFFICES ASSUME NEW i \in m..n - 1 PROVE stack[i + 1].key \in deps'[stack[i].key]
          BY <1>n
        <5>1. i \in 1..n /\ i + 1 \in 1..n /\ i # n
          BY <1>n
        <5>2. stack[i].dep = stack[i + 1].key /\ stack[i].dep \in deps[stack[i].key]
          BY <1>0, <5>1 DEF AsmInv, StackInv, EachWaits, n
        <5>3. stack[i].key # top.key /\ stack[i].key \in BindingKeys
          <6>1. stack[i].key # stack[n].key
            BY <1>n, <5>1, KeysUnderWay DEF n
          <6>2. stack[i] \in AsmFrame /\ stack[n] = top
            BY <1>0, <5>1
          <6> QED
            BY <6>1, <6>2 DEF AsmFrame
        <5> QED
          BY <2>2, <5>2, <5>3
      <4>3. m \in Nat /\ n \in Nat /\ m <= n
        BY <1>n
      <4>4. key[m] = k /\ key[n] = top.key
        BY <1>0, <1>n, <4>1
      <4>5. k \in deps'[key[n]]
        BY <2>2, <4>4
      <4> HIDE DEF key
      <4>6. PICK D : D = deps'
        OBVIOUS
      <4>7. /\ \A i \in m..n - 1 : key[i + 1] \in D[key[i]]
            /\ k \in D[key[n]] /\ D[k] \subseteq S /\ \A i \in S : D[i] \subseteq S
        BY <4>2, <4>5, <4>6
      <4> QED
        BY <4>3, <4>4, <4>7, CycleIsReached
    <3> QED
      BY <1>0, <1>1, <1>3, <2>2, <3>4, <3>5, <3>6, <3>7, TopGoesOn DEF n, top
  <2> QED
    BY <1>3, <1>4, <2>3, <2>4
<1>5. CASE Lookup(k) = "construct"
  <2>1. stack' = Append(waiting, Frame(k))
    BY <1>b, <1>5
  <2>2. PICK rest \in Seq(AsmFrame) : rest = waiting
    BY <1>e
  <2>3. \A i \in 1..n : rest[i].key = stack[i].key /\ rest[i].err = "none"
    <3> SUFFICES ASSUME NEW i \in 1..n PROVE waiting[i].key = stack[i].key /\ waiting[i].err = "none"
      BY <2>2
    <3>1. CASE i = n
      BY <1>0, <1>d, <1>e, <3>1
    <3>2. CASE i # n
      <4>1. i + 1 \in 1..n
        BY <1>n, <3>2
      <4>2. stack[i].err = "none"
        BY <1>0, <4>1 DEF AsmInv, StackInv, EachWaits, n
      <4> QED
        BY <1>e, <3>2, <4>2
    <3> QED
      BY <3>1, <3>2
  <2>4. \A i \in 1..n - 1 : rest[i] = stack[i]
    BY <1>n, <1>e, <2>2
  <2>5. deps' = [(IF n = 0 THEN Restarted(k) ELSE [Restarted(k) EXCEPT ![stack[n].key] = @ \cup {k}])
                    EXCEPT ![k] = {}]
    <3>1. k # top.key
      BY <1>0, <1>3, <1>5, <1>n DEF Inflight, n
    <3>2. deps' = [Restarted(k) EXCEPT ![top.key] = @ \cup {k}]
      BY <1>a, <1>5
    <3>3. Restarted(k) \in [BindingKeys -> SUBSET Keys] /\ Restarted(k)[k] = {}
      BY <1>1 DEF AsmInv, AsmTypeOK, Restarted
    <3>4. deps' = [deps' EXCEPT ![k] = {}]
      BY <3>1, <3>2, <3>3, <1>1
    <3> QED
      BY <1>0, <1>n, <3>2, <3>4
  <2> QED
    BY <1>0, <1>1, <1>3, <1>5, <1>d, <1>e, <2>1, <2>2, <2>3, <2>4, <2>5, ConstructorBegins DEF n, top
<1> QED
  BY <1>4, <1>5

(* A constructor that no other waits for begins. *)
LEMMA FirstBegins ==
  ASSUME AsmInv, UNCHANGED <<asm, graph, built>>, asm.phase \in {"resolve"} \cup Callbacks,
         NEW k \in BindingKeys, built[k] = 0, stack = <<>>, stack' = <<Frame(k)>>, deps' = Restarted(k)
  PROVE  AsmInv'
<1>1. k \notin Inflight
  BY DEF Inflight
<1>2. stack \in Seq(AsmFrame) /\ stack' = Append(stack, Frame(k)) /\ Len(stack) = 0
  BY DEF AsmInv, AsmTypeOK
<1>3. /\ \A i \in 1..Len(stack) : stack[i].key = stack[i].key /\ stack[i].err = "none"
      /\ \A i \in 1..Len(stack) - 1 : stack[i] = stack[i]
  BY <1>2
<1>4. deps' = [(IF Len(stack) = 0 THEN Restarted(k) ELSE [Restarted(k) EXCEPT ![stack[Len(stack)].key] = @ \cup {k}])
                 EXCEPT ![k] = {}]
  <2>1. Restarted(k) = [Restarted(k) EXCEPT ![k] = {}]
    BY DEF Restarted, AsmInv, AsmTypeOK
  <2> QED
    BY <1>2, <2>1
<1> QED
  BY <1>1, <1>2, <1>3, <1>4, ConstructorBegins

(* What resolves constructs the first binding that is missing, or the one   *)
(* that a callback asks for.                                                *)
LEMMA AsmResolveNext == ASSUME AsmInv, ResolveNext PROVE AsmInv'
<1> DEFINE pending == IF Unresolved # {} THEN Unresolved ELSE Uncontributed
           k == CHOOSE k \in pending : \A j \in pending : k <= j
<1>1. pending \subseteq BindingKeys /\ pending # {} /\ (\A j \in pending : built[j] = 0) /\ pending \subseteq Nat
  BY AssemblyAssumption DEF ResolveNext, Unresolved, Uncontributed, AsmInv, AsmTypeOK, BindingKeys
<1>2. /\ stack = <<>> /\ stack' = <<Frame(k)>> /\ deps' = Restarted(k) /\ UNCHANGED <<asm, graph, built>>
      /\ asm.phase = "resolve"
  BY DEF ResolveNext
<1> HIDE DEF pending
<1>3. k \in pending
  BY <1>1, LeastNatural
<1> HIDE DEF k
<1>4. k \in BindingKeys /\ built[k] = 0
  BY <1>1, <1>3
<1> QED
  BY <1>2, <1>4, FirstBegins

LEMMA AsmSetupResolves ==
  ASSUME AsmInv, NEW k \in Keys, SetupResolves(k)
  PROVE  AsmInv'
<1>1. /\ stack = <<>> /\ asm.phase \in Callbacks /\ UNCHANGED <<graph, built>> /\ k \in BindingKeys
      /\ asm \in AsmState /\ asm.failure = "none"
  BY DEF SetupResolves, AsmInv, AsmTypeOK, PhaseInv, Callbacks, BindingKeys
<1>2. /\ Lookup(k) \in {"missing", "value", "cycle", "construct"}
      /\ Lookup(k) = "missing" => k \notin local \cup remote
      /\ Lookup(k) = "value" => IsBuilt(k)
      /\ Lookup(k) = "cycle" => k \in Inflight
      /\ Lookup(k) = "construct" => ~IsBuilt(k) /\ built[k] = 0 /\ k \notin Inflight
  BY LookupFacts
<1>3. Lookup(k) # "cycle"
  BY <1>1, <1>2 DEF Inflight
<1>4. CASE Lookup(k) = "value"
  <2>1. UNCHANGED <<asm, graph, resolution>>
    BY <1>1, <1>4 DEF SetupResolves, resolution
  <2>2. \A j : Reaches(j)' = Reaches(j)
    BY <2>1 DEF Reaches, resolution
  <2>3. PhaseInv'
    BY <2>1 DEF AsmInv, PhaseInv, graph, resolution, Reaches
  <2>4. asm' \in AsmState
    BY <1>1, <2>1
  <2> QED
    BY <1>1, <2>1, <2>3, <2>4, AsmAlone
<1>5. CASE Lookup(k) = "missing"
  <2>1. asm' = [asm EXCEPT !.phase = "failed", !.failure = "missing", !.at = k] /\ UNCHANGED <<graph, resolution>>
    BY <1>1, <1>5 DEF SetupResolves, resolution
  <2>2. asm' \in AsmState /\ asm'.phase = "failed" /\ asm'.failure = "missing" /\ asm'.at = k
    BY <1>1, <2>1 DEF AsmState, AsmPhases, AsmFailures
  <2>3. PhaseInv'
    BY <1>2, <1>5, <2>1, <2>2 DEF PhaseInv, AssembledPhases, graph
  <2> QED
    BY <1>1, <2>1, <2>2, <2>3, AsmAlone
<1>6. CASE Lookup(k) = "construct"
  <2>1. stack' = <<Frame(k)>> /\ asm' = asm /\ deps' = Restarted(k)
    BY <1>6 DEF SetupResolves
  <2> QED
    BY <1>1, <1>2, <1>6, <2>1, FirstBegins
<1> QED
  BY <1>2, <1>3, <1>4, <1>5, <1>6

(* Every step keeps the invariant. *)
LEMMA AsmStep == AsmInv /\ [AssemblyNext]_asmVars => AsmInv'
<1> SUFFICES ASSUME AsmInv, [AssemblyNext]_asmVars PROVE AsmInv'
  OBVIOUS
<1>1. CASE AssemblyNext
  <2>1. CASE \E k \in Keys : ConstructorResolves(k)
    BY <2>1, AsmResolves
  <2>2. CASE \E k \in Keys : SetupResolves(k)
    BY <2>2, AsmSetupResolves
  <2>3. CASE \/ EnabledModules \/ (\E keys \in SUBSET Keys : ApplyRemotes(keys))
             \/ (\E keys \in SUBSET Keys, cs \in SUBSET Contributions : Register(keys, cs, {}, FALSE))
             \/ (\E codes \in SUBSET Codes, mig \in BOOLEAN : Register({}, {}, codes, mig))
    BY <2>3, AsmBeginning
  <2>4. CASE \/ RegisterFails \/ Registered \/ Resolved
             \/ (\E capability \in {"none", "disabled", "skip", "migrator"} : Migrate(capability))
    BY <2>4, AsmStages
  <2>5. CASE \/ (\E route \in RouteKinds : SetupDeclares({route}, {}, 0))
             \/ (\E code \in Codes : SetupDeclares({}, {code}, 0)) \/ SetupDeclares({}, {}, 1)
             \/ SetupFails \/ SetupsDone \/ ResolveManagedServices
    <3>1. (\E routes \in SUBSET RouteKinds, binds \in SUBSET Codes, consumers \in Nat :
                    SetupDeclares(routes, binds, consumers))
          \/ SetupFails \/ SetupsDone \/ ResolveManagedServices
      <4>1. \A route \in RouteKinds : {route} \in SUBSET RouteKinds
        OBVIOUS
      <4>2. \A code \in Codes : {code} \in SUBSET Codes
        OBVIOUS
      <4>3. {} \in SUBSET Codes /\ {} \in SUBSET RouteKinds /\ 0 \in Nat /\ 1 \in Nat
        OBVIOUS
      <4> QED
        BY <2>5, <4>1, <4>2, <4>3, Zenon
    <3> QED
      BY <3>1, AsmSetups
  <2>6. CASE \/ (\E mode \in SecurityModes \cup {"headless"}, pprof \in BOOLEAN : Validate(mode, pprof))
             \/ (\E hasBus \in BOOLEAN : Subscribe(hasBus)) \/ BuildMux
    BY <2>6, AsmChecks
  <2>7. CASE ConstructorIgnores \/ ConstructorCollects \/ ConstructorFails \/ ConstructorReturns \/ ResolveNext
    BY <2>7, AsmTop, AsmFails, AsmReturns, AsmResolveNext
  <2> QED
    BY <1>1, <2>1, <2>2, <2>3, <2>4, <2>5, <2>6, <2>7 DEF AssemblyNext
<1>2. CASE UNCHANGED asmVars
  <2>1. UNCHANGED <<asm, graph, resolution>>
    BY <1>2 DEF asmVars, graph, resolution
  <2>2. PhaseInv'
    BY <2>1 DEF AsmInv, PhaseInv, graph, resolution, Reaches
  <2>3. asm' \in AsmState
    BY <2>1 DEF AsmInv, AsmTypeOK
  <2> QED
    BY <2>1, <2>2, <2>3, AsmAlone
<1> QED
  BY <1>1, <1>2

(* The invariant gives the property: a set of keys that is closed under     *)
(* dependencies and does not hold k shows that no dependency reaches k.     *)
LEMMA AsmInvIsSound == AsmInv => AssemblyIsSound
<1> SUFFICES ASSUME AsmInv PROVE AssemblyIsSound
  OBVIOUS
<1>1. \A k \in BindingKeys : built[k] \in {0, 1}
  BY DEF AsmInv, BuiltInv
<1>2. ASSUME NEW k \in BindingKeys, built[k] = 1, NEW j \in deps[k]
      PROVE  built[j] = 1 /\ k \notin Reaches(j)
  <2>1. PICK S \in SUBSET Keys :
          k \notin S /\ deps[k] \subseteq S /\ \A i \in S : IsBuilt(i) /\ deps[i] \subseteq S
    BY <1>2 DEF AsmInv, BuiltInv, IsBuilt
  <2>2. built[j] = 1 /\ deps[j] \subseteq S
    BY <2>1 DEF IsBuilt
  <2> QED
    BY <2>1, <2>2 DEF Reaches
<1>3. asm.phase = "starting" => \A k \in local \cup contrib : built[k] = 1
  <2> SUFFICES ASSUME asm.phase = "starting", NEW k \in local \cup contrib PROVE built[k] = 1
    OBVIOUS
  <2>1. built[k] > 0 /\ k \in BindingKeys
    BY DEF AsmInv, PhaseInv, AssembledPhases, AsmTypeOK, BindingKeys
  <2> QED
    BY <1>1, <2>1
<1>4. \A k \in BindingKeys : built[k] <= 1
  BY <1>1
<1>5. asm.phase = "starting" =>
        /\ asm.migrations => asm.migrated \in {"applied", "skipped"}
        /\ asm.mode = "headless" => asm.routes = {}
        /\ asm.mode \in {"user_facing", "internal_service", "mixed"} => "unclassified" \notin asm.routes
        /\ asm.binds \subseteq asm.codes /\ asm.subscribed = asm.consumers
  BY DEF AsmInv, PhaseInv, AssembledPhases
<1>6. (asm.failure = "missing" => asm.at \notin local \cup remote) /\ (asm.failure = "cycle" => asm.at \in Reaches(asm.at))
  BY DEF AsmInv, PhaseInv
<1> QED
  BY <1>2, <1>3, <1>4, <1>5, <1>6 DEF AssemblyIsSound, BindingKeys

(* Whatever the modules declare and their constructors resolve, what starts *)
(* is assembled, and what is refused deserved it.                           *)
THEOREM AssembledIsSound == AssemblySpec => []AssemblyIsSound
<1>1. AssemblySpec => []AsmInv
  BY AsmInit, AsmStep, PTL DEF AssemblySpec
<1> QED
  BY <1>1, AsmInvIsSound, PTL

-----------------------------------------------------------------------------
(* The rate limits of a connection. *)

SenderState ==
  [at : {"idle", "loop", "lock", "sleep"}, bucket : Names, payload : 0..ByteBurst, read : 0..MaxClock,
   wake : Nat, slept : BOOLEAN]

BucketTypeOK ==
  /\ clock \in 0..MaxClock
  /\ buckets \in [Names -> [tokens : Nat, last : 0..MaxClock]]
  /\ senders \in [Senders -> SenderState]
  /\ granted \in [Names -> [0..MaxClock -> Nat]]
  /\ stolen \in [Senders -> BOOLEAN]

Before(b, t) == IF t = 0 THEN 0 ELSE granted[b][t - 1]

(* A bucket owes nothing: what it holds and what it granted since any time  *)
(* fits a burst and the rate from then on.                                  *)
BudgetInv(b) ==
  /\ buckets[b].tokens <= Burst[b] /\ buckets[b].last <= clock
  /\ \A t \in 0..MaxClock : t >= buckets[b].last => granted[b][t] = granted[b][buckets[b].last]
  /\ \A t1 \in 0..MaxClock : t1 <= buckets[b].last =>
       buckets[b].tokens + granted[b][buckets[b].last] - Before(b, t1) <= Burst[b] + Rate[b] * (buckets[b].last - t1)
  /\ \A t1, t2 \in 0..MaxClock : t1 <= t2 =>
       granted[b][t2] - Before(b, t1) <= Burst[b] + Rate[b] * (t2 - t1)

(* When a sender that slept wakes, the bucket has what it needs, unless     *)
(* another took it; and it reads the clock after it woke.                   *)
Enough(s) ==
  LET b == senders[s].bucket IN
  /\ buckets[b].last < senders[s].wake =>
       buckets[b].tokens + Rate[b] * (senders[s].wake - buckets[b].last) >= Count(s)
  /\ buckets[b].last >= senders[s].wake => buckets[b].tokens >= Count(s)

SenderInv(s) ==
  /\ senders[s].read <= clock
  /\ senders[s].slept =>
       /\ senders[s].at \in {"loop", "lock"} => senders[s].wake <= clock
       /\ senders[s].at = "lock" => senders[s].wake <= senders[s].read
       /\ ~stolen[s] => Enough(s)

BucketInv ==
  /\ BucketTypeOK
  /\ \A b \in Names : BudgetInv(b)
  /\ \A s \in Senders : SenderInv(s)

(* Arithmetic of a rate. *)
LEMMA RateFacts ==
  ASSUME NEW r \in Nat, NEW x \in Int, NEW y \in Int
  PROVE  /\ r * x \in Int /\ (0 <= x => 0 <= r * x)
         /\ r * (x + y) = r * x + r * y
         /\ r * (x - y) = r * x - r * y
         /\ (x <= y => r * x <= r * y)
OBVIOUS

LEMMA DelayIsEnough ==
  ASSUME NEW r \in Nat \ {0}, NEW m \in Nat \ {0}
  PROVE  (m + r - 1) \div r \in Nat \ {0} /\ r * ((m + r - 1) \div r) >= m
<1>1. PICK a \in Nat : a = m + r - 1
  OBVIOUS
<1>2. a = r * (a \div r) + (a % r) /\ a % r \in 0..r - 1 /\ a \div r \in Int
  OBVIOUS
<1>3. r * (a \div r) >= m
  BY <1>1, <1>2
<1>4. a \div r > 0
  <2>1. CASE a \div r <= 0
    <3>1. r * (a \div r) <= r * 0
      BY <1>2, <2>1, RateFacts
    <3> QED
      BY <1>3, <3>1
  <2> QED
    BY <1>2, <2>1
<1> QED
  BY <1>1, <1>2, <1>3, <1>4

LEMMA MinOfTwo ==
  ASSUME NEW x \in Int, NEW y \in Int
  PROVE  /\ Min({x, y}) \in {x, y} /\ Min({x, y}) <= x /\ Min({x, y}) <= y
<1>1. CASE x <= y
  <2>1. x \in {x, y} /\ \A z \in {x, y} : x <= z
    BY <1>1
  <2> QED
    BY <2>1 DEF Min
<1>2. CASE y < x
  <2>1. y \in {x, y} /\ \A z \in {x, y} : y <= z
    BY <1>2
  <2> QED
    BY <2>1 DEF Min
<1> QED
  BY <1>1, <1>2

LEMMA RateTypes ==
  /\ Rate \in [Names -> Nat \ {0}] /\ Burst \in [Names -> Nat \ {0}] /\ MaxClock \in Nat
  /\ FrameBurst \in Nat \ {0} /\ ByteBurst \in Nat \ {0}
BY TokenBucketAssumption DEF Rate, Burst, Names

(* What a sender asks for is at most a burst. *)
LEMMA CountFits ==
  ASSUME BucketTypeOK, NEW s \in Senders
  PROVE  Count(s) \in Nat /\ Count(s) <= Burst[senders[s].bucket]
<1>1. senders[s].bucket \in {"frames", "bytes"} /\ senders[s].payload \in 0..ByteBurst
  BY DEF BucketTypeOK, SenderState, Names
<1>2. Burst["frames"] = FrameBurst /\ Burst["bytes"] = ByteBurst
  BY DEF Burst
<1> QED
  BY <1>1, <1>2, RateTypes DEF Count

(* A bucket as of a clock. *)
LEMMA RefilledFacts ==
  ASSUME BucketTypeOK, NEW b \in Names, buckets[b].tokens <= Burst[b], NEW read \in 0..MaxClock
  PROVE  /\ Refilled(b, read) \in [tokens : Nat, last : 0..MaxClock]
         /\ Refilled(b, read).tokens <= Burst[b]
         /\ buckets[b].last <= Refilled(b, read).last /\ read <= Refilled(b, read).last
         /\ Refilled(b, read).last \in {buckets[b].last, read}
         /\ Refilled(b, read).tokens <= buckets[b].tokens + Rate[b] * (Refilled(b, read).last - buckets[b].last)
         /\ \/ Refilled(b, read).tokens = Burst[b]
            \/ Refilled(b, read).tokens = buckets[b].tokens + Rate[b] * (Refilled(b, read).last - buckets[b].last)
<1>1. /\ Rate[b] \in Nat /\ Burst[b] \in Nat /\ MaxClock \in Nat
      /\ buckets[b].tokens \in Nat /\ buckets[b].last \in 0..MaxClock
      /\ buckets[b] \in [tokens : Nat, last : 0..MaxClock]
  BY RateTypes DEF BucketTypeOK
<1>2. CASE read > buckets[b].last
  <2> DEFINE added == (read - buckets[b].last) * Rate[b]
             tokens == Min({Burst[b], buckets[b].tokens + added})
  <2>1. Refilled(b, read) = [tokens |-> tokens, last |-> read]
    BY <1>2 DEF Refilled
  <2>2. added \in Nat /\ added = Rate[b] * (read - buckets[b].last)
    <3>1. read - buckets[b].last \in Nat
      BY <1>1, <1>2
    <3>2. PICK x \in Nat : x = read - buckets[b].last
      BY <3>1
    <3>3. \A r \in Nat : x * r = r * x /\ r * x \in Nat
      BY <3>2, RateFacts
    <3> QED
      BY <1>1, <3>2, <3>3
  <2> HIDE DEF added
  <2>3. tokens \in {Burst[b], buckets[b].tokens + added} /\ tokens <= Burst[b] /\ tokens <= buckets[b].tokens + added
    <3>1. PICK full \in Int : full = Burst[b]
      BY <1>1
    <3>2. PICK more \in Int : more = buckets[b].tokens + added
      BY <1>1, <2>2
    <3>3. tokens = Min({full, more})
      BY <3>1, <3>2
    <3> HIDE DEF tokens
    <3>4. Min({full, more}) \in {full, more} /\ Min({full, more}) <= full /\ Min({full, more}) <= more
      BY MinOfTwo
    <3> QED
      BY <3>1, <3>2, <3>3, <3>4
  <2> HIDE DEF tokens
  <2>4. tokens \in Nat
    BY <1>1, <2>2, <2>3
  <2> QED
    BY <1>1, <1>2, <2>1, <2>2, <2>3, <2>4
<1>3. CASE ~(read > buckets[b].last)
  <2>1. Refilled(b, read) = buckets[b]
    BY <1>3 DEF Refilled
  <2>2. Rate[b] * (buckets[b].last - buckets[b].last) = 0
    BY <1>1
  <2> QED
    BY <1>1, <1>3, <2>1, <2>2
<1> QED
  BY <1>2, <1>3

(* The initial state satisfies the invariant. *)
LEMMA BucketInitInv == BucketInit => BucketInv
<1> SUFFICES ASSUME BucketInit PROVE BucketInv
  OBVIOUS
<1> USE DEF BucketInit
<1>1. BucketTypeOK
  <2>1. IdleSender \in SenderState
    BY RateTypes DEF IdleSender, SenderState, Names
  <2> QED
    BY <2>1, RateTypes DEF BucketTypeOK
<1>2. ASSUME NEW b \in Names PROVE BudgetInv(b)
  <2>1. /\ buckets[b].tokens = Burst[b] /\ buckets[b].last = 0 /\ Burst[b] \in Nat /\ Rate[b] \in Nat
        /\ \A t \in 0..MaxClock : granted[b][t] = 0
    BY RateTypes
  <2>2. \A t \in 0..MaxClock : Before(b, t) = 0
    <3> SUFFICES ASSUME NEW t \in 0..MaxClock, t # 0 PROVE granted[b][t - 1] = 0
      BY DEF Before
    <3>1. t - 1 \in 0..MaxClock
      BY RateTypes
    <3> QED
      BY <2>1, <3>1
  <2>3. \A t1, t2 \in 0..MaxClock : t1 <= t2 => 0 <= Rate[b] * (t2 - t1)
    BY <2>1, RateFacts
  <2>4. \A t1, t2 \in 0..MaxClock : t1 <= t2 => Rate[b] * (t2 - t1) \in Int
    BY <2>1, RateFacts
  <2>5. 0 \in 0..MaxClock /\ clock = 0
    BY RateTypes
  <2> QED
    BY <2>1, <2>2, <2>3, <2>4, <2>5 DEF BudgetInv
<1>3. ASSUME NEW s \in Senders PROVE SenderInv(s)
  BY DEF SenderInv, IdleSender
<1> QED
  BY <1>1, <1>2, <1>3 DEF BucketInv

(* A sender whose own state does not change keeps its invariant while time  *)
(* passes and others move.                                                  *)
LEMMA SenderRests ==
  ASSUME BucketInv, NEW s \in Senders, senders'[s] = senders[s], clock' >= clock, clock' \in Nat,
         senders[s].slept /\ ~stolen'[s] => Enough(s)'
  PROVE  SenderInv(s)'
<1>1. clock \in Nat /\ senders[s].wake \in Nat /\ senders[s].read \in Int /\ senders[s].slept \in BOOLEAN
  BY RateTypes DEF BucketInv, BucketTypeOK, SenderState
<1>2. SenderInv(s)
  BY DEF BucketInv
<1>3. senders'[s].read <= clock'
  BY <1>1, <1>2 DEF SenderInv
<1>4. senders'[s].slept =>
        /\ senders'[s].at \in {"loop", "lock"} => senders'[s].wake <= clock'
        /\ senders'[s].at = "lock" => senders'[s].wake <= senders'[s].read
        /\ ~stolen'[s] => Enough(s)'
  BY <1>1, <1>2 DEF SenderInv
<1> QED
  BY <1>3, <1>4 DEF SenderInv

(* ... and its own buckets have not changed. *)
LEMMA EnoughStays ==
  ASSUME BucketInv, NEW s \in Senders, senders'[s].bucket = senders[s].bucket, senders'[s].wake = senders[s].wake,
         senders'[s].payload = senders[s].payload, buckets'[senders[s].bucket] = buckets[senders[s].bucket], Enough(s)
  PROVE  Enough(s)'
BY DEF Enough, Count

(* Nothing but the senders and the clock changes. *)
LEMMA OnlySenders ==
  ASSUME BucketInv, UNCHANGED <<buckets, granted>>, clock' \in 0..MaxClock, clock <= clock'
  PROVE  \A b \in Names : BudgetInv(b)'
<1> SUFFICES ASSUME NEW b \in Names PROVE BudgetInv(b)'
  OBVIOUS
<1>1. buckets[b].last \in 0..MaxClock /\ clock \in 0..MaxClock /\ MaxClock \in Nat
  BY RateTypes DEF BucketInv, BucketTypeOK
<1>2. BudgetInv(b)
  BY DEF BucketInv
<1>3. buckets[b].last <= clock'
  BY <1>1, <1>2 DEF BudgetInv
<1>4. \A t : Before(b, t)' = Before(b, t)
  BY DEF Before
<1> QED
  BY <1>2, <1>3, <1>4 DEF BudgetInv

LEMMA TicksInv == BucketInv /\ ClockTicks => BucketInv'
<1> SUFFICES ASSUME BucketInv, ClockTicks PROVE BucketInv'
  OBVIOUS
<1>1. clock' \in 0..MaxClock /\ clock <= clock' /\ clock' \in Nat /\ UNCHANGED <<buckets, senders, granted, stolen>>
  BY RateTypes DEF ClockTicks, BucketInv, BucketTypeOK
<1>2. BucketTypeOK'
  BY <1>1 DEF BucketInv, BucketTypeOK
<1>3. ASSUME NEW s \in Senders PROVE SenderInv(s)'
  <2>1. senders[s].slept /\ ~stolen[s] => Enough(s)
    BY DEF BucketInv, SenderInv
  <2>2. Enough(s) => Enough(s)'
    BY <1>1, EnoughStays
  <2> QED
    BY <1>1, <2>1, <2>2, SenderRests
<1> QED
  BY <1>1, <1>2, <1>3, OnlySenders DEF BucketInv

(* A sender moves without touching a bucket. *)
LEMMA SenderMoves ==
  ASSUME BucketInv, NEW s \in Senders, UNCHANGED <<clock, buckets, granted, stolen>>,
         NEW r \in SenderState, senders' = [senders EXCEPT ![s] = r], r.read <= clock,
         \/ ~r.slept
         \/ /\ r.slept = senders[s].slept /\ r.bucket = senders[s].bucket /\ r.wake = senders[s].wake
            /\ r.payload = senders[s].payload
            /\ r.at \in {"loop", "lock"} => r.wake <= clock
            /\ r.at = "lock" => r.wake <= r.read
  PROVE  BucketInv'
<1>1. clock \in 0..MaxClock /\ clock \in Nat /\ MaxClock \in Nat
  BY RateTypes DEF BucketInv, BucketTypeOK
<1>2. senders' \in [Senders -> SenderState] /\ senders'[s] = r /\ \A q \in Senders : q # s => senders'[q] = senders[q]
  BY DEF BucketInv, BucketTypeOK
<1>3. BucketTypeOK'
  BY <1>2 DEF BucketInv, BucketTypeOK
<1>4. ASSUME NEW q \in Senders PROVE SenderInv(q)'
  <2>0. senders[q].slept /\ ~stolen[q] => Enough(q)
    BY DEF BucketInv, SenderInv
  <2>1. CASE q # s
    <3>1. senders'[q] = senders[q]
      BY <1>2, <2>1
    <3>2. Enough(q) => Enough(q)'
      BY <3>1, EnoughStays
    <3> QED
      BY <1>1, <2>0, <3>1, <3>2, SenderRests
  <2>2. CASE q = s /\ ~r.slept
    BY <1>2, <2>2 DEF SenderInv
  <2>3. CASE q = s /\ r.slept
    <3>1. senders[s].slept
      BY <2>3
    <3>2. ~stolen'[s] => Enough(s)'
      BY <1>2, <2>0, <2>3, <3>1, EnoughStays
    <3> QED
      BY <1>2, <2>3, <3>2 DEF SenderInv
  <2> QED
    BY <2>1, <2>2, <2>3
<1>5. \A b \in Names : BudgetInv(b)'
  BY <1>1, OnlySenders
<1> QED
  BY <1>3, <1>4, <1>5 DEF BucketInv

LEMMA SenderStepsInv ==
  ASSUME BucketInv, NEW s \in Senders,
         ReadClock(s) \/ Wake(s) \/ WaitEnds(s) \/ \E payload \in 0..ByteBurst : Send(s, payload)
  PROVE  BucketInv'
<1>1. senders[s] \in SenderState /\ clock \in 0..MaxClock /\ MaxClock \in Nat /\ clock \in Nat
  BY RateTypes DEF BucketInv, BucketTypeOK
<1>2. SenderInv(s)
  BY DEF BucketInv
<1>3. IdleSender \in SenderState /\ IdleSender.read = 0 /\ IdleSender.slept = FALSE /\ 0 <= clock
  BY <1>1, RateTypes DEF IdleSender, SenderState, Names
<1>4. CASE ReadClock(s)
  <2>1. PICK g : g = [senders[s] EXCEPT !.at = "lock"]
    OBVIOUS
  <2>2. PICK r : r = [g EXCEPT !.read = clock]
    OBVIOUS
  <2>3. /\ r \in SenderState /\ r.at = "lock" /\ r.read = clock /\ r.slept = senders[s].slept
        /\ r.bucket = senders[s].bucket /\ r.wake = senders[s].wake /\ r.payload = senders[s].payload
    BY <1>1, <2>1, <2>2 DEF SenderState
  <2>4. senders' = [senders EXCEPT ![s] = r] /\ UNCHANGED <<clock, buckets, granted, stolen>> /\ senders[s].at = "loop"
    BY <1>1, <1>4, <2>1, <2>2 DEF ReadClock, BucketInv, BucketTypeOK
  <2>5. r.slept => r.wake <= clock
    BY <1>2, <2>3, <2>4 DEF SenderInv
  <2>6. r.read <= clock /\ (r.slept => r.wake <= r.read)
    BY <1>1, <2>3, <2>5
  <2>7. CASE r.slept
    BY <2>3, <2>4, <2>5, <2>6, <2>7, SenderMoves
  <2>8. CASE ~r.slept
    BY <2>3, <2>4, <2>6, <2>8, SenderMoves
  <2> QED
    BY <2>7, <2>8
<1>5. CASE Wake(s)
  <2>1. PICK r : r = [senders[s] EXCEPT !.at = "loop"]
    OBVIOUS
  <2>2. /\ r \in SenderState /\ r.at = "loop" /\ r.read = senders[s].read /\ r.slept = senders[s].slept
        /\ r.bucket = senders[s].bucket /\ r.wake = senders[s].wake /\ r.payload = senders[s].payload
    BY <1>1, <2>1 DEF SenderState
  <2>3. senders' = [senders EXCEPT ![s] = r] /\ UNCHANGED <<clock, buckets, granted, stolen>>
    BY <1>1, <1>5, <2>1 DEF Wake, BucketInv, BucketTypeOK
  <2>4. r.read <= clock /\ r.wake <= clock
    BY <1>1, <1>2, <1>5, <2>2 DEF SenderInv, SenderState, Wake
  <2> QED
    BY <2>2, <2>3, <2>4, SenderMoves
<1>6. CASE WaitEnds(s)
  <2>1. senders' = [senders EXCEPT ![s] = IdleSender] /\ UNCHANGED <<clock, buckets, granted, stolen>>
    BY <1>6 DEF WaitEnds
  <2> HIDE DEF IdleSender
  <2> QED
    BY <1>3, <2>1, SenderMoves
<1>7. ASSUME NEW payload \in 0..ByteBurst, Send(s, payload) PROVE BucketInv'
  <2>1. PICK r : r = [IdleSender EXCEPT !.at = "loop", !.payload = payload]
    OBVIOUS
  <2>2. r \in SenderState /\ r.slept = FALSE /\ r.read = 0
    <3>1. r = [at |-> "loop", bucket |-> "frames", payload |-> payload, read |-> 0, wake |-> 0, slept |-> FALSE]
      BY <2>1 DEF IdleSender
    <3> QED
      BY <3>1, RateTypes DEF SenderState, Names
  <2>3. senders' = [senders EXCEPT ![s] = r] /\ UNCHANGED <<clock, buckets, granted, stolen>>
    BY <1>7, <2>1 DEF Send
  <2> QED
    BY <1>3, <2>2, <2>3, SenderMoves
<1> QED
  BY <1>4, <1>5, <1>6, <1>7

(* What a sender takes of a refilled bucket keeps its budget.  w is what    *)
(* the rate adds until each time, so that what remains is linear; g and p   *)
(* are what was granted until and before each time, h and q the same after  *)
(* the grant.                                                               *)
LEMMA TakeKeepsBudget ==
  ASSUME BucketInv, NEW b \in Names, NEW read \in 0..MaxClock, read <= clock, NEW c \in Nat,
         c <= Refilled(b, read).tokens, clock' = clock,
         buckets'[b].tokens = Refilled(b, read).tokens - c, buckets'[b].last = Refilled(b, read).last,
         \A t \in 0..MaxClock : granted'[b][t] = granted[b][t] + (IF t < Refilled(b, read).last THEN 0 ELSE c)
  PROVE  BudgetInv(b)'
<1>1. PICK M \in Nat : M = MaxClock
  BY RateTypes
<1>2. PICK r \in Nat : r = Rate[b]
  BY RateTypes
<1>3. PICK burst \in Nat : burst = Burst[b]
  BY RateTypes
<1>4. PICK last \in 0..M : last = buckets[b].last
  BY <1>1 DEF BucketInv, BucketTypeOK
<1>5. PICK tokens \in Nat : tokens = buckets[b].tokens
  BY DEF BucketInv, BucketTypeOK
<1>6. PICK g \in [0..M -> Nat] : g = granted[b]
  BY <1>1 DEF BucketInv, BucketTypeOK
<1>7. PICK total \in Nat : total = g[last]
  OBVIOUS
<1>w. PICK w : w = [t \in 0..M |-> r * t]
  OBVIOUS
<1>x. ASSUME NEW x \in 0..M, NEW y \in 0..M
      PROVE  w[x] \in Nat /\ r * (x - y) = w[x] - w[y] /\ (x <= y => w[x] <= w[y])
  <2>1. r * x \in Int /\ 0 <= r * x /\ r * (x - y) = r * x - r * y /\ (x <= y => r * x <= r * y)
    BY RateFacts
  <2>2. w[x] = r * x /\ w[y] = r * y
    BY <1>w
  <2> QED
    BY <2>1, <2>2
<1>y. w \in [0..M -> Nat]
  BY <1>w, <1>x
<1>8. /\ tokens <= burst /\ last <= clock /\ clock \in Nat
      /\ \A t \in 0..M : t >= last => g[t] = total
  <2>1. BudgetInv(b) /\ clock \in 0..MaxClock
    BY DEF BucketInv, BucketTypeOK
  <2>2. clock \in Nat
    BY <1>1, <2>1
  <2>3. tokens <= burst /\ last <= clock
    BY <1>3, <1>4, <1>5, <2>1 DEF BudgetInv
  <2>4. ASSUME NEW t \in 0..M, t >= last PROVE g[t] = total
    BY <1>1, <1>4, <1>6, <1>7, <2>1, <2>4 DEF BudgetInv
  <2> QED
    BY <2>2, <2>3, <2>4
<1>a. ASSUME NEW t1 \in 0..M, t1 <= last
      PROVE  tokens + total - Before(b, t1) <= burst + (w[last] - w[t1])
  <2>1. tokens + total - Before(b, t1) <= burst + r * (last - t1)
    BY <1>a, <1>1, <1>2, <1>3, <1>4, <1>5, <1>6, <1>7 DEF BucketInv, BudgetInv
  <2>2. r * (last - t1) = w[last] - w[t1]
    BY <1>x
  <2> QED
    BY <2>1, <2>2
<1>b. ASSUME NEW t1 \in 0..M, NEW t2 \in 0..M, t1 <= t2
      PROVE  g[t2] - Before(b, t1) <= burst + (w[t2] - w[t1])
  <2>1. g[t2] - Before(b, t1) <= burst + r * (t2 - t1)
    BY <1>b, <1>1, <1>2, <1>3, <1>6 DEF BucketInv, BudgetInv
  <2>2. r * (t2 - t1) = w[t2] - w[t1]
    BY <1>x
  <2> QED
    BY <2>1, <2>2
<1>9. /\ Refilled(b, read) \in [tokens : Nat, last : 0..M] /\ Refilled(b, read).tokens <= burst
      /\ last <= Refilled(b, read).last /\ Refilled(b, read).last \in {last, read}
      /\ Refilled(b, read).tokens <= tokens + r * (Refilled(b, read).last - last)
  BY <1>1, <1>2, <1>3, <1>4, <1>5, <1>8, RefilledFacts DEF BucketInv
<1>10. PICK new \in 0..M : new = Refilled(b, read).last
  BY <1>9
<1>11. PICK refilled \in Nat : refilled = Refilled(b, read).tokens
  BY <1>9
<1>12. last <= new /\ new <= clock /\ refilled <= burst /\ c <= refilled
  BY <1>8, <1>9, <1>10, <1>11
<1>c. refilled <= tokens + (w[new] - w[last])
  <2>1. r * (new - last) = w[new] - w[last]
    BY <1>x
  <2> QED
    BY <1>9, <1>10, <1>11, <2>1
<1>13. PICK p : p = [t \in 0..M |-> Before(b, t)]
  OBVIOUS
<1>14. \A t \in 0..M : p[t] = IF t = 0 THEN 0 ELSE g[t - 1]
  BY <1>6, <1>13 DEF Before
<1>15. p \in [0..M -> Nat] /\ \A t \in 0..M : t > last => p[t] = total
  <2>1. \A t \in 0..M : t # 0 => t - 1 \in 0..M /\ (t > last => t - 1 >= last)
    OBVIOUS
  <2>2. \A t \in 0..M : p[t] \in Nat
    BY <1>14, <2>1
  <2>3. ASSUME NEW t \in 0..M, t > last PROVE p[t] = total
    <3>1. t # 0 /\ t - 1 \in 0..M /\ t - 1 >= last
      BY <2>3
    <3>2. g[t - 1] = total
      BY <1>8, <3>1
    <3> QED
      BY <1>14, <3>1, <3>2
  <2> QED
    BY <1>13, <2>2, <2>3
<1>16. PICK h : h = granted'[b]
  OBVIOUS
<1>17. PICK q : q = [t \in 0..M |-> Before(b, t)']
  OBVIOUS
<1>18. (\A t \in 0..M : t < new => h[t] = g[t]) /\ (\A t \in 0..M : t >= new => h[t] = g[t] + c)
  <2> SUFFICES ASSUME NEW t \in 0..M PROVE (t < new => h[t] = g[t]) /\ (t >= new => h[t] = g[t] + c)
    OBVIOUS
  <2>1. h[t] = g[t] + (IF t < new THEN 0 ELSE c) /\ g[t] \in Nat
    BY <1>1, <1>6, <1>10, <1>16
  <2>2. PICK n \in Nat : n = g[t]
    BY <2>1
  <2>3. (t < new => h[t] = n) /\ (t >= new => h[t] = n + c)
    BY <2>1, <2>2
  <2> QED
    BY <2>2, <2>3
<1>19. \A t \in 0..M : q[t] = IF t = 0 THEN 0 ELSE h[t - 1]
  BY <1>16, <1>17 DEF Before
<1>20. (\A t \in 0..M : t <= new => q[t] = p[t]) /\ (\A t \in 0..M : t > new => q[t] = p[t] + c)
  <2> SUFFICES ASSUME NEW t \in 0..M PROVE (t <= new => q[t] = p[t]) /\ (t > new => q[t] = p[t] + c)
    OBVIOUS
  <2>1. CASE t = 0
    BY <1>14, <1>19, <2>1
  <2>2. CASE t # 0
    <3>1. t - 1 \in 0..M /\ (t - 1 < new <=> t <= new) /\ (t - 1 >= new <=> t > new)
      BY <2>2
    <3>2. q[t] = h[t - 1] /\ p[t] = g[t - 1]
      BY <1>14, <1>19, <2>2
    <3> QED
      BY <1>18, <3>1, <3>2
  <2> QED
    BY <2>1, <2>2
<1>21. /\ \A t1 \in 0..M : t1 <= last => tokens + total - p[t1] <= burst + (w[last] - w[t1])
       /\ \A t1, t2 \in 0..M : t1 <= t2 => g[t2] - p[t1] <= burst + (w[t2] - w[t1])
  BY <1>a, <1>b, <1>13
<1>m. \A x, y \in 0..M : x <= y => w[x] <= w[y]
  BY <1>x
<1>t. \A t \in 0..M : t >= last => g[t] = total
  BY <1>8
<1>l. last <= new /\ refilled <= burst /\ c <= refilled
  BY <1>12
<1>h. /\ M \in Nat /\ w \in [0..M -> Nat] /\ (\A x, y \in 0..M : x <= y => w[x] <= w[y])
      /\ burst \in Nat /\ last \in 0..M /\ new \in 0..M /\ last <= new
      /\ tokens \in Nat /\ refilled \in Nat /\ refilled <= burst /\ refilled <= tokens + (w[new] - w[last])
      /\ total \in Nat /\ c \in Nat /\ c <= refilled /\ g \in [0..M -> Nat] /\ p \in [0..M -> Nat]
      /\ (\A t \in 0..M : t >= last => g[t] = total) /\ (\A t \in 0..M : t > last => p[t] = total)
      /\ (\A t \in 0..M : t < new => h[t] = g[t]) /\ (\A t \in 0..M : t >= new => h[t] = g[t] + c)
      /\ (\A t \in 0..M : t <= new => q[t] = p[t]) /\ (\A t \in 0..M : t > new => q[t] = p[t] + c)
      /\ (\A t1 \in 0..M : t1 <= last => tokens + total - p[t1] <= burst + (w[last] - w[t1]))
      /\ (\A t1, t2 \in 0..M : t1 <= t2 => g[t2] - p[t1] <= burst + (w[t2] - w[t1]))
  BY <1>l, <1>t, <1>y, <1>m, <1>c, <1>15, <1>18, <1>20, <1>21
<1>22. /\ \A t \in 0..M : t >= new => h[t] = total + c
       /\ \A t1 \in 0..M : t1 <= new => (refilled - c) + (total + c) - q[t1] <= burst + (w[new] - w[t1])
       /\ \A t1, t2 \in 0..M : t1 <= t2 => h[t2] - q[t1] <= burst + (w[t2] - w[t1])
  <2> USE <1>h
  <2>1. ASSUME NEW t \in 0..M, t >= new PROVE h[t] = total + c
    <3>1. g[t] = total
      BY SMTT(60), <2>1
    <3> QED
      BY <2>1, <3>1
  <2>2. PICK wnew \in Nat : wnew = w[new]
    OBVIOUS
  <2>3. PICK wlast \in Nat : wlast = w[last]
    OBVIOUS
  <2>4. refilled <= tokens + (wnew - wlast)
    BY <2>2, <2>3
  <2>5. ASSUME NEW t1 \in 0..M, t1 <= new, NEW pt \in Nat, pt = p[t1], NEW wt \in Nat, wt = w[t1]
        PROVE  refilled + total - pt <= burst + (wnew - wt) /\ q[t1] = pt
    <3>1. wt <= wnew
      BY <2>2, <2>5
    <3>2. q[t1] = pt
      BY <2>5
    <3>3. CASE t1 <= last
      <4>1. tokens + total - pt <= burst + (wlast - wt)
        BY <2>3, <2>5, <3>3
      <4>2. refilled + total - pt <= burst + (wnew - wt)
        BY <2>4, <4>1
      <4> QED
        BY <3>2, <4>2
    <3>4. CASE t1 > last
      <4>1. pt = total
        BY <2>5, <3>4
      <4>2. refilled + total - pt <= burst + (wnew - wt)
        BY <3>1, <4>1
      <4> QED
        BY <3>2, <4>2
    <3> QED
      BY <3>3, <3>4
  <2>6. ASSUME NEW t1 \in 0..M, t1 <= new
        PROVE  (refilled - c) + (total + c) - q[t1] <= burst + (w[new] - w[t1])
    <3>1. PICK pt \in Nat : pt = p[t1]
      OBVIOUS
    <3>2. PICK wt \in Nat : wt = w[t1]
      OBVIOUS
    <3>3. refilled + total - pt <= burst + (wnew - wt) /\ q[t1] = pt
      BY <2>5, <2>6, <3>1, <3>2
    <3>4. (refilled - c) + (total + c) - pt <= burst + (wnew - wt)
      BY <3>3
    <3> QED
      BY <2>2, <3>2, <3>3, <3>4
  <2>7. ASSUME NEW t1 \in 0..M, NEW t2 \in 0..M, t1 <= t2
        PROVE  h[t2] - q[t1] <= burst + (w[t2] - w[t1])
    <3>1. PICK pt \in Nat : pt = p[t1]
      OBVIOUS
    <3>2. PICK wt \in Nat : wt = w[t1]
      OBVIOUS
    <3>3. PICK wu \in Nat : wu = w[t2]
      OBVIOUS
    <3>4. PICK gu \in Nat : gu = g[t2]
      OBVIOUS
    <3>5. wt <= wu
      BY <2>7, <3>2, <3>3
    <3>6. CASE t2 < new
      <4>1. h[t2] = gu
        BY <3>4, <3>6
      <4>2. q[t1] = pt
        <5>1. t1 <= new
          BY <2>7, <3>6
        <5> QED
          BY <3>1, <5>1
      <4>3. gu - pt <= burst + (wu - wt)
        BY <2>7, <3>1, <3>2, <3>3, <3>4
      <4> QED
        BY <3>2, <3>3, <4>1, <4>2, <4>3
    <3>7. CASE t2 >= new /\ t1 <= new
      <4>1. h[t2] = total + c
        BY <2>1, <3>7
      <4>2. refilled + total - pt <= burst + (wnew - wt) /\ q[t1] = pt
        BY <2>5, <3>1, <3>2, <3>7
      <4>3. wnew <= wu
        BY <2>2, <3>3, <3>7
      <4>4. (total + c) - pt <= burst + (wu - wt)
        BY <4>2, <4>3
      <4> QED
        BY <3>2, <3>3, <4>1, <4>2, <4>4
    <3>8. CASE t2 >= new /\ t1 > new
      <4>1. p[t1] = total /\ h[t2] = total + c
        <5>1. t1 > last
          BY <3>8
        <5> QED
          BY <2>1, <3>8, <5>1
      <4>2. q[t1] = total + c
        BY <3>8, <4>1
      <4>3. 0 <= burst + (wu - wt)
        <5> HIDE <1>h
        <5> QED
          BY SMTT(60), <1>3, <3>2, <3>3, <3>5
      <4>4. (total + c) - (total + c) = 0
        OBVIOUS
      <4> QED
        BY <3>2, <3>3, <4>1, <4>2, <4>3, <4>4
    <3> QED
      BY <3>6, <3>7, <3>8
  <2> QED
    BY <2>1, <2>6, <2>7
<1>23. buckets'[b].tokens = refilled - c /\ buckets'[b].last = new
  BY <1>10, <1>11
<1>24. /\ buckets'[b].tokens <= Burst[b] /\ buckets'[b].last <= clock'
  BY <1>3, <1>12, <1>23
<1>25. h[new] = total + c
  BY <1>22
<1>26. \A t \in 0..MaxClock : t >= buckets'[b].last => granted'[b][t] = granted'[b][buckets'[b].last]
  BY <1>1, <1>16, <1>22, <1>23, <1>25
<1>27. ASSUME NEW t1 \in 0..MaxClock, t1 <= buckets'[b].last
       PROVE  buckets'[b].tokens + granted'[b][buckets'[b].last] - Before(b, t1)'
                <= Burst[b] + Rate[b] * (buckets'[b].last - t1)
  <2>1. (refilled - c) + (total + c) - q[t1] <= burst + (w[new] - w[t1])
    BY <1>1, <1>22, <1>23, <1>27
  <2>2. r * (new - t1) = w[new] - w[t1]
    BY <1>1, <1>x
  <2>3. granted'[b][new] = total + c /\ Before(b, t1)' = q[t1]
    BY <1>1, <1>16, <1>17, <1>25
  <2> QED
    BY <1>2, <1>3, <1>23, <2>1, <2>2, <2>3
<1>28. ASSUME NEW t1 \in 0..MaxClock, NEW t2 \in 0..MaxClock, t1 <= t2
       PROVE  granted'[b][t2] - Before(b, t1)' <= Burst[b] + Rate[b] * (t2 - t1)
  <2>1. h[t2] - q[t1] <= burst + (w[t2] - w[t1])
    BY <1>1, <1>22, <1>28
  <2>2. r * (t2 - t1) = w[t2] - w[t1]
    BY <1>1, <1>x
  <2>3. granted'[b][t2] = h[t2] /\ Before(b, t1)' = q[t1]
    BY <1>1, <1>16, <1>17
  <2> QED
    BY <1>2, <1>3, <2>1, <2>2, <2>3
<1> QED
  BY <1>24, <1>26, <1>27, <1>28 DEF BudgetInv

(* A refill gives a sender at least what it counts on. *)
LEMMA RefillIsEnough ==
  ASSUME BucketInv, NEW s \in Senders, NEW read \in 0..MaxClock, Enough(s), NEW b, b = senders[s].bucket
  PROVE  /\ Refilled(b, read).last >= senders[s].wake => Refilled(b, read).tokens >= Count(s)
         /\ Refilled(b, read).last < senders[s].wake =>
              Refilled(b, read).tokens + Rate[b] * (senders[s].wake - Refilled(b, read).last) >= Count(s)
<1>1. PICK r \in Nat : r = Rate[b]
  BY RateTypes DEF BucketInv, BucketTypeOK, SenderState
<1>2. PICK last \in Nat : last = buckets[b].last
  BY RateTypes DEF BucketInv, BucketTypeOK, SenderState
<1>3. PICK tokens \in Nat : tokens = buckets[b].tokens
  BY DEF BucketInv, BucketTypeOK, SenderState
<1>4. PICK wake \in Nat : wake = senders[s].wake
  BY DEF BucketInv, BucketTypeOK, SenderState
<1>5. PICK count \in Nat : count = Count(s)
  BY CountFits DEF BucketInv
<1>6. PICK burst \in Nat : burst = Burst[b]
  BY RateTypes DEF BucketInv, BucketTypeOK, SenderState
<1>7. b \in Names /\ count <= burst /\ tokens <= burst
  BY <1>3, <1>5, <1>6, CountFits DEF BucketInv, BudgetInv, BucketTypeOK, SenderState
<1>8. /\ Refilled(b, read) \in [tokens : Nat, last : 0..MaxClock] /\ last <= Refilled(b, read).last
      /\ \/ Refilled(b, read).tokens = burst
         \/ Refilled(b, read).tokens = tokens + r * (Refilled(b, read).last - last)
  BY <1>1, <1>2, <1>3, <1>6, <1>7, RefilledFacts DEF BucketInv
<1>9. PICK new \in Nat : new = Refilled(b, read).last
  BY <1>8, RateTypes
<1>10. PICK refilled \in Nat : refilled = Refilled(b, read).tokens
  BY <1>8
<1>11. (last < wake => tokens + r * (wake - last) >= count) /\ (last >= wake => tokens >= count)
  BY <1>1, <1>2, <1>3, <1>4, <1>5 DEF Enough
<1>12. last <= new /\ (refilled = burst \/ refilled = tokens + r * (new - last))
  BY <1>8, <1>9, <1>10
<1>13. /\ r * (new - last) \in Int /\ 0 <= r * (new - last)
       /\ r * (wake - last) \in Int /\ r * (wake - new) \in Int
       /\ r * (new - last) + r * (wake - new) = r * (wake - last)
       /\ (new < wake => 0 <= r * (wake - new))
       /\ (new >= wake => r * (wake - last) <= r * (new - last))
  <2>1. /\ new - last \in Int /\ wake - last \in Int /\ wake - new \in Int /\ 0 <= new - last
        /\ (new - last) + (wake - new) = wake - last /\ (new < wake => 0 <= wake - new)
        /\ (new >= wake => wake - last <= new - last)
    BY <1>12
  <2> QED
    BY <2>1, RateFacts
<1>14. PICK x \in Int : x = r * (new - last)
  BY <1>13
<1>15. PICK y \in Int : y = r * (wake - last)
  BY <1>13
<1>16. PICK z \in Int : z = r * (wake - new)
  BY <1>13
<1>17. /\ 0 <= x /\ x + z = y /\ (new < wake => 0 <= z) /\ (new >= wake => y <= x)
       /\ (refilled = burst \/ refilled = tokens + x)
       /\ (last < wake => tokens + y >= count) /\ (last >= wake => tokens >= count)
  BY <1>11, <1>12, <1>13, <1>14, <1>15, <1>16
<1>18. new >= wake => refilled >= count
  BY <1>7, <1>12, <1>17
<1>19. new < wake => refilled + z >= count
  BY <1>7, <1>12, <1>17
<1> QED
  BY <1>1, <1>4, <1>5, <1>9, <1>10, <1>16, <1>18, <1>19

(* A sender refills the bucket, and takes tokens or computes its sleep.     *)
LEMMA TakeInv ==
  ASSUME BucketInv, NEW s \in Senders, TakeTokens(s)
  PROVE  BucketInv'
<1> DEFINE b == senders[s].bucket
           read == senders[s].read
           r == Refilled(b, read)
           c == Count(s)
<1>1. /\ senders[s] \in SenderState /\ b \in Names /\ read \in 0..MaxClock /\ read <= clock
      /\ clock \in 0..MaxClock /\ MaxClock \in Nat /\ buckets[b].tokens <= Burst[b] /\ buckets[b].last <= clock
      /\ buckets[b].last \in 0..MaxClock
  BY RateTypes DEF BucketInv, BucketTypeOK, SenderState, SenderInv, BudgetInv
<1>2. c \in Nat /\ c <= Burst[b]
  BY CountFits DEF BucketInv
<1>3. r \in [tokens : Nat, last : 0..MaxClock] /\ r.last \in {buckets[b].last, read}
  BY <1>1, RefilledFacts DEF BucketInv
<1>4. r.last <= clock
  BY <1>1, <1>3
<1>5. clock' = clock /\ senders[s].at = "lock"
  BY DEF TakeTokens
<1>6. ASSUME NEW q \in Senders, senders[q].slept, ~stolen[q] PROVE Enough(q)
  BY <1>6 DEF BucketInv, SenderInv
<1>7. CASE r.tokens >= c
  <2>1. /\ buckets' = [buckets EXCEPT ![b] = [r EXCEPT !.tokens = @ - c]]
        /\ granted' = [granted EXCEPT ![b] = [t \in 0..MaxClock |-> @[t] + (IF t < r.last THEN 0 ELSE c)]]
        /\ stolen' = [q \in Senders |-> q # s /\ (stolen[q] \/ senders[q].bucket = b)]
        /\ Granted(s)
    BY <1>7 DEF TakeTokens
  <2> HIDE DEF r, c
  <2>2. PICK n : n = [r EXCEPT !.tokens = @ - c]
    OBVIOUS
  <2>3. n \in [tokens : Nat, last : 0..MaxClock] /\ n.tokens = r.tokens - c /\ n.last = r.last
    <3>1. PICK left \in Nat : left = r.tokens - c
      BY <1>2, <1>3, <1>7
    <3>2. n = [r EXCEPT !.tokens = left]
      BY <1>3, <2>2, <3>1
    <3> QED
      BY <1>3, <3>1, <3>2
  <2>4. buckets' = [buckets EXCEPT ![b] = n] /\ buckets'[b] = n /\ \A o \in Names : o # b => buckets'[o] = buckets[o]
    BY <1>1, <2>1, <2>2 DEF BucketInv, BucketTypeOK
  <2>5. /\ \A t \in 0..MaxClock : granted'[b][t] = granted[b][t] + (IF t < r.last THEN 0 ELSE c)
        /\ granted' \in [Names -> [0..MaxClock -> Nat]]
        /\ \A o \in Names : o # b => granted'[o] = granted[o]
    <3>1. PICK g : g = [t \in 0..MaxClock |-> granted[b][t] + (IF t < r.last THEN 0 ELSE c)]
      OBVIOUS
    <3>2. \A t \in 0..MaxClock : granted[b][t] \in Nat /\ (IF t < r.last THEN 0 ELSE c) \in Nat
      BY <1>1, <1>2 DEF BucketInv, BucketTypeOK
    <3>3. g \in [0..MaxClock -> Nat]
      BY <3>1, <3>2
    <3>4. granted' = [granted EXCEPT ![b] = g]
      BY <1>1, <2>1, <3>1 DEF BucketInv, BucketTypeOK
    <3>5. granted'[b] = g
      BY <1>1, <3>4 DEF BucketInv, BucketTypeOK
    <3> QED
      BY <1>1, <3>1, <3>3, <3>4, <3>5 DEF BucketInv, BucketTypeOK
  <2>6. PICK m \in SenderState : m.slept = FALSE /\ m.read <= clock /\ senders' = [senders EXCEPT ![s] = m]
    <3>1. CASE b = "frames" /\ senders[s].payload > 0
      <4>1. PICK l : l = [senders[s] EXCEPT !.at = "loop", !.bucket = "bytes"]
        OBVIOUS
      <4>2. PICK m : m = [l EXCEPT !.slept = FALSE]
        OBVIOUS
      <4>3. l \in SenderState /\ l.read = read
        BY <1>1, <4>1 DEF SenderState, Names
      <4>4. m \in SenderState /\ m.slept = FALSE /\ m.read = read
        BY <4>2, <4>3 DEF SenderState
      <4>5. senders' = [senders EXCEPT ![s] = m]
        <5>1. m = [senders[s] EXCEPT !.at = "loop", !.bucket = "bytes", !.slept = FALSE]
          BY <4>1, <4>2
        <5> QED
          BY <2>1, <3>1, <5>1 DEF Granted, BucketInv, BucketTypeOK
      <4> QED
        BY <1>1, <4>4, <4>5
    <3>2. CASE ~(b = "frames" /\ senders[s].payload > 0)
      <4>1. senders' = [senders EXCEPT ![s] = IdleSender]
        BY <2>1, <3>2 DEF Granted, BucketInv, BucketTypeOK
      <4>2. IdleSender \in SenderState /\ IdleSender.slept = FALSE /\ IdleSender.read <= clock
        BY <1>1, RateTypes DEF IdleSender, SenderState, Names
      <4> HIDE DEF IdleSender
      <4> QED
        BY <4>1, <4>2
    <3> QED
      BY <3>1, <3>2
  <2>7. BucketTypeOK'
    <3>1. stolen' \in [Senders -> BOOLEAN]
      BY <2>1
    <3>2. senders' \in [Senders -> SenderState]
      BY <2>6 DEF BucketInv, BucketTypeOK
    <3>3. buckets' \in [Names -> [tokens : Nat, last : 0..MaxClock]]
      BY <2>3, <2>4 DEF BucketInv, BucketTypeOK
    <3> QED
      BY <1>1, <1>5, <2>5, <3>1, <3>2, <3>3 DEF BucketTypeOK
  <2>8. ASSUME NEW o \in Names PROVE BudgetInv(o)'
    <3>1. CASE o = b
      <4>1. buckets'[b].tokens = r.tokens - c /\ buckets'[b].last = r.last /\ c <= r.tokens
        BY <1>2, <1>3, <1>7, <2>3, <2>4
      <4>2. PICK k \in Nat : k = c
        BY <1>2
      <4>3. PICK clocked \in 0..MaxClock : clocked = read
        BY <1>1
      <4>4. /\ clocked <= clock /\ k <= Refilled(o, clocked).tokens
            /\ buckets'[o].tokens = Refilled(o, clocked).tokens - k /\ buckets'[o].last = Refilled(o, clocked).last
            /\ \A t \in 0..MaxClock : granted'[o][t] = granted[o][t] + (IF t < Refilled(o, clocked).last THEN 0 ELSE k)
        BY <1>1, <2>5, <3>1, <4>1, <4>2, <4>3 DEF r
      <4> QED
        BY <1>5, <4>4, TakeKeepsBudget
    <3>2. CASE o # b
      <4>1. buckets'[o] = buckets[o] /\ granted'[o] = granted[o]
        BY <2>4, <2>5, <3>2
      <4>2. \A t : Before(o, t)' = Before(o, t)
        BY <4>1 DEF Before
      <4> QED
        BY <1>5, <4>1, <4>2 DEF BucketInv, BudgetInv
    <3> QED
      BY <3>1, <3>2
  <2>9. ASSUME NEW q \in Senders PROVE SenderInv(q)'
    <3>1. CASE q = s
      BY <1>5, <2>6, <3>1 DEF SenderInv, BucketInv, BucketTypeOK
    <3>2. CASE q # s
      <4>1. senders'[q] = senders[q]
        BY <2>6, <3>2 DEF BucketInv, BucketTypeOK
      <4>2. ASSUME senders[q].slept, ~stolen'[q] PROVE Enough(q)'
        <5>1. ~stolen[q] /\ senders[q].bucket # b
          BY <2>1, <3>2, <4>2
        <5>2. senders[q].bucket \in Names
          BY DEF BucketInv, BucketTypeOK, SenderState
        <5>3. buckets'[senders[q].bucket] = buckets[senders[q].bucket]
          BY <2>4, <5>1, <5>2
        <5>4. Enough(q)
          BY <1>6, <4>2, <5>1
        <5> QED
          BY <4>1, <5>3, <5>4, EnoughStays
      <4> QED
        BY <1>1, <1>5, <4>1, <4>2, SenderRests
    <3> QED
      BY <3>1, <3>2
  <2> QED
    BY <2>7, <2>8, <2>9 DEF BucketInv
<1>8. CASE ~(r.tokens >= c)
  <2>1. /\ buckets' = [buckets EXCEPT ![b] = r]
        /\ senders' = [senders EXCEPT ![s].at = "sleep", ![s].slept = TRUE, ![s].wake = clock + Delay(b, c - r.tokens)]
        /\ stolen' = [stolen EXCEPT ![s] = FALSE] /\ granted' = granted
    BY <1>8 DEF TakeTokens
  <2> HIDE DEF r, c
  <2>2. buckets'[b] = r /\ \A o \in Names : o # b => buckets'[o] = buckets[o]
    BY <1>1, <2>1 DEF BucketInv, BucketTypeOK
  <2>3. PICK missing \in Nat \ {0} : missing = c - r.tokens
    BY <1>2, <1>3, <1>8
  <2>4. PICK rate \in Nat \ {0} : rate = Rate[b]
    BY <1>1, RateTypes
  <2>5. PICK delay \in Nat \ {0} : delay = Delay(b, c - r.tokens) /\ rate * delay >= missing
    BY <2>3, <2>4, DelayIsEnough DEF Delay
  <2>6. PICK wake \in Nat : wake = clock + delay
    BY <1>1
  <2>7. PICK l : l = [senders[s] EXCEPT !.at = "sleep", !.slept = TRUE]
    OBVIOUS
  <2>8. PICK m : m = [l EXCEPT !.wake = wake]
    OBVIOUS
  <2>9. l \in SenderState /\ l.at = "sleep" /\ l.slept = TRUE /\ l.read = read /\ l.bucket = b
       /\ l.payload = senders[s].payload
    BY <1>1, <2>7 DEF SenderState
  <2>10. /\ m \in SenderState /\ m.at = "sleep" /\ m.slept = TRUE /\ m.read = read /\ m.bucket = b
         /\ m.payload = senders[s].payload /\ m.wake = wake
    BY <2>8, <2>9 DEF SenderState
  <2>11. senders' = [senders EXCEPT ![s] = m]
    <3>1. senders' = [senders EXCEPT ![s].at = "sleep", ![s].slept = TRUE, ![s].wake = wake]
      BY <2>1, <2>5, <2>6
    <3>2. m = [senders[s] EXCEPT !.at = "sleep", !.slept = TRUE, !.wake = wake]
      BY <2>7, <2>8
    <3> QED
      BY <3>1, <3>2 DEF BucketInv, BucketTypeOK
  <2>12. senders'[s] = m /\ \A q \in Senders : q # s => senders'[q] = senders[q]
    BY <2>11 DEF BucketInv, BucketTypeOK
  <2>13. BucketTypeOK'
    <3>1. senders' \in [Senders -> SenderState]
      BY <2>10, <2>11 DEF BucketInv, BucketTypeOK
    <3> QED
      BY <1>1, <1>3, <1>5, <2>1, <3>1 DEF BucketInv, BucketTypeOK
  <2>14. ASSUME NEW o \in Names PROVE BudgetInv(o)'
    <3>1. CASE o = b
      <4>1. /\ buckets'[b].tokens = r.tokens - 0 /\ buckets'[b].last = r.last /\ 0 <= r.tokens
        BY <1>3, <2>2
      <4>2. \A t \in 0..MaxClock : granted'[b][t] = granted[b][t] + (IF t < r.last THEN 0 ELSE 0)
        <5> SUFFICES ASSUME NEW t \in 0..MaxClock PROVE granted'[b][t] = granted[b][t] + (IF t < r.last THEN 0 ELSE 0)
          OBVIOUS
        <5>1. PICK g \in Nat : g = granted[b][t]
          BY <1>1 DEF BucketInv, BucketTypeOK
        <5>2. g = g + (IF t < r.last THEN 0 ELSE 0)
          BY <5>1
        <5> QED
          BY <2>1, <5>1, <5>2
      <4>3. PICK clocked \in 0..MaxClock : clocked = read
        BY <1>1
      <4>4. PICK k \in Nat : k = 0
        OBVIOUS
      <4>5. /\ clocked <= clock /\ k <= Refilled(o, clocked).tokens
            /\ buckets'[o].tokens = Refilled(o, clocked).tokens - k /\ buckets'[o].last = Refilled(o, clocked).last
            /\ \A t \in 0..MaxClock : granted'[o][t] = granted[o][t] + (IF t < Refilled(o, clocked).last THEN 0 ELSE k)
        BY <1>1, <3>1, <4>1, <4>2, <4>3, <4>4 DEF r
      <4> QED
        BY <1>5, <4>5, TakeKeepsBudget
    <3>2. CASE o # b
      <4>1. buckets'[o] = buckets[o] /\ granted'[o] = granted[o]
        BY <2>1, <2>2, <3>2
      <4>2. \A t : Before(o, t)' = Before(o, t)
        BY <4>1 DEF Before
      <4> QED
        BY <1>5, <4>1, <4>2 DEF BucketInv, BudgetInv
    <3> QED
      BY <3>1, <3>2
  <2>15. SenderInv(s)'
    <3>1. PICK last \in Nat : last = r.last
      BY <1>3, <1>1
    <3>2. PICK tokens \in Nat : tokens = r.tokens
      BY <1>3
    <3>3. Count(s)' = c
      BY <2>10, <2>12 DEF Count, c
    <3>4. last < wake /\ delay <= wake - last
      BY <1>1, <1>4, <2>5, <2>6, <3>1
    <3>5. rate * delay <= rate * (wake - last) /\ rate * delay \in Int /\ rate * (wake - last) \in Int
      BY <2>4, <2>5, <3>4, RateFacts
    <3>6. PICK x \in Int : x = rate * (wake - last)
      BY <3>5
    <3>7. PICK y \in Int : y = rate * delay
      BY <3>5
    <3>8. tokens + x >= c
      <4>1. y >= missing /\ y <= x /\ missing = c - tokens
        BY <2>3, <2>5, <3>2, <3>5, <3>6, <3>7
      <4> QED
        BY <1>2, <4>1
    <3>9. Enough(s)'
      BY <2>2, <2>4, <2>10, <2>12, <3>1, <3>2, <3>3, <3>4, <3>6, <3>8 DEF Enough
    <3> QED
      BY <1>1, <1>5, <2>10, <2>12, <3>9 DEF SenderInv
  <2>16. ASSUME NEW q \in Senders, q # s PROVE SenderInv(q)'
    <3>1. senders'[q] = senders[q] /\ stolen'[q] = stolen[q]
      BY <2>1, <2>12, <2>16 DEF BucketInv, BucketTypeOK
    <3>2. ASSUME senders[q].slept, ~stolen'[q] PROVE Enough(q)'
      <4>1. Enough(q)
        BY <1>6, <3>1, <3>2
      <4>2. CASE senders[q].bucket = b
        <5>1. /\ r.last >= senders[q].wake => r.tokens >= Count(q)
              /\ r.last < senders[q].wake => r.tokens + Rate[b] * (senders[q].wake - r.last) >= Count(q)
          BY <1>1, <4>1, <4>2, RefillIsEnough DEF r
        <5>2. Count(q)' = Count(q)
          BY <3>1 DEF Count
        <5> QED
          BY <2>2, <3>1, <4>2, <5>1, <5>2 DEF Enough
      <4>3. CASE senders[q].bucket # b
        <5>1. senders[q].bucket \in Names
          BY DEF BucketInv, BucketTypeOK, SenderState
        <5>2. buckets'[senders[q].bucket] = buckets[senders[q].bucket]
          BY <2>2, <4>3, <5>1
        <5> QED
          BY <3>1, <4>1, <5>2, EnoughStays
      <4> QED
        BY <4>2, <4>3
    <3> QED
      BY <1>1, <1>5, <3>1, <3>2, SenderRests
  <2> QED
    BY <2>13, <2>14, <2>15, <2>16 DEF BucketInv
<1> QED
  BY <1>7, <1>8

LEMMA BucketStep == BucketInv /\ [BucketNext]_bucketVars => BucketInv'
<1> SUFFICES ASSUME BucketInv, [BucketNext]_bucketVars PROVE BucketInv'
  OBVIOUS
<1>1. CASE BucketNext
  BY <1>1, TicksInv, SenderStepsInv, TakeInv DEF BucketNext
<1>2. CASE UNCHANGED bucketVars
  <2>1. \A b, t : Before(b, t)' = Before(b, t)
    BY <1>2 DEF Before, bucketVars
  <2>2. \A s : Count(s)' = Count(s)
    BY <1>2 DEF Count, bucketVars
  <2>3. BucketTypeOK'
    BY <1>2 DEF BucketInv, BucketTypeOK, bucketVars
  <2>4. \A b \in Names : BudgetInv(b)'
    BY <1>2, <2>1 DEF BucketInv, BudgetInv, bucketVars
  <2>5. \A s \in Senders : SenderInv(s)'
    BY <1>2, <2>2 DEF BucketInv, SenderInv, Enough, bucketVars
  <2> QED
    BY <2>3, <2>4, <2>5 DEF BucketInv
<1> QED
  BY <1>1, <1>2

LEMMA BucketInvKeepsRate == BucketInv => RateIsKept
<1> SUFFICES ASSUME BucketInv PROVE RateIsKept
  OBVIOUS
<1>1. ASSUME NEW b \in Names, NEW t2 \in 0..MaxClock, NEW t1 \in 0..t2
      PROVE  GrantedWithin(b, t1, t2) <= Burst[b] + Rate[b] * (t2 - t1)
  <2>1. t1 \in 0..MaxClock /\ t1 <= t2
    BY RateTypes
  <2>2. granted[b][t2] - Before(b, t1) <= Burst[b] + Rate[b] * (t2 - t1)
    BY <2>1 DEF BucketInv, BudgetInv
  <2> QED
    BY <2>2 DEF GrantedWithin, Before
<1>2. ASSUME NEW s \in Senders, senders[s].at = "lock", senders[s].slept, ~stolen[s]
      PROVE  Refilled(senders[s].bucket, senders[s].read).tokens >= Count(s)
  <2> DEFINE b == senders[s].bucket
             read == senders[s].read
  <2>1. b \in Names /\ read \in 0..MaxClock /\ senders[s].wake \in Nat
    BY DEF BucketInv, BucketTypeOK, SenderState
  <2>2. Enough(s) /\ senders[s].wake <= read
    BY <1>2 DEF BucketInv, SenderInv
  <2>3. Refilled(b, read).last >= read /\ Refilled(b, read).last \in 0..MaxClock
    BY <2>1, RefilledFacts DEF BucketInv, BudgetInv
  <2>4. Refilled(b, read).last >= senders[s].wake
    BY <2>1, <2>2, <2>3, RateTypes
  <2> QED
    BY <2>1, <2>2, <2>4, RefillIsEnough
<1> QED
  BY <1>1, <1>2 DEF RateIsKept

(* Whatever the senders and however they interleave, no span of time sees   *)
(* more than a burst and the rate of it granted, and a sleep that was       *)
(* computed is enough.                                                      *)
THEOREM RatesAreKept == BucketSpec => []RateIsKept
<1>1. BucketSpec => []BucketInv
  BY BucketInitInv, BucketStep, PTL DEF BucketSpec
<1> QED
  BY <1>1, BucketInvKeepsRate, PTL

-----------------------------------------------------------------------------
(* The options of a profile. *)

Fields == {"http", "security", "bus", "migrator", "skip", "disabled", "pprof"}
Values == Modes \cup Buses \cup Verifiers \cup UserVerifiers
            \cup {"on", "off", "foreign", "runner", "own", "base"}
Option == [field : Fields \cup {"chain"}, value : Values]

(* Where the service verifier is in the chain, and where the caller's own   *)
(* middleware begins.                                                       *)
ServicesAt(mode) == IF ServesUsers(mode) THEN 3 ELSE 2
OwnFrom(mode) == IF ServesServices(mode) THEN ServicesAt(mode) + 1 ELSE ServicesAt(mode)

(* Options that add no middleware but the caller's. *)
AddsOwn(list) ==
  /\ list \in Seq(Option) /\ Len(list) \in Nat
  /\ \A j \in 1..Len(list) : list[j] \in Option /\ (list[j].field = "chain" => list[j].value = "own")

(* Options that add Base, the verifiers of the mode and then only such. *)
AddsVerifiers(list, mode) ==
  /\ list \in Seq(Option) /\ Len(list) \in Nat /\ Len(list) >= OwnFrom(mode) - 1
  /\ \A j \in 1..Len(list) : list[j] \in Option
  /\ list[1] = Set("chain", "base")
  /\ ServesUsers(mode) => list[2] \in {Set("chain", "single"), Set("chain", "issuers")}
  /\ ServesServices(mode) => list[ServicesAt(mode)] \in {Set("chain", "options"), Set("chain", "config")}
  /\ \A j \in OwnFrom(mode)..Len(list) : list[j].field = "chain" => list[j].value = "own"

LEMMA ConcatElements ==
  ASSUME NEW S, NEW s \in Seq(S), NEW t \in Seq(S)
  PROVE  /\ s \o t \in Seq(S)
         /\ Len(s) \in Nat /\ Len(t) \in Nat /\ Len(s \o t) = Len(s) + Len(t)
         /\ \A j \in 1..Len(s) : (s \o t)[j] = s[j]
         /\ \A j \in (Len(s) + 1)..(Len(s) + Len(t)) : (s \o t)[j] = t[j - Len(s)]
OBVIOUS

LEMMA SingleElement ==
  ASSUME NEW S, NEW e \in S
  PROVE  <<e>> \in Seq(S) /\ Len(<<e>>) = 1 /\ <<e>>[1] = e
OBVIOUS

LEMMA ModeNumbers ==
  ASSUME NEW mode
  PROVE  /\ ServicesAt(mode) \in {2, 3} /\ OwnFrom(mode) \in {2, 3, 4}
         /\ ServicesAt(mode) <= OwnFrom(mode)
         /\ ServesUsers(mode) => ServicesAt(mode) = 3
         /\ ~ServesUsers(mode) => ServicesAt(mode) = 2
         /\ ServesServices(mode) => OwnFrom(mode) = ServicesAt(mode) + 1
         /\ ~ServesServices(mode) => OwnFrom(mode) = ServicesAt(mode)
<1>1. ServicesAt(mode) \in {2, 3}
  BY DEF ServicesAt
<1> QED
  BY <1>1 DEF ServicesAt, OwnFrom

LEMMA OwnConcat ==
  ASSUME NEW s, NEW t, AddsOwn(s), AddsOwn(t)
  PROVE  AddsOwn(s \o t)
<1>1. /\ s \in Seq(Option) /\ t \in Seq(Option)
      /\ \A j \in 1..Len(s) : s[j] \in Option /\ (s[j].field = "chain" => s[j].value = "own")
      /\ \A j \in 1..Len(t) : t[j] \in Option /\ (t[j].field = "chain" => t[j].value = "own")
  BY DEF AddsOwn
<1>2. PICK m \in Nat : m = Len(s)
  BY DEF AddsOwn
<1>3. PICK n \in Nat : n = Len(t)
  BY DEF AddsOwn
<1>4. /\ s \o t \in Seq(Option) /\ Len(s \o t) = m + n
      /\ \A j \in 1..m : (s \o t)[j] = s[j]
      /\ \A j \in (m + 1)..(m + n) : (s \o t)[j] = t[j - m]
  BY <1>1, <1>2, <1>3, ConcatElements
<1>5. PICK u : u = s \o t
  OBVIOUS
<1>6. ASSUME NEW j \in 1..(m + n)
      PROVE  u[j] \in Option /\ (u[j].field = "chain" => u[j].value = "own")
  <2>1. CASE j <= m
    <3>1. j \in 1..m
      BY <2>1
    <3> QED
      BY <1>1, <1>2, <1>4, <1>5, <3>1
  <2>2. CASE j > m
    <3>1. j \in (m + 1)..(m + n) /\ j - m \in 1..n
      BY <2>2
    <3> QED
      BY <1>1, <1>3, <1>4, <1>5, <3>1
  <2> QED
    BY <2>1, <2>2
<1> QED
  BY <1>4, <1>5, <1>6 DEF AddsOwn

LEMMA VerifiersConcat ==
  ASSUME NEW s, NEW t, NEW mode, AddsVerifiers(s, mode), AddsOwn(t)
  PROVE  AddsVerifiers(s \o t, mode)
<1>1. /\ s \in Seq(Option) /\ t \in Seq(Option)
      /\ \A j \in 1..Len(s) : s[j] \in Option
      /\ \A j \in OwnFrom(mode)..Len(s) : s[j].field = "chain" => s[j].value = "own"
      /\ \A j \in 1..Len(t) : t[j] \in Option /\ (t[j].field = "chain" => t[j].value = "own")
  BY DEF AddsOwn, AddsVerifiers
<1>2. PICK m \in Nat : m = Len(s)
  BY DEF AddsVerifiers
<1>3. PICK n \in Nat : n = Len(t)
  BY DEF AddsOwn
<1>4. /\ s \o t \in Seq(Option) /\ Len(s \o t) = m + n
      /\ \A j \in 1..m : (s \o t)[j] = s[j]
      /\ \A j \in (m + 1)..(m + n) : (s \o t)[j] = t[j - m]
  BY <1>1, <1>2, <1>3, ConcatElements
<1>5. PICK u : u = s \o t
  OBVIOUS
<1>6. PICK own \in {2, 3, 4} : own = OwnFrom(mode) /\ own - 1 <= m
  BY <1>2, ModeNumbers DEF AddsVerifiers
<1>7. PICK services \in {2, 3} : services = ServicesAt(mode) /\ (ServesServices(mode) => own = services + 1)
                                 /\ (ServesUsers(mode) => services = 3) /\ services <= own
  BY <1>6, ModeNumbers
<1>8. ASSUME NEW j \in 1..(m + n)
      PROVE  u[j] \in Option /\ (own <= j => (u[j].field = "chain" => u[j].value = "own"))
  <2>1. CASE j <= m
    <3>1. j \in 1..m /\ (own <= j => j \in own..m)
      BY <1>6, <2>1
    <3> QED
      BY <1>1, <1>2, <1>4, <1>5, <1>6, <3>1
  <2>2. CASE j > m
    <3>1. j \in (m + 1)..(m + n) /\ j - m \in 1..n
      BY <2>2
    <3> QED
      BY <1>1, <1>3, <1>4, <1>5, <3>1
  <2> QED
    BY <2>1, <2>2
<1>9. /\ u[1] = s[1]
      /\ ServesUsers(mode) => u[2] = s[2]
      /\ ServesServices(mode) => u[services] = s[services]
  <2>1. 1 \in 1..m /\ (ServesUsers(mode) => 2 \in 1..m) /\ (ServesServices(mode) => services \in 1..m)
    BY <1>6, <1>7
  <2> QED
    BY <1>4, <1>5, <2>1
<1>10. ASSUME NEW j \in own..(m + n) PROVE u[j].field = "chain" => u[j].value = "own"
  <2>1. j \in 1..(m + n) /\ own <= j
    BY <1>6
  <2> QED
    BY <1>8, <2>1
<1>11. /\ s[1] = Set("chain", "base")
       /\ ServesUsers(mode) => s[2] \in {Set("chain", "single"), Set("chain", "issuers")}
       /\ ServesServices(mode) => s[services] \in {Set("chain", "options"), Set("chain", "config")}
  BY <1>7 DEF AddsVerifiers
<1>12. u \in Seq(Option) /\ Len(u) = m + n /\ m + n \in Nat /\ m + n >= own - 1
  BY <1>4, <1>5, <1>6
<1>13. AddsVerifiers(u, mode)
  BY <1>6, <1>7, <1>8, <1>9, <1>10, <1>11, <1>12 DEF AddsVerifiers
<1> QED
  BY <1>5, <1>13

UserModes == {"user_facing", "mixed"}
ServiceModes == {"internal_service", "mixed"}

(* A list with one more element if the mode is one of M. *)
Grown(x, s, n, mode, M, e) ==
  /\ Len(x) = IF mode \in M THEN n + 1 ELSE n
  /\ \A j \in 1..n : x[j] = s[j]
  /\ mode \in M => x[n + 1] = e

LEMMA OptionalElement ==
  ASSUME NEW S, NEW s \in Seq(S), NEW n \in Nat, Len(s) = n, NEW mode, NEW M, NEW e, mode \in M => e \in S
  PROVE  /\ s \o (IF mode \in M THEN <<e>> ELSE <<>>) \in Seq(S)
         /\ Grown(s \o (IF mode \in M THEN <<e>> ELSE <<>>), s, n, mode, M, e)
<1>1. CASE mode \in M
  <2>1. /\ s \o <<e>> \in Seq(S) /\ Len(s \o <<e>>) = Len(s) + 1
        /\ \A j \in 1..Len(s) : (s \o <<e>>)[j] = s[j]
        /\ (s \o <<e>>)[Len(s) + 1] = e
    BY <1>1
  <2> QED
    BY <1>1, <2>1 DEF Grown
<1>2. CASE mode \notin M
  <2>1. s \o <<>> = s
    OBVIOUS
  <2> QED
    BY <1>2, <2>1 DEF Grown
<1> QED
  BY <1>1, <1>2

LEMMA OwnAlone ==
  ASSUME NEW e \in Option, e.field = "chain" => e.value = "own"
  PROVE  AddsOwn(<<e>>)
<1>1. <<e>> \in Seq(Option) /\ Len(<<e>>) = 1 /\ <<e>>[1] = e
  BY SingleElement
<1>2. PICK s : s = <<e>>
  OBVIOUS
<1>3. \A j \in 1..Len(s) : s[j] \in Option /\ (s[j].field = "chain" => s[j].value = "own")
  BY <1>1, <1>2
<1> QED
  BY <1>1, <1>2, <1>3 DEF AddsOwn

LEMMA OwnNone == AddsOwn(<<>>)
BY DEF AddsOwn

LEMMA SetIsOption ==
  ASSUME NEW f \in Fields \cup {"chain"}, NEW v \in Values
  PROVE  Set(f, v) \in Option /\ Set(f, v).field = f /\ Set(f, v).value = v
BY DEF Set, Option

LEMMA CallersAddOwn ==
  ASSUME NEW s \in Seq(CallerOptions)
  PROVE  AddsOwn(s)
<1>1. ASSUME NEW o \in CallerOptions
      PROVE  o \in Option /\ (o.field = "chain" => o.value = "own")
  <2>1. PICK f \in Fields \cup {"chain"}, v \in Values : o = Set(f, v) /\ (f = "chain" => v = "own")
    <3>1. CASE o \in {Set("security", m) : m \in Modes}
      <4>1. PICK m \in Modes : o = Set("security", m)
        BY <3>1
      <4>2. m \in Values /\ "security" \in Fields \cup {"chain"}
        BY DEF Values, Fields
      <4> QED
        BY <4>1, <4>2
    <3>2. CASE o \notin {Set("security", m) : m \in Modes}
      <4>1. o \in {Set("http", "off"), Set("bus", "none"), Set("bus", "foreign"), Set("migrator", "foreign"),
                   Set("skip", "on"), Set("disabled", "on"), Set("chain", "own"), Set("pprof", "on")}
        BY <3>2 DEF CallerOptions
      <4>2. {"http", "bus", "migrator", "skip", "disabled", "chain", "pprof"} \subseteq Fields \cup {"chain"}
        BY DEF Fields
      <4>3. {"off", "none", "foreign", "on", "own"} \subseteq Values
        BY DEF Values, Verifiers
      <4> QED
        BY <4>1, <4>2, <4>3
    <3> QED
      BY <3>1, <3>2
  <2> QED
    BY <2>1, SetIsOption
<1>2. CallerOptions \subseteq Option
  BY <1>1
<1>3. s \in Seq(Option) /\ Len(s) \in Nat /\ \A j \in 1..Len(s) : s[j] \in CallerOptions
  BY <1>2
<1> QED
  BY <1>1, <1>3 DEF AddsOwn

LEMMA VerifiersAreAdded ==
  ASSUME NEW mode, NEW user, NEW service,
         ServesUsers(mode) => user \in {"single", "issuers"},
         ServesServices(mode) => service \in {"options", "config"}
  PROVE  AddsVerifiers(<<Set("chain", "base")>>
                         \o (IF ServesUsers(mode) THEN <<Set("chain", user)>> ELSE <<>>)
                         \o (IF ServesServices(mode) THEN <<Set("chain", service)>> ELSE <<>>), mode)
<1>1. /\ mode \in UserModes => user \in {"single", "issuers"}
      /\ mode \in ServiceModes => service \in {"options", "config"}
  BY DEF ServesUsers, ServesServices, UserModes, ServiceModes
<1>2. Set("chain", "base") \in Option
  BY SetIsOption DEF Values
<1>3. ServesUsers(mode) => Set("chain", user) \in Option
  <2>1. "chain" \in Fields \cup {"chain"} /\ (ServesUsers(mode) => user \in Values)
    BY DEF Values, UserVerifiers
  <2> QED
    BY <2>1, SetIsOption
<1>4. ServesServices(mode) => Set("chain", service) \in Option
  <2>1. "chain" \in Fields \cup {"chain"} /\ (ServesServices(mode) => service \in Values)
    BY DEF Values, Verifiers
  <2> QED
    BY <2>1, SetIsOption
<1>5. PICK b : b = <<Set("chain", "base")>>
  OBVIOUS
<1>6. b \in Seq(Option) /\ Len(b) = 1 /\ b[1] = Set("chain", "base")
  BY <1>2, <1>5, SingleElement
<1>7. PICK services \in {2, 3} : services = ServicesAt(mode)
                                 /\ (services = 3 <=> mode \in UserModes)
  BY ModeNumbers DEF ServesUsers, UserModes
<1>8. PICK own \in {2, 3, 4} : own = OwnFrom(mode)
                              /\ own = IF mode \in ServiceModes THEN services + 1 ELSE services
  BY <1>7, ModeNumbers DEF ServesServices, ServiceModes
<1>9. PICK u : u = b \o (IF ServesUsers(mode) THEN <<Set("chain", user)>> ELSE <<>>)
  OBVIOUS
<1>10. u \in Seq(Option) /\ Grown(u, b, 1, mode, UserModes, Set("chain", user))
  <2>1. mode \in UserModes => Set("chain", user) \in Option
    BY <1>3 DEF ServesUsers, UserModes
  <2>2. u = b \o (IF mode \in UserModes THEN <<Set("chain", user)>> ELSE <<>>)
    BY <1>9 DEF ServesUsers, UserModes
  <2> QED
    <3>1. PICK k \in Nat : k = 1 /\ b \in Seq(Option) /\ Len(b) = k
      BY <1>6
    <3>2. u \in Seq(Option) /\ Grown(u, b, k, mode, UserModes, Set("chain", user))
      BY <2>1, <2>2, <3>1, OptionalElement
    <3> QED
      BY <3>1, <3>2
<1>11. PICK n \in {1, 2} : n = Len(u) /\ n + 1 = services
  BY <1>7, <1>10 DEF Grown
<1>12. u[1] = Set("chain", "base") /\ (mode \in UserModes => n = 2 /\ u[2] = Set("chain", user))
  BY <1>6, <1>7, <1>10, <1>11 DEF Grown
<1>13. PICK v : v = u \o (IF ServesServices(mode) THEN <<Set("chain", service)>> ELSE <<>>)
  OBVIOUS
<1>14. v \in Seq(Option) /\ Grown(v, u, n, mode, ServiceModes, Set("chain", service))
  <2>1. mode \in ServiceModes => Set("chain", service) \in Option
    BY <1>4 DEF ServesServices, ServiceModes
  <2>2. v = u \o (IF mode \in ServiceModes THEN <<Set("chain", service)>> ELSE <<>>)
    BY <1>13 DEF ServesServices, ServiceModes
  <2> QED
    BY <1>10, <1>11, <2>1, <2>2, OptionalElement
<1>15. PICK m \in {1, 2, 3} : m = Len(v) /\ m = own - 1
  BY <1>8, <1>11, <1>14 DEF Grown
<1>16. v[1] = u[1] /\ (mode \in UserModes => v[2] = u[2])
       /\ (mode \in ServiceModes => v[services] = Set("chain", service))
  BY <1>11, <1>12, <1>14 DEF Grown
<1>17. AddsVerifiers(v, mode)
  <2>1. Len(v) \in Nat /\ Len(v) >= own - 1 /\ \A j \in own..Len(v) : FALSE
    BY <1>15
  <2>2. \A j \in 1..Len(v) : v[j] \in Option
    BY <1>14
  <2>3. /\ v[1] = Set("chain", "base")
        /\ ServesUsers(mode) => v[2] \in {Set("chain", "single"), Set("chain", "issuers")}
        /\ ServesServices(mode) => v[services] \in {Set("chain", "options"), Set("chain", "config")}
    BY <1>1, <1>12, <1>16 DEF ServesUsers, ServesServices, UserModes, ServiceModes
  <2> QED
    BY <1>7, <1>8, <1>14, <2>1, <2>2, <2>3 DEF AddsVerifiers
<1> QED
  BY <1>5, <1>9, <1>13, <1>17

LEMMA PprofAddsOwn ==
  AddsOwn(<<Set("pprof", "on")>>)
<1>1. "pprof" \in Fields \cup {"chain"} /\ "on" \in Values
  BY DEF Fields, Values
<1>2. Set("pprof", "on") \in Option /\ Set("pprof", "on").field = "pprof"
  BY <1>1, SetIsOption
<1> QED
  BY <1>2, OwnAlone

(* Its mode, if it is not that of a mere migration, was found valid. *)
ModeIsFit(i) ==
  ModeOf(i) # "" => ModeOf(i) = i.security.mode /\ ValidHTTPSecurity(i.security)

LEMMA ChainAddsVerifiers ==
  ASSUME NEW i, ModeIsFit(i)
  PROVE  AddsVerifiers(Chain(i), ModeOf(i))
<1>1. /\ ServesUsers(ModeOf(i)) => i.security.user \in {"single", "issuers"}
      /\ ServesServices(ModeOf(i)) => i.security.verifier \in {"options", "config"}
  <2>1. CASE ModeOf(i) = ""
    BY <2>1 DEF ServesUsers, ServesServices
  <2>2. CASE ModeOf(i) # ""
    BY <2>2 DEF ModeIsFit, ValidHTTPSecurity
  <2> QED
    BY <2>1, <2>2
<1>2. PICK p : p = (IF i.pprof THEN <<Set("pprof", "on")>> ELSE <<>>) /\ AddsOwn(p)
  BY PprofAddsOwn, OwnNone
<1>3. PICK v : /\ v = <<Set("chain", "base")>>
                       \o (IF ServesUsers(ModeOf(i)) THEN <<Set("chain", i.security.user)>> ELSE <<>>)
                       \o (IF ServesServices(ModeOf(i)) THEN <<Set("chain", i.security.verifier)>> ELSE <<>>)
               /\ AddsVerifiers(v, ModeOf(i))
  BY <1>1, VerifiersAreAdded
<1>4. Chain(i) = v \o p
  BY <1>2, <1>3 DEF Chain
<1> QED
  BY <1>2, <1>3, <1>4, VerifiersConcat

LEMMA OneMore ==
  ASSUME NEW S, NEW s \in Seq(S), NEW e \in S
  PROVE  /\ s \o <<e>> \in Seq(S) /\ Len(s) \in Nat /\ Len(s \o <<e>>) = Len(s) + 1
         /\ (s \o <<e>>)[Len(s) + 1] = e
         /\ \A j \in 1..Len(s) : (s \o <<e>>)[j] = s[j]
OBVIOUS

LEMMA PairElements ==
  ASSUME NEW S, NEW x \in S, NEW y \in S
  PROVE  <<x, y>> \in Seq(S) /\ Len(<<x, y>>) = 2 /\ <<x, y>>[1] = x /\ <<x, y>>[2] = y
OBVIOUS

LEMMA OwnPair ==
  ASSUME NEW x \in Option, NEW y \in Option, x.field # "chain", y.field # "chain"
  PROVE  AddsOwn(<<x, y>>)
<1>1. PICK s : s = <<x, y>>
  OBVIOUS
<1>2. s \in Seq(Option) /\ Len(s) = 2 /\ s[1] = x /\ s[2] = y
  BY <1>1, PairElements
<1>3. ASSUME NEW j \in 1..Len(s)
      PROVE  s[j] \in Option /\ (s[j].field = "chain" => s[j].value = "own")
  <2>1. j = 1 \/ j = 2
    BY <1>2
  <2> QED
    BY <1>2, <2>1
<1> QED
  BY <1>1, <1>2, <1>3 DEF AddsOwn

Records == RunInputs(Securities, Seq(CallerOptions)) \cup CoreInputs(Securities, Seq(CallerOptions))

LEMMA InputFields ==
  ASSUME NEW i \in Records
  PROVE  /\ i.security \in Securities /\ i.added \in Seq(CallerOptions)
         /\ \/ i.entry = "run" /\ i.bus \in Buses
            \/ i.entry = "core" /\ i.bus \in Buses \cup {"none"}
<1>1. CASE i \in RunInputs(Securities, Seq(CallerOptions))
  BY <1>1 DEF RunInputs
<1>2. CASE i \in CoreInputs(Securities, Seq(CallerOptions))
  BY <1>2 DEF CoreInputs
<1> QED
  BY <1>1, <1>2 DEF Records

(* What appkit.New is handed. *)
RunHanded(i, list) ==
  /\ list \in Seq(Option) /\ Len(list) \in Nat /\ Len(list) >= 1
  /\ AddsVerifiers(list, ModeOf(i))
  /\ list[Len(list)] = Set("security", ModeOf(i))

LastThree(i, list) ==
  /\ list[Len(list) - 2] = IF i.http THEN Set("security", i.security.mode) ELSE Set("http", "off")
  /\ list[Len(list) - 1] = Set("bus", i.bus)
  /\ list[Len(list)] = IF i.migrations THEN Set("migrator", "runner") ELSE Set("disabled", "on")

CoreHanded(i, list) ==
  /\ list \in Seq(Option) /\ Len(list) \in Nat /\ Len(list) >= 3
  /\ i.http => AddsVerifiers(list, i.security.mode)
  /\ LastThree(i, list)

LEMMA DataPlaneAddsOwn ==
  ASSUME NEW i \in Records, i.entry = "run"
  PROVE  AddsOwn(DataPlane(i))
<1>1. i.bus \in Values /\ "runner" \in Values
  BY InputFields DEF Values, Buses
<1>2. "migrator" \in Fields \cup {"chain"} /\ "bus" \in Fields \cup {"chain"}
  BY DEF Fields
<1>3. /\ Set("migrator", "runner") \in Option /\ Set("migrator", "runner").field = "migrator"
      /\ Set("bus", i.bus) \in Option /\ Set("bus", i.bus).field = "bus"
  BY <1>1, <1>2, SetIsOption
<1>4. AddsOwn(<<Set("migrator", "runner"), Set("bus", i.bus)>>)
  BY <1>3, OwnPair
<1> QED
  BY <1>4, OwnNone DEF DataPlane

LEMMA RunIsHanded ==
  ASSUME NEW i \in Records, i.entry = "run", ~RunRefused(i)
  PROVE  RunHanded(i, RunOptions(i))
<1>1. ModeOf(i) \in {"", i.security.mode} /\ (ModeOf(i) # "" => ValidHTTPSecurity(i.security))
  BY DEF ModeOf, RunRefused
<1>2. ModeOf(i) \in Values /\ "security" \in Fields \cup {"chain"}
  BY <1>1, InputFields DEF Values, Modes, Securities, Fields
<1>3. Set("security", ModeOf(i)) \in Option /\ Set("security", ModeOf(i)).field = "security"
  BY <1>2, SetIsOption
<1>4. AddsVerifiers(Chain(i), ModeOf(i))
  <2>1. ModeIsFit(i)
    BY <1>1 DEF ModeIsFit
  <2> QED
    BY <2>1, ChainAddsVerifiers
<1>5. AddsOwn(DataPlane(i)) /\ AddsOwn(i.added) /\ AddsOwn(<<Set("security", ModeOf(i))>>)
  BY <1>3, DataPlaneAddsOwn, InputFields, CallersAddOwn, OwnAlone
<1>6. PICK s : s = Chain(i) \o DataPlane(i) \o i.added /\ AddsVerifiers(s, ModeOf(i))
  BY <1>4, <1>5, VerifiersConcat
<1>7. PICK o : o = s \o <<Set("security", ModeOf(i))>> /\ AddsVerifiers(o, ModeOf(i))
  BY <1>5, <1>6, VerifiersConcat
<1>8. s \in Seq(Option)
  BY <1>6 DEF AddsVerifiers
<1>9. Len(o) = Len(s) + 1 /\ Len(s) \in Nat /\ o[Len(s) + 1] = Set("security", ModeOf(i)) /\ o \in Seq(Option)
  BY <1>3, <1>7, <1>8, OneMore
<1>10. Len(o) \in Nat /\ Len(o) >= 1 /\ o[Len(o)] = Set("security", ModeOf(i))
  BY <1>9
<1> QED
  BY <1>6, <1>7, <1>9, <1>10 DEF RunHanded, RunOptions

LEMMA CoreIsHanded ==
  ASSUME NEW i \in Records, i.entry = "core", ~CoreRefused(i)
  PROVE  CoreHanded(i, StartOptions(i))
<1>1. ModeOf(i) = i.security.mode
  BY DEF ModeOf
<1>2. i.http => AddsVerifiers(Chain(i), i.security.mode)
  <2>1. i.http => ModeIsFit(i)
    BY <1>1 DEF CoreRefused, ModeIsFit
  <2> QED
    BY <1>1, <2>1, ChainAddsVerifiers
<1>3. PICK c : c = IF i.http THEN Chain(i) ELSE <<>>
  OBVIOUS
<1>4. PICK x : x = IF i.http THEN Set("security", i.security.mode) ELSE Set("http", "off")
  OBVIOUS
<1>5. PICK y : y = Set("bus", i.bus)
  OBVIOUS
<1>6. PICK z : z = IF i.migrations THEN Set("migrator", "runner") ELSE Set("disabled", "on")
  OBVIOUS
<1>7. /\ x \in Option /\ x.field # "chain"
      /\ y \in Option /\ y.field # "chain"
      /\ z \in Option /\ z.field # "chain"
  <2>1. {"security", "http", "bus", "migrator", "disabled"} \subseteq Fields \cup {"chain"}
    BY DEF Fields
  <2>2. i.security.mode \in Values /\ i.bus \in Values /\ {"off", "runner", "on"} \subseteq Values
    BY InputFields DEF Values, Modes, Securities, Buses, Verifiers
  <2>3. /\ Set("security", i.security.mode) \in Option /\ Set("security", i.security.mode).field = "security"
        /\ Set("http", "off") \in Option /\ Set("http", "off").field = "http"
        /\ Set("bus", i.bus) \in Option /\ Set("bus", i.bus).field = "bus"
        /\ Set("migrator", "runner") \in Option /\ Set("migrator", "runner").field = "migrator"
        /\ Set("disabled", "on") \in Option /\ Set("disabled", "on").field = "disabled"
    BY <2>1, <2>2, SetIsOption
  <2> QED
    BY <1>4, <1>5, <1>6, <2>3
<1>8. AddsOwn(<<x>>) /\ AddsOwn(<<y>>) /\ AddsOwn(<<z>>) /\ AddsOwn(i.added)
  BY <1>7, OwnAlone, InputFields, CallersAddOwn
<1>9. PICK s : s = c \o i.added /\ s \in Seq(Option) /\ (i.http => AddsVerifiers(s, i.security.mode))
  <2>1. CASE i.http
    <3>1. AddsVerifiers(c \o i.added, i.security.mode)
      BY <1>2, <1>3, <1>8, <2>1, VerifiersConcat
    <3> QED
      BY <3>1 DEF AddsVerifiers
  <2>2. CASE ~i.http
    <3>1. AddsOwn(c)
      BY <1>3, <2>2, OwnNone
    <3>2. AddsOwn(c \o i.added)
      BY <1>8, <3>1, OwnConcat
    <3> QED
      BY <2>2, <3>2 DEF AddsOwn
  <2> QED
    BY <2>1, <2>2
<1>10. PICK sx : sx = s \o <<x>> /\ sx \in Seq(Option) /\ Len(sx) = Len(s) + 1 /\ sx[Len(s) + 1] = x
                 /\ Len(s) \in Nat /\ (i.http => AddsVerifiers(sx, i.security.mode))
  BY <1>7, <1>8, <1>9, OneMore, VerifiersConcat
<1>11. PICK sy : sy = sx \o <<y>> /\ sy \in Seq(Option) /\ Len(sy) = Len(sx) + 1 /\ sy[Len(sx) + 1] = y
                 /\ (\A j \in 1..Len(sx) : sy[j] = sx[j]) /\ (i.http => AddsVerifiers(sy, i.security.mode))
  <2>1. /\ sx \o <<y>> \in Seq(Option)
        /\ Len(sx \o <<y>>) = Len(sx) + 1 /\ (sx \o <<y>>)[Len(sx) + 1] = y
        /\ \A j \in 1..Len(sx) : (sx \o <<y>>)[j] = sx[j]
    BY <1>7, <1>10, OneMore
  <2>2. i.http => AddsVerifiers(sx \o <<y>>, i.security.mode)
    BY <1>8, <1>10, VerifiersConcat
  <2> QED
    BY <2>1, <2>2
<1>12. PICK o : o = sy \o <<z>> /\ o \in Seq(Option) /\ Len(o) = Len(sy) + 1 /\ o[Len(sy) + 1] = z
                /\ (\A j \in 1..Len(sy) : o[j] = sy[j]) /\ (i.http => AddsVerifiers(o, i.security.mode))
  <2>1. /\ sy \o <<z>> \in Seq(Option)
        /\ Len(sy \o <<z>>) = Len(sy) + 1 /\ (sy \o <<z>>)[Len(sy) + 1] = z
        /\ \A j \in 1..Len(sy) : (sy \o <<z>>)[j] = sy[j]
    BY <1>7, <1>11, OneMore
  <2>2. i.http => AddsVerifiers(sy \o <<z>>, i.security.mode)
    BY <1>8, <1>11, VerifiersConcat
  <2> QED
    BY <2>1, <2>2
<1>13. Len(o) \in Nat /\ Len(o) >= 3 /\ o[Len(o) - 2] = x /\ o[Len(o) - 1] = y /\ o[Len(o)] = z
  <2>1. PICK n \in Nat : n = Len(s)
    BY <1>10
  <2>2. Len(sx) = n + 1 /\ Len(sy) = n + 2 /\ Len(o) = n + 3
    BY <1>10, <1>11, <1>12, <2>1
  <2>3. n + 1 \in 1..(n + 1) /\ n + 1 \in 1..(n + 2) /\ n + 2 \in 1..(n + 2)
    OBVIOUS
  <2>4. o[n + 1] = x /\ o[n + 2] = y /\ o[n + 3] = z
    BY <1>10, <1>11, <1>12, <2>1, <2>2, <2>3
  <2>5. Len(o) - 2 = n + 1 /\ Len(o) - 1 = n + 2
    BY <2>2
  <2> QED
    BY <2>2, <2>4, <2>5
<1>14. LastThree(i, o)
  BY <1>4, <1>5, <1>6, <1>13 DEF LastThree
<1>15. o = StartOptions(i)
  BY <1>3, <1>4, <1>5, <1>6, <1>9, <1>10, <1>11, <1>12 DEF StartOptions
<1> QED
  BY <1>12, <1>13, <1>14, <1>15 DEF CoreHanded

(* The middleware so far, of a list that begins with the verifiers: every   *)
(* option of that part has added its own, and only the caller's came later. *)
ChainSoFar(mode, n) ==
  /\ n < OwnFrom(mode) => Len(chain) = n
  /\ n >= OwnFrom(mode) - 1 => Len(chain) >= OwnFrom(mode) - 1
  /\ Len(chain) >= 1 => chain[1] = "base"
  /\ ServesUsers(mode) /\ Len(chain) >= 2 => chain[2] \in {"single", "issuers"}
  /\ ServesServices(mode) /\ Len(chain) >= ServicesAt(mode) => chain[ServicesAt(mode)] \in {"options", "config"}
  /\ \A j \in OwnFrom(mode)..Len(chain) : chain[j] = "own"

(* The last options that have been applied stand. *)
RunSoFar(i) == used = Len(options) => config["security"] = ModeOf(i)
CoreSoFar(i) ==
  /\ used >= Len(options) - 2 => IF i.http THEN config["security"] = i.security.mode
                                           ELSE config["http"] = "off"
  /\ used >= Len(options) - 1 => config["bus"] = i.bus
  /\ used = Len(options) => IF i.migrations THEN config["migrator"] = "runner"
                                            ELSE config["disabled"] = "on"

(* While appkit.New runs, and after. *)
RunInv(i) ==
  /\ ~RunRefused(i) /\ RunHanded(i, options)
  /\ ChainSoFar(ModeOf(i), used) /\ RunSoFar(i)
CoreInv(i) ==
  /\ ~CoreRefused(i) /\ CoreHanded(i, options)
  /\ i.http => ChainSoFar(i.security.mode, used)
  /\ CoreSoFar(i)

ProfileTypeOK ==
  /\ input \in Records
  /\ app \in {"pending", "refused", "new", "built"}
  /\ used \in Nat
  /\ config \in [Fields -> Values]
  /\ chain \in Seq(Values)

ProfileInv ==
  /\ ProfileTypeOK
  /\ app = "pending" => used = 0 /\ chain = <<>>
  /\ app \in {"new", "built"} =>
       /\ options \in Seq(Option) /\ Len(options) \in Nat /\ used <= Len(options)
       /\ input.entry = "run" => RunInv(input)
       /\ input.entry = "core" => CoreInv(input)
  /\ app = "built" => used = Len(options)

LEMMA EmptyChain ==
  ASSUME NEW mode, chain = <<>>
  PROVE  ChainSoFar(mode, 0)
<1>1. OwnFrom(mode) \in {2, 3, 4} /\ ServicesAt(mode) \in {2, 3} /\ Len(chain) = 0
  BY ModeNumbers
<1> QED
  BY <1>1 DEF ChainSoFar

LEMMA ProfileInitInv ==
  ASSUME ProfileInit
  PROVE  ProfileInv
<1>1. input \in Records
  BY ProfileAssumption DEF ProfileInit, Records
<1>2. config \in [Fields -> Values]
  <2>1. config = Default
    BY DEF ProfileInit
  <2>2. Default \in [Fields -> Values]
    <3>1. {"on", "off", "", "none"} \subseteq Values
      BY DEF Values, Modes, Verifiers
    <3>2. DOMAIN Default = Fields
      BY DEF Default, Fields
    <3>3. ASSUME NEW f \in Fields PROVE Default[f] \in Values
      <4>1. CASE f = "http"
        BY <3>1, <4>1 DEF Default
      <4>2. CASE f = "security"
        BY <3>1, <4>2 DEF Default
      <4>3. CASE f = "bus"
        BY <3>1, <4>3 DEF Default
      <4>4. CASE f = "migrator"
        BY <3>1, <4>4 DEF Default
      <4>5. CASE f = "skip"
        BY <3>1, <4>5 DEF Default
      <4>6. CASE f = "disabled"
        BY <3>1, <4>6 DEF Default
      <4>7. CASE f = "pprof"
        BY <3>1, <4>7 DEF Default
      <4> QED
        BY <4>1, <4>2, <4>3, <4>4, <4>5, <4>6, <4>7 DEF Fields
    <3>4. Default = [f \in Fields |-> Default[f]]
      BY <3>2 DEF Default
    <3> QED
      BY <3>3, <3>4
  <2> QED
    BY <2>1, <2>2
<1>3. app = "pending" /\ used = 0 /\ chain = <<>> /\ chain \in Seq(Values)
  BY DEF ProfileInit
<1> QED
  BY <1>1, <1>2, <1>3 DEF ProfileInv, ProfileTypeOK

(* Handing over the options. *)
LEMMA ConfigureInv ==
  ASSUME ProfileInv, RunWithSecurity \/ StartProfile
  PROVE  ProfileInv'
<1>1. app = "pending" /\ used = 0 /\ chain = <<>> /\ input \in Records
  BY DEF ProfileInv, ProfileTypeOK, RunWithSecurity, StartProfile, Configure
<1>2. input' = input /\ used' = used /\ config' = config /\ chain' = chain
  BY DEF RunWithSecurity, StartProfile, Configure
<1>3. ProfileTypeOK'
  <2>1. app' \in {"refused", "new"}
    BY DEF RunWithSecurity, StartProfile, Configure
  <2> QED
    BY <1>2, <2>1 DEF ProfileInv, ProfileTypeOK
<1>4. CASE app' = "refused"
  BY <1>3, <1>4 DEF ProfileInv
<1>5. CASE app' = "new" /\ RunWithSecurity
  <2>1. input.entry = "run" /\ ~RunRefused(input) /\ options' = RunOptions(input)
    BY <1>5 DEF RunWithSecurity, Configure
  <2>2. RunHanded(input, options')
    BY <1>1, <2>1, RunIsHanded
  <2>3. options' \in Seq(Option) /\ Len(options') \in Nat /\ Len(options') >= 1
    BY <2>2 DEF RunHanded
  <2>4. ChainSoFar(ModeOf(input), 0)
    BY <1>1, EmptyChain
  <2>5. ChainSoFar(ModeOf(input), used)'
    BY <1>1, <1>2, <2>4 DEF ChainSoFar
  <2>6. RunSoFar(input)' 
    BY <1>1, <1>2, <2>3 DEF RunSoFar
  <2>7. RunInv(input)'
    BY <1>2, <2>1, <2>2, <2>5, <2>6 DEF RunInv
  <2> QED
    BY <1>1, <1>2, <1>3, <1>5, <2>1, <2>3, <2>7 DEF ProfileInv
<1>6. CASE app' = "new" /\ StartProfile
  <2>1. input.entry = "core" /\ ~CoreRefused(input) /\ options' = StartOptions(input)
    BY <1>6 DEF StartProfile, Configure
  <2>2. CoreHanded(input, options')
    BY <1>1, <2>1, CoreIsHanded
  <2>3. options' \in Seq(Option) /\ Len(options') \in Nat /\ Len(options') >= 3
    BY <2>2 DEF CoreHanded
  <2>4. ChainSoFar(input.security.mode, 0)
    BY <1>1, EmptyChain
  <2>5. ChainSoFar(input.security.mode, used)'
    BY <1>1, <1>2, <2>4 DEF ChainSoFar
  <2>6. CoreSoFar(input)'
    BY <1>1, <1>2, <2>3 DEF CoreSoFar
  <2>7. CoreInv(input)'
    BY <1>2, <2>1, <2>2, <2>5, <2>6 DEF CoreInv
  <2> QED
    BY <1>1, <1>2, <1>3, <1>6, <2>1, <2>3, <2>7 DEF ProfileInv
<1> QED
  BY <1>4, <1>5, <1>6 DEF RunWithSecurity, StartProfile, Configure

(* An option of the middleware. *)
LEMMA ChainGrows ==
  ASSUME NEW mode, NEW list, AddsVerifiers(list, mode), NEW n \in Nat, n < Len(list),
         ChainSoFar(mode, n), chain \in Seq(Values),
         list[n + 1].field = "chain", chain' = Append(chain, list[n + 1].value)
  PROVE  ChainSoFar(mode, n + 1)'
<1>1. PICK services \in {2, 3} : services = ServicesAt(mode) /\ (ServesUsers(mode) => services = 3)
  BY ModeNumbers
<1>2. PICK own \in {2, 3, 4} : own = OwnFrom(mode) /\ services <= own
                              /\ (ServesServices(mode) => own = services + 1)
                              /\ (~ServesServices(mode) => own = services)
                              /\ (~ServesUsers(mode) => services = 2)
  BY <1>1, ModeNumbers
<1>3. PICK v : v = list[n + 1].value
  OBVIOUS
<1>4. /\ n = 0 => v = "base"
      /\ ServesUsers(mode) /\ n = 1 => v \in {"single", "issuers"}
      /\ ServesServices(mode) /\ n + 1 = services => v \in {"options", "config"}
      /\ n + 1 >= own => v = "own"
  <2>1. /\ list[1] = Set("chain", "base")
        /\ ServesUsers(mode) => list[2] \in {Set("chain", "single"), Set("chain", "issuers")}
        /\ ServesServices(mode) => list[services] \in {Set("chain", "options"), Set("chain", "config")}
        /\ \A j \in own..Len(list) : list[j].field = "chain" => list[j].value = "own"
    BY <1>1, <1>2 DEF AddsVerifiers
  <2>2. Len(list) \in Nat
    BY DEF AddsVerifiers
  <2>3. CASE n + 1 >= own
    <3>1. n + 1 \in own..Len(list) /\ n # 0 /\ ~(ServesUsers(mode) /\ n = 1)
          /\ ~(ServesServices(mode) /\ n + 1 = services)
      BY <1>1, <1>2, <2>2, <2>3
    <3> QED
      BY <1>3, <2>1, <3>1
  <2>4. CASE n + 1 < own
    <3>1. n = 0 => v = "base"
      BY <1>3, <2>1 DEF Set
    <3>2. ServesUsers(mode) /\ n = 1 => v \in {"single", "issuers"}
      BY <1>3, <2>1 DEF Set
    <3>3. ServesServices(mode) /\ n + 1 = services => v \in {"options", "config"}
      BY <1>3, <2>1 DEF Set
    <3> QED
      BY <1>2, <2>4, <3>1, <3>2, <3>3
  <2> QED
    BY <1>2, <2>3, <2>4
<1>5. PICK m \in Nat : m = Len(chain)
  OBVIOUS
<1>6. /\ Len(chain') = m + 1 /\ chain'[m + 1] = v
      /\ \A j \in 1..m : chain'[j] = chain[j]
  BY <1>3, <1>5
<1>7. /\ n < own => m = n
      /\ n >= own - 1 => m >= own - 1
      /\ m >= 1 => chain[1] = "base"
      /\ ServesUsers(mode) /\ m >= 2 => chain[2] \in {"single", "issuers"}
      /\ ServesServices(mode) /\ m >= services => chain[services] \in {"options", "config"}
      /\ \A j \in own..m : chain[j] = "own"
  BY <1>1, <1>2, <1>5 DEF ChainSoFar
<1>8. /\ n + 1 < own => m + 1 = n + 1
      /\ n + 1 >= own - 1 => m + 1 >= own - 1
  BY <1>7
<1>9. chain'[1] = "base"
  <2>1. CASE m = 0
    <3>1. n = 0
      BY <1>7, <2>1
    <3> QED
      BY <1>4, <1>6, <2>1, <3>1
  <2>2. CASE m >= 1
    BY <1>6, <1>7, <2>2
  <2> QED
    BY <2>1, <2>2
<1>10. ASSUME ServesUsers(mode), m + 1 >= 2 PROVE chain'[2] \in {"single", "issuers"}
  <2>1. m = 1 \/ m >= 2
    BY <1>10
  <2>2. CASE m = 1
    <3>1. n = 1
      BY <1>1, <1>2, <1>7, <1>10, <2>2
    <3> QED
      BY <1>4, <1>6, <1>10, <2>2, <3>1
  <2>3. CASE m >= 2
    BY <1>6, <1>7, <1>10, <2>3
  <2> QED
    BY <2>1, <2>2, <2>3
<1>11. ASSUME ServesServices(mode), m + 1 >= services PROVE chain'[services] \in {"options", "config"}
  <2>1. m + 1 = services \/ m >= services
    BY <1>11
  <2>2. CASE m + 1 = services
    <3>1. n + 1 = services
      BY <1>1, <1>2, <1>7, <1>11, <2>2
    <3> QED
      BY <1>4, <1>6, <1>11, <2>2, <3>1
  <2>3. CASE m >= services
    BY <1>6, <1>7, <1>11, <2>3
  <2> QED
    BY <2>1, <2>2, <2>3
<1>12. ASSUME NEW j \in own..(m + 1) PROVE chain'[j] = "own"
  <2>1. CASE j = m + 1
    <3>1. n + 1 >= own
      BY <1>7, <2>1
    <3> QED
      BY <1>4, <1>6, <2>1, <3>1
  <2>2. CASE j # m + 1
    <3>1. j \in own..m /\ j \in 1..m
      BY <2>2
    <3> QED
      BY <1>6, <1>7, <3>1
  <2> QED
    BY <2>1, <2>2
<1> QED
  BY <1>1, <1>2, <1>6, <1>8, <1>9, <1>10, <1>11, <1>12 DEF ChainSoFar

(* Any other option of such a list comes after all the verifiers. *)
LEMMA ChainWaits ==
  ASSUME NEW mode, NEW list, AddsVerifiers(list, mode), NEW n \in Nat, n < Len(list),
         ChainSoFar(mode, n), chain \in Seq(Values),
         list[n + 1].field # "chain", chain' = chain
  PROVE  ChainSoFar(mode, n + 1)'
<1>1. PICK services \in {2, 3} : services = ServicesAt(mode) /\ (ServesUsers(mode) => services = 3)
  BY ModeNumbers
<1>2. PICK own \in {2, 3, 4} : own = OwnFrom(mode) /\ services <= own
                              /\ (ServesServices(mode) => own = services + 1)
                              /\ (~ServesServices(mode) => own = services)
                              /\ (~ServesUsers(mode) => services = 2)
  BY <1>1, ModeNumbers
<1>3. /\ list[1].field = "chain"
      /\ ServesUsers(mode) => list[2].field = "chain"
      /\ ServesServices(mode) => list[services].field = "chain"
  <2>1. /\ list[1] = Set("chain", "base")
        /\ ServesUsers(mode) => list[2] \in {Set("chain", "single"), Set("chain", "issuers")}
        /\ ServesServices(mode) => list[services] \in {Set("chain", "options"), Set("chain", "config")}
    BY <1>1 DEF AddsVerifiers
  <2> QED
    BY <2>1 DEF Set
<1>4. n + 1 >= own
  <2>1. n + 1 # 1 /\ (ServesUsers(mode) => n + 1 # 2) /\ (ServesServices(mode) => n + 1 # services)
    BY <1>3
  <2> QED
    BY <1>1, <1>2, <2>1
<1>5. PICK m \in Nat : m = Len(chain)
  OBVIOUS
<1>6. n < own => m = n
  BY <1>2, <1>5 DEF ChainSoFar
<1>7. n >= own - 1 => m >= own - 1
  BY <1>2, <1>5 DEF ChainSoFar
<1>8. m >= own - 1 /\ ~(n + 1 < own)
  BY <1>4, <1>7
<1> QED
  BY <1>2, <1>5, <1>8 DEF ChainSoFar

LEMMA RunSoFarKept ==
  ASSUME NEW i, RunHanded(i, options), used \in Nat, used < Len(options), RunSoFar(i),
         config \in [Fields -> Values], ApplyOption
  PROVE  RunSoFar(i)'
<1>1. PICK n \in Nat : n = Len(options)
  BY DEF RunHanded
<1>2. used' = used + 1 /\ options' = options
  BY DEF ApplyOption
<1>3. CASE used + 1 < n
  BY <1>1, <1>2, <1>3 DEF RunSoFar
<1>4. CASE used + 1 = n
  <2>1. options[used + 1] = Set("security", ModeOf(i))
    BY <1>1, <1>4 DEF RunHanded
  <2>2. config' = [config EXCEPT !["security"] = ModeOf(i)]
    BY <2>1 DEF ApplyOption, Set
  <2>3. config'["security"] = ModeOf(i)
    BY <2>2 DEF Fields
  <2> QED
    BY <2>3 DEF RunSoFar
<1> QED
  BY <1>1, <1>3, <1>4

LEMMA CoreSoFarKept ==
  ASSUME NEW i, CoreHanded(i, options), used \in Nat, used < Len(options), CoreSoFar(i),
         config \in [Fields -> Values], ApplyOption
  PROVE  CoreSoFar(i)'
<1>1. PICK n \in Nat : n = Len(options) /\ n >= 3
  BY DEF CoreHanded
<1>2. used' = used + 1 /\ options' = options
  BY DEF ApplyOption
<1>3. PICK x : x = IF i.http THEN Set("security", i.security.mode) ELSE Set("http", "off")
  OBVIOUS
<1>4. PICK z : z = IF i.migrations THEN Set("migrator", "runner") ELSE Set("disabled", "on")
  OBVIOUS
<1>5. options[n - 2] = x /\ options[n - 1] = Set("bus", i.bus) /\ options[n] = z
  BY <1>1, <1>3, <1>4 DEF CoreHanded, LastThree
<1>6. CASE used + 1 < n - 2
  BY <1>1, <1>2, <1>6 DEF CoreSoFar
<1>7. CASE used + 1 = n - 2
  <2>1. options[used + 1] = x
    BY <1>5, <1>7
  <2>2. IF i.http THEN config' = [config EXCEPT !["security"] = i.security.mode]
                  ELSE config' = [config EXCEPT !["http"] = "off"]
    BY <1>3, <2>1 DEF ApplyOption, Set
  <2>3. IF i.http THEN config'["security"] = i.security.mode ELSE config'["http"] = "off"
    BY <2>2 DEF Fields
  <2> QED
    BY <1>1, <1>2, <1>7, <2>3 DEF CoreSoFar
<1>8. CASE used + 1 = n - 1
  <2>1. options[used + 1] = Set("bus", i.bus)
    BY <1>5, <1>8
  <2>2. config' = [config EXCEPT !["bus"] = i.bus]
    BY <2>1 DEF ApplyOption, Set
  <2>3. config'["bus"] = i.bus /\ config'["security"] = config["security"] /\ config'["http"] = config["http"]
    BY <2>2 DEF Fields
  <2>4. IF i.http THEN config["security"] = i.security.mode ELSE config["http"] = "off"
    BY <1>1, <1>8 DEF CoreSoFar
  <2> QED
    BY <1>1, <1>2, <1>8, <2>3, <2>4 DEF CoreSoFar
<1>9. CASE used + 1 = n
  <2>1. options[used + 1] = z
    BY <1>5, <1>9
  <2>2. IF i.migrations THEN config' = [config EXCEPT !["migrator"] = "runner"]
                        ELSE config' = [config EXCEPT !["disabled"] = "on"]
    BY <1>4, <2>1 DEF ApplyOption, Set
  <2>3. /\ config'["bus"] = config["bus"] /\ config'["security"] = config["security"]
        /\ config'["http"] = config["http"]
        /\ IF i.migrations THEN config'["migrator"] = "runner" ELSE config'["disabled"] = "on"
    BY <2>2 DEF Fields
  <2>4. config["bus"] = i.bus /\ IF i.http THEN config["security"] = i.security.mode ELSE config["http"] = "off"
    BY <1>1, <1>9 DEF CoreSoFar
  <2> QED
    BY <2>3, <2>4 DEF CoreSoFar
<1> QED
  BY <1>1, <1>6, <1>7, <1>8, <1>9

LEMMA ChainKept ==
  ASSUME NEW mode, AddsVerifiers(options, mode), used \in Nat, used < Len(options),
         ChainSoFar(mode, used), chain \in Seq(Values), ApplyOption
  PROVE  ChainSoFar(mode, used)'
<1>1. PICK n \in Nat : n = used
  OBVIOUS
<1>2. used' = n + 1 /\ n < Len(options)
  BY <1>1 DEF ApplyOption
<1>3. ChainSoFar(mode, n)
  BY <1>1
<1>4. CASE options[n + 1].field = "chain"
  <2>1. chain' = Append(chain, options[n + 1].value)
    BY <1>1, <1>4 DEF ApplyOption
  <2>2. ChainSoFar(mode, n + 1)'
    BY <1>2, <1>3, <1>4, <2>1, ChainGrows
  <2> QED
    BY <1>2, <2>2 DEF ChainSoFar
<1>5. CASE options[n + 1].field # "chain"
  <2>1. chain' = chain
    BY <1>1, <1>5 DEF ApplyOption
  <2>2. ChainSoFar(mode, n + 1)'
    BY <1>2, <1>3, <1>5, <2>1, ChainWaits
  <2> QED
    BY <1>2, <2>2 DEF ChainSoFar
<1> QED
  BY <1>4, <1>5

LEMMA ApplyOptionInv ==
  ASSUME ProfileInv, ApplyOption
  PROVE  ProfileInv'
<1>1. /\ app = "new" /\ used < Len(options) /\ used \in Nat /\ Len(options) \in Nat
      /\ options \in Seq(Option) /\ ProfileTypeOK
      /\ input.entry = "run" => RunInv(input)
      /\ input.entry = "core" => CoreInv(input)
  BY DEF ProfileInv, ProfileTypeOK, ApplyOption
<1>2. input' = input /\ app' = app /\ options' = options /\ used' = used + 1
  BY DEF ApplyOption
<1>3. PICK o : o = options[used + 1] /\ o \in Option
  <2>1. used + 1 \in 1..Len(options)
    BY <1>1
  <2> QED
    BY <1>1, <2>1
<1>4. config' \in [Fields -> Values] /\ chain' \in Seq(Values)
  <2>1. o.value \in Values /\ o.field \in Fields \cup {"chain"} /\ config \in [Fields -> Values]
        /\ chain \in Seq(Values)
    BY <1>1, <1>3 DEF Option, ProfileTypeOK
  <2>2. CASE o.field = "chain"
    <3>1. chain' = Append(chain, o.value) /\ config' = config
      BY <1>3, <2>2 DEF ApplyOption
    <3> QED
      BY <2>1, <3>1
  <2>3. CASE o.field # "chain"
    <3>1. config' = [config EXCEPT ![o.field] = o.value] /\ chain' = chain
      BY <1>3, <2>3 DEF ApplyOption
    <3> QED
      BY <2>1, <3>1
  <2> QED
    BY <2>2, <2>3
<1>5. ProfileTypeOK'
  BY <1>1, <1>2, <1>4 DEF ProfileTypeOK
<1>6. config \in [Fields -> Values] /\ chain \in Seq(Values)
  BY <1>1 DEF ProfileTypeOK
<1>7. ASSUME input.entry = "run" PROVE RunInv(input)'
  <2>1. ~RunRefused(input) /\ RunHanded(input, options) /\ ChainSoFar(ModeOf(input), used) /\ RunSoFar(input)
    BY <1>1, <1>7 DEF RunInv
  <2>2. AddsVerifiers(options, ModeOf(input))
    BY <2>1 DEF RunHanded
  <2>3. ChainSoFar(ModeOf(input), used)'
    <3>1. PICK mode : mode = ModeOf(input)
      OBVIOUS
    <3>2. ModeOf(input') = mode
      BY <1>2, <3>1
    <3>3. ChainSoFar(mode, used)'
      BY <1>1, <1>6, <2>1, <2>2, <3>1, ChainKept
    <3> QED
      BY <3>2, <3>3
  <2>4. PICK i : i = input
    OBVIOUS
  <2>5. RunSoFar(i)'
    BY <1>1, <1>6, <2>1, <2>4, RunSoFarKept
  <2> QED
    BY <1>2, <2>1, <2>3, <2>4, <2>5 DEF RunInv
<1>8. ASSUME input.entry = "core" PROVE CoreInv(input)'
  <2>1. ~CoreRefused(input) /\ CoreHanded(input, options) /\ CoreSoFar(input)
        /\ (input.http => ChainSoFar(input.security.mode, used))
    BY <1>1, <1>8 DEF CoreInv
  <2>2. input.http => AddsVerifiers(options, input.security.mode)
    BY <2>1 DEF CoreHanded
  <2>3. ASSUME input.http PROVE ChainSoFar(input.security.mode, used)'
    <3>1. PICK mode : mode = input.security.mode
      OBVIOUS
    <3>2. input'.security.mode = mode
      BY <1>2, <3>1
    <3>3. ChainSoFar(mode, used)'
      BY <1>1, <1>6, <2>1, <2>2, <2>3, <3>1, ChainKept
    <3> QED
      BY <3>2, <3>3
  <2>4. PICK i : i = input
    OBVIOUS
  <2>5. CoreSoFar(i)'
    BY <1>1, <1>6, <2>1, <2>4, CoreSoFarKept
  <2> QED
    BY <1>2, <2>1, <2>3, <2>4, <2>5 DEF CoreInv
<1> QED
  BY <1>1, <1>2, <1>5, <1>7, <1>8 DEF ProfileInv

LEMMA ProfileNextInv ==
  ASSUME ProfileInv, [ProfileNext]_profileVars
  PROVE  ProfileInv'
<1>1. CASE RunWithSecurity \/ StartProfile
  BY <1>1, ConfigureInv
<1>2. CASE ApplyOption
  BY <1>2, ApplyOptionInv
<1>3. CASE NewReturns
  BY <1>3 DEF NewReturns, ProfileInv, ProfileTypeOK, RunInv, CoreInv, ChainSoFar, RunSoFar, CoreSoFar
<1>4. CASE UNCHANGED profileVars
  BY <1>4 DEF profileVars, ProfileInv, ProfileTypeOK, RunInv, CoreInv, ChainSoFar, RunSoFar, CoreSoFar
<1> QED
  BY <1>1, <1>2, <1>3, <1>4 DEF ProfileNext

LEMMA ChainIsVerified ==
  ASSUME NEW mode, NEW n \in Nat, ChainSoFar(mode, n), n >= OwnFrom(mode) - 1, chain \in Seq(Values)
  PROVE  VerifiesFirst(mode)
<1>1. PICK services \in {2, 3} : services = ServicesAt(mode) /\ (ServesUsers(mode) => services = 3)
  BY ModeNumbers
<1>2. PICK own \in {2, 3, 4} : own = OwnFrom(mode) /\ services <= own
                              /\ (ServesServices(mode) => own = services + 1)
  BY <1>1, ModeNumbers
<1>3. PICK m \in Nat : m = Len(chain)
  OBVIOUS
<1>4. m >= own - 1
  BY <1>2, <1>3 DEF ChainSoFar
<1>5. m >= 1 /\ (ServesUsers(mode) => m >= 2) /\ (ServesServices(mode) => m >= services)
  BY <1>1, <1>2, <1>4
<1>6. /\ m >= own - 1 /\ chain[1] = "base"
      /\ ServesUsers(mode) => chain[2] \in {"single", "issuers"}
      /\ ServesServices(mode) => chain[services] \in {"options", "config"}
      /\ \A j \in own..m : chain[j] = "own"
  BY <1>1, <1>2, <1>3, <1>4, <1>5 DEF ChainSoFar
<1>7. /\ services = IF ServesUsers(mode) THEN 3 ELSE 2
      /\ own = IF ServesServices(mode) THEN services + 1 ELSE services
  BY <1>1, <1>2 DEF ServicesAt, OwnFrom
<1> QED
  BY <1>3, <1>6, <1>7 DEF VerifiesFirst

LEMMA ProfileInvImplies ==
  ASSUME ProfileInv
  PROVE  ProfileIsKept
<1> SUFFICES ASSUME app = "built" PROVE ProfileIsKept
  BY DEF ProfileIsKept
<1>1. /\ used = Len(options) /\ Len(options) \in Nat /\ input \in Records /\ chain \in Seq(Values)
      /\ input.entry = "run" => RunInv(input)
      /\ input.entry = "core" => CoreInv(input)
  BY DEF ProfileInv, ProfileTypeOK
<1>2. CASE input.entry = "run"
  <2>1. ~RunRefused(input) /\ RunHanded(input, options) /\ ChainSoFar(ModeOf(input), used)
        /\ config["security"] = ModeOf(input)
    BY <1>1, <1>2 DEF RunInv, RunSoFar
  <2>2. used >= OwnFrom(ModeOf(input)) - 1
    BY <1>1, <2>1 DEF RunHanded, AddsVerifiers
  <2>3. VerifiesFirst(ModeOf(input))
    BY <1>1, <2>1, <2>2, ChainIsVerified
  <2>4. ~input.migrate => ModeOf(input) = input.security.mode /\ ValidHTTPSecurity(input.security)
    BY <1>2, <2>1 DEF ModeOf, RunRefused
  <2>5. input.migrate => input.url
    BY <2>1 DEF RunRefused
  <2> QED
    BY <1>2, <2>1, <2>3, <2>4, <2>5 DEF ProfileIsKept
<1>3. CASE input.entry = "core"
  <2>1. /\ ~CoreRefused(input) /\ CoreHanded(input, options) /\ CoreSoFar(input)
        /\ input.http => ChainSoFar(input.security.mode, used)
    BY <1>1, <1>3 DEF CoreInv
  <2>2. /\ IF input.http THEN config["security"] = input.security.mode ELSE config["http"] = "off"
        /\ config["bus"] = input.bus
        /\ IF input.migrations THEN config["migrator"] = "runner" ELSE config["disabled"] = "on"
    BY <1>1, <2>1 DEF CoreSoFar
  <2>3. ASSUME input.http
        PROVE  ValidHTTPSecurity(input.security) /\ VerifiesFirst(input.security.mode)
    <3>1. AddsVerifiers(options, input.security.mode)
      BY <2>1, <2>3 DEF CoreHanded
    <3>2. used >= OwnFrom(input.security.mode) - 1
      BY <1>1, <3>1 DEF AddsVerifiers
    <3>3. ValidHTTPSecurity(input.security)
      BY <2>1, <2>3 DEF CoreRefused
    <3> QED
      BY <1>1, <2>1, <2>3, <3>2, <3>3, ChainIsVerified
  <2>4. input.migrations => input.url
    BY <2>1 DEF CoreRefused
  <2> QED
    BY <1>3, <2>2, <2>3, <2>4 DEF ProfileIsKept
<1>4. input.entry = "run" \/ input.entry = "core"
  BY <1>1, InputFields
<1> QED
  BY <1>2, <1>3, <1>4

(* Whatever options a caller adds, in whatever order and number, the        *)
(* application that appkit.New builds is the one of its configuration:      *)
(* security mode, verifiers, listener, bus and migrations                   *)
(* (bootstrap.go:270-343, profiles.go:299-343).                             *)
THEOREM ProfilesAreKept == ProfileSpec => []ProfileIsKept
<1>1. ProfileInit => ProfileInv
  BY ProfileInitInv
<1>2. ProfileInv /\ [ProfileNext]_profileVars => ProfileInv'
  BY ProfileNextInv
<1>3. ProfileInv => ProfileIsKept
  BY ProfileInvImplies
<1> QED
  BY <1>1, <1>2, <1>3, PTL DEF ProfileSpec

=============================================================================
