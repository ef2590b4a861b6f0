----------------------------- MODULE WorkflowRef -----------------------------
(***************************************************************************)
(* ruleset.ResolveWorkflowRefContext: from an AppKit version to the commit *)
(* that generated workflows are pinned to, and SyncPinned / CheckPinned,   *)
(* which write and compare the files rendered with it.                     *)
(*                                                                         *)
(* A commit is one of AppKit or of some other repository (its go.mod says  *)
(* which).  The devel path runs three git commands and reads go.mod while  *)
(* other processes move HEAD and edit the working tree.  A commit given    *)
(* with -workflow-ref is taken as it is, which is not modelled.            *)
(*                                                                         *)
(* An operator whose name begins with that of the definition after it is a *)
(* faulty variant of it, against which a property is tested.               *)
(***************************************************************************)
EXTENDS Naturals, Sequences

CONSTANT MaxMoves   \* bound: changes made by others

ASSUME WorkflowRefAssumption == MaxMoves \in Nat

VARIABLES
  head,      \* HEAD of the working tree around the command
  worktree,  \* whose go.mod is in the working tree
  build,     \* build information: main module, vcs.revision
  version,   \* the version asked for
  resolve,   \* the resolution: step, what it read, its result
  files,     \* the generated files: the ref each is pinned to
  moves

refVars == <<head, worktree, build, version, resolve, files, moves>>

Commits == {"k1", "k2", "x1"}
AppKit == {"k1", "k2"}
ModuleOf(c) == IF c \in AppKit THEN "appkit" ELSE "other"
Workflows == {"ci.yml", "lint.yml"}
WorkflowOrder == <<"ci.yml", "lint.yml">>

RefInit ==
  /\ head \in Commits /\ worktree = ModuleOf(head)
  /\ build \in [main : {"appkit", "consumer"}, revision : Commits \union {"none", "short"}]
  /\ build.main = "consumer" => build.revision \in {"x1", "none"}
  /\ build.main = "appkit" => build.revision # "x1"
  /\ version \in {"devel", "v1"}
  /\ resolve = [step |-> "start", current |-> "none", ref |-> "none", result |-> "none", file |-> 1]
  /\ files = [f \in Workflows |-> "none"] /\ moves = 0

ResolveAt(step) == resolve.result = "none" /\ resolve.step = step
Unmoved == UNCHANGED <<head, worktree, build, version, files, moves>>

(* validateWorkflowRef: a full commit id, else an error. *)
FullCommit(ref) == ref \in Commits

Answer(ref) ==
  /\ resolve' = IF FullCommit(ref) THEN [resolve EXCEPT !.step = "sync", !.ref = ref]
                                   ELSE [resolve EXCEPT !.result = "error"]
  /\ Unmoved

Error == resolve' = [resolve EXCEPT !.result = "error"] /\ Unmoved

(* A released version: `go mod download -json` reports the commit of the   *)
(* module, or no origin at all.                                            *)
Download == ResolveAt("start") /\ version = "v1" /\ \E origin \in AppKit \union {"none"} : Answer(origin)

(* appkitBuildWorkflowRef: only AppKit's own binary has AppKit's revision. *)
BuildInfo ==
  /\ ResolveAt("start") /\ version = "devel"
  /\ build.main = "appkit" /\ build.revision # "none" /\ Answer(build.revision)

ReadGoMod ==
  /\ ResolveAt("start") /\ version = "devel" /\ ~(build.main = "appkit" /\ build.revision # "none")
  /\ resolve' = [resolve EXCEPT !.step = "head", !.current = worktree] /\ Unmoved

RevParse == ResolveAt("head") /\ resolve' = [resolve EXCEPT !.step = "show", !.ref = head] /\ Unmoved

(* git show <ref>:go.mod, of the commit that was resolved. *)
ShowGoModOfHead ==
  /\ ResolveAt("show")
  /\ IF resolve.current = "appkit" /\ ModuleOf(head) = "appkit" THEN Answer(resolve.ref) ELSE Error

ShowGoMod ==
  /\ ResolveAt("show")
  /\ IF resolve.current = "appkit" /\ ModuleOf(resolve.ref) = "appkit" THEN Answer(resolve.ref) ELSE Error

(* A command or a read fails, or the context ends. *)
CommandFails == (\E step \in {"start", "head", "show", "sync"} : ResolveAt(step)) /\ Error

(* SyncPinned writes the rendered files in path order. *)
SyncFile ==
  /\ ResolveAt("sync") /\ resolve.file <= Len(WorkflowOrder)
  /\ files' = [files EXCEPT ![WorkflowOrder[resolve.file]] = resolve.ref]
  /\ resolve' = [resolve EXCEPT !.file = @ + 1]
  /\ UNCHANGED <<head, worktree, build, version, moves>>

SyncDone ==
  ResolveAt("sync") /\ resolve.file > Len(WorkflowOrder) /\ resolve' = [resolve EXCEPT !.result = "synced"] /\ Unmoved

(* CheckPinned: every file is there with the rendered bytes. *)
Drift(ref) == {f \in Workflows : files[f] # ref}

(* Others move HEAD or edit go.mod; a later command starts over. *)
MoveRepository ==
  /\ moves < MaxMoves /\ moves' = moves + 1
  /\ \/ head' \in Commits \ {head} /\ worktree' = ModuleOf(head')
     \/ worktree' \in {"appkit", "other"} \ {worktree} /\ head' = head
  /\ UNCHANGED <<build, version, resolve, files>>

Again ==
  /\ resolve.result # "none" /\ moves < MaxMoves /\ moves' = moves + 1
  /\ resolve' = [resolve EXCEPT !.step = "start", !.current = "none", !.ref = "none", !.result = "none", !.file = 1]
  /\ version' \in {"devel", "v1"}
  /\ UNCHANGED <<head, worktree, build, files>>

RefNext ==
  \/ Download \/ BuildInfo \/ ReadGoMod \/ RevParse \/ ShowGoMod \/ CommandFails
  \/ SyncFile \/ SyncDone \/ MoveRepository \/ Again

RefSpec == RefInit /\ [][RefNext]_refVars

-----------------------------------------------------------------------------
(* Whatever HEAD and the working tree do during the resolution of a        *)
(* version, no workflow is pinned to a commit that is not AppKit's, and a  *)
(* run that reports success leaves no drift from the ref it resolved; one  *)
(* that failed half way is what CheckPinned finds                          *)
(* (ResolveWorkflowRefContext, SyncPinned).                                *)
PinnedToAppKit ==
  /\ \A f \in Workflows : files[f] \in AppKit \union {"none"}
  /\ resolve.result = "synced" => Drift(resolve.ref) = {}

=============================================================================
