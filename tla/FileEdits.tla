----------------------------- MODULE FileEdits -----------------------------
(***************************************************************************)
(* preview_edit, confirm_edit and apply_patch (src/edit/,                  *)
(* src/server/edit_tools.rs, src/server/coding_tools/edits.rs): batches of *)
(* changes that are checked against the files, kept in the EditStore until *)
(* confirmed, and then made one by one.                                    *)
(*                                                                         *)
(* Only the EditStore has a lock.  Every file operation is an await, so    *)
(* calls, and whoever else works on the files, move between any two of     *)
(* them.  Writing a file is two steps, as in fs::write: opening it empties *)
(* it, or creates it; the text then goes to what was opened, wherever that *)
(* was moved meanwhile, and over what others wrote there (a token is as    *)
(* wide as any other).  Directories and the shapes and sizes of requests   *)
(* are left out.                                                           *)
(***************************************************************************)
EXTENDS TextEdits

CONSTANTS
    Clients, Files,
    Batches,            \* sequences of changes that may be submitted
    Drafts,             \* texts files may begin with, or be given by others
    Profiles,           \* CTM_TOOL_PROFILE: the values it may have
    AccessMode,         \* CTM_ACCESS_MODE
    MaxBatches,         \* bound: batches submitted
    MaxForeign,         \* bound: changes made by others
    MayFail             \* whether a file operation may fail for reasons of its own

ASSUME EditsAssumption ==
    /\ Profiles \subseteq {"legacy", "coding"}
    /\ AccessMode \in {"review", "coding", "full"}
    /\ MaxBatches \in Nat /\ MaxForeign \in Nat /\ MayFail \in BOOLEAN
    /\ Newline \in Tokens /\ Missing \notin Files \cup Texts
    /\ Drafts \subseteq Texts /\ Batches \subseteq Seq(Changes(Files)) \ {<<>>}

VARIABLES
    profile,            \* which of the tools there are: set at the start, never changed
    file,
    \* the EditStore: actions waiting to be confirmed; a batch is its action's number
    edits, made, batch,
    \* a call: its step, its batch, whether it is an apply_patch, the change it is at, the
    \* text it will write, and the file it has open
    pc, work, patch, at, text, opened,
    \* history: of each batch the files when it was submitted, the changes made so far and
    \* how it ended; the batches whose files others have written to since; how many others
    base, done, outcome, disturbed, foreign

server  == <<profile, edits, made, batch>>
calls   == <<pc, work, patch, at, text, opened>>
history == <<base, done, outcome, disturbed, foreign>>
vars    == <<file, server, calls, history>>

Ids  == 1 .. MaxBatches
Used == 1 .. made

PathsOf(b) == {b[i].path : i \in DOMAIN b}
                  \cup {b[i].target : i \in {j \in DOMAIN b : b[j].type = "rename"}}
Paths(n)   == PathsOf(batch[n])

Init ==
    /\ profile \in Profiles
    /\ file \in [Files -> Drafts \cup {Missing}]
    /\ edits = {} /\ made = 0 /\ batch = [n \in Ids |-> <<>>]
    /\ pc = [c \in Clients |-> "idle"] /\ work = [c \in Clients |-> 0]
    /\ patch = [c \in Clients |-> FALSE] /\ at = [c \in Clients |-> 0]
    /\ text = [c \in Clients |-> <<>>] /\ opened = [c \in Clients |-> Missing]
    /\ base = [n \in Ids |-> file] /\ done = [n \in Ids |-> 0]
    /\ outcome = [n \in Ids |-> "none"] /\ disturbed = {} /\ foreign = 0

-----------------------------------------------------------------------------
\* Helpers

Goto(c, l) == pc' = [pc EXCEPT ![c] = l]

Current(c) == batch[work[c]][at[c]]
IsLast(c)  == at[c] = Len(batch[work[c]])

\* The call returns, with a result or an error.
Return(c) ==
    /\ pc' = [pc EXCEPT ![c] = "idle"] /\ work' = [work EXCEPT ![c] = 0]
    /\ patch' = [patch EXCEPT ![c] = FALSE] /\ at' = [at EXCEPT ![c] = 0]
    /\ text' = [text EXCEPT ![c] = <<>>]

\* The first error ends the batch: the changes made before it stay.
Fail(c, why) ==
    /\ Return(c)
    /\ opened' = [opened EXCEPT ![c] = Missing]
    /\ outcome' = [outcome EXCEPT ![work[c]] = why]
    /\ UNCHANGED <<server, base, done, foreign>>

\* Call c made its change; on to the next one.
Advance(c) ==
    /\ done' = [done EXCEPT ![work[c]] = at[c]]
    /\ IF IsLast(c)
       THEN /\ Return(c)
            /\ outcome' = [outcome EXCEPT ![work[c]] = "applied"]
       ELSE /\ at' = [at EXCEPT ![c] = @ + 1] /\ Goto(c, "apply")
            /\ text' = [text EXCEPT ![c] = <<>>]
            /\ UNCHANGED <<work, patch, outcome>>
    /\ UNCHANGED <<server, base, foreign>>

\* Batch n, or somebody else, writes to the files in fs.
Disturb(n, fs) ==
    disturbed' = disturbed \cup {m \in Used : m # n /\ Paths(m) \cap fs # {}}

\* What the open files become when f is removed or replaced, or moved to g.
Unlinked(f) == [c \in Clients |-> IF opened[c] = f THEN Missing ELSE opened[c]]
Moved(f, g) == [c \in Clients |-> IF opened[c] = f THEN g
                                  ELSE IF opened[c] = g THEN Missing ELSE opened[c]]

-----------------------------------------------------------------------------
\* preview_edit, and apply_patch up to its preview

Submit(c, b) ==
    /\ pc[c] = "idle" /\ made < MaxBatches
    /\ made' = made + 1
    /\ batch' = [batch EXCEPT ![made + 1] = b]
    /\ base' = [base EXCEPT ![made + 1] = file]
    /\ work' = [work EXCEPT ![c] = made + 1]
    /\ at' = [at EXCEPT ![c] = 1]
    /\ Goto(c, "preview")
    /\ UNCHANGED <<profile, file, edits, text, opened, done, outcome, disturbed, foreign>>

PreviewEdit(c, b) == profile = "legacy" /\ Submit(c, b) /\ UNCHANGED patch

Unsupported == {"overwrite", "rename", "delete"}

ApplyPatch(c, b) ==
    /\ profile = "coding" /\ AccessMode # "review"
    /\ \A i \in DOMAIN b : b[i].type \notin Unsupported
    /\ Submit(c, b)
    /\ patch' = [patch EXCEPT ![c] = TRUE]

\* For mutation: previews run past the last change of the batch.
AcceptPastEnd(c) ==
    /\ at' = [at EXCEPT ![c] = @ + 1] /\ Goto(c, "preview")
    /\ UNCHANGED <<profile, file, edits, made, batch, work, patch, text, opened, history>>

\* The change is accepted: on with the preview; a previewed batch goes to the store or,
\* in apply_patch, on to be applied.
Accept(c) ==
    /\ IF ~IsLast(c)
       THEN /\ at' = [at EXCEPT ![c] = @ + 1] /\ Goto(c, "preview")
            /\ UNCHANGED <<edits, work, patch, text>>
       ELSE IF patch[c]
       THEN /\ at' = [at EXCEPT ![c] = 1] /\ Goto(c, "apply")
            /\ UNCHANGED <<edits, work, patch, text>>
       ELSE /\ edits' = edits \cup {work[c]}
            /\ Return(c)
    /\ UNCHANGED <<profile, file, made, batch, opened, history>>

Reject(c) == Return(c) /\ UNCHANGED <<file, server, opened, history>>

PreviewOne(c) ==
    /\ pc[c] = "preview"
    /\ LET ch == Current(c) IN
         IF ~PreviewAccepts(ch, file[ch.path]) THEN Reject(c)
         ELSE IF ch.type = "rename"
         THEN /\ Goto(c, "target")
              /\ UNCHANGED <<file, server, work, patch, at, text, opened, history>>
         ELSE Accept(c)

PreviewTarget(c) ==
    /\ pc[c] = "target"
    /\ IF file[Current(c).target] = Missing THEN Accept(c) ELSE Reject(c)

PreviewFails(c) == MayFail /\ pc[c] \in {"preview", "target"} /\ Reject(c)

-----------------------------------------------------------------------------
\* confirm_edit

\* take() removes the action, so that an action is confirmed once.  An id that is not in
\* the store is an error and changes nothing.  For mutation: it is left there.
LeaveInStore(n) == UNCHANGED edits
TakeFromStore(n) == edits' = edits \ {n}

Confirm(c, n) ==
    /\ profile = "legacy" /\ pc[c] = "idle" /\ n \in edits
    /\ TakeFromStore(n)
    /\ work' = [work EXCEPT ![c] = n] /\ at' = [at EXCEPT ![c] = 1]
    /\ Goto(c, "apply")
    /\ UNCHANGED <<profile, file, made, batch, patch, text, opened, history>>

\* A path of it is not allowed any more: the action is gone all the same.
ConfirmRefused(c, n) ==
    /\ MayFail /\ profile = "legacy" /\ pc[c] = "idle" /\ n \in edits
    /\ TakeFromStore(n)
    /\ outcome' = [outcome EXCEPT ![n] = "failed"]
    /\ UNCHANGED <<profile, file, made, batch, calls, base, done, disturbed, foreign>>

-----------------------------------------------------------------------------
\* apply_one: the file is read and checked, then written

ApplyOne(c) ==
    /\ pc[c] = "apply"
    /\ UNCHANGED <<file, disturbed>>
    /\ LET ch == Current(c) IN
         \/ /\ \/ ch.type \in Rewrites /\ ~Applies(ch, file[ch.path])
               \/ ch.type = "rename" /\ file[ch.target] # Missing
               \/ ch.type = "delete" /\ file[ch.path] = Missing
            /\ Fail(c, "refused")
         \/ /\ ch.type \in Rewrites /\ Applies(ch, file[ch.path])
            /\ WritesNothing(ch, file[ch.path])
            /\ Advance(c) /\ UNCHANGED opened
         \/ /\ \/ ch.type = "rename" /\ file[ch.target] = Missing /\ Goto(c, "rename")
               \/ ch.type = "delete" /\ file[ch.path] # Missing /\ Goto(c, "remove")
            /\ UNCHANGED <<server, work, patch, at, text, opened, base, done, outcome, foreign>>
         \/ /\ \/ /\ ch.type \in Rewrites /\ Applies(ch, file[ch.path])
                  /\ ~WritesNothing(ch, file[ch.path])
                  /\ text' = [text EXCEPT ![c] = Rewritten(ch, file[ch.path])]
               \/ /\ ch.type = "overwrite"
                  /\ text' = [text EXCEPT ![c] = ch.new]
            /\ Goto(c, "open")
            /\ UNCHANGED <<server, work, patch, at, opened, base, done, outcome, foreign>>

\* For mutation: the file is opened without being emptied.
OpenOver(c) ==
    /\ pc[c] = "open"
    /\ LET f == Current(c).path IN
         /\ file' = [file EXCEPT ![f] = IF @ = Missing THEN <<>> ELSE @]
         /\ opened' = [opened EXCEPT ![c] = f]
         /\ Disturb(work[c], {f})
    /\ Goto(c, "fill")
    /\ UNCHANGED <<server, work, patch, at, text, base, done, outcome, foreign>>

OpenToWrite(c) ==
    /\ pc[c] = "open"
    /\ LET f == Current(c).path IN
         /\ file' = [file EXCEPT ![f] = <<>>]
         /\ opened' = [opened EXCEPT ![c] = f]
         /\ Disturb(work[c], {f})
    /\ Goto(c, "fill")
    /\ UNCHANGED <<server, work, patch, at, text, base, done, outcome, foreign>>

Over(new, old) == new \o SubSeq(old, Len(new) + 1, Len(old))

Fill(c) ==
    /\ pc[c] = "fill"
    /\ IF opened[c] = Missing THEN UNCHANGED <<file, disturbed>>
       ELSE /\ file' = [file EXCEPT ![opened[c]] = Over(text[c], @)]
            /\ Disturb(work[c], {opened[c]})
    /\ Advance(c)
    /\ opened' = [opened EXCEPT ![c] = Missing]

\* fs::rename: what has meanwhile come to be at the target is replaced.
RenameFile(c) ==
    /\ pc[c] = "rename"
    /\ LET ch == Current(c) IN
         IF file[ch.path] = Missing
         THEN Fail(c, "refused") /\ UNCHANGED <<file, disturbed>>
         ELSE /\ file' = [file EXCEPT ![ch.path] = Missing, ![ch.target] = file[ch.path]]
              /\ opened' = Moved(ch.path, ch.target)
              /\ Disturb(work[c], {ch.path, ch.target})
              /\ Advance(c)

Delete(c) ==
    /\ pc[c] = "remove"
    /\ LET f == Current(c).path IN
         IF file[f] = Missing
         THEN Fail(c, "refused") /\ UNCHANGED <<file, disturbed>>
         ELSE /\ file' = [file EXCEPT ![f] = Missing]
              /\ opened' = Unlinked(f)
              /\ Disturb(work[c], {f})
              /\ Advance(c)

\* A file operation fails; a write that fails leaves the file empty.
OperationFails(c) ==
    /\ MayFail
    /\ \/ pc[c] \in {"apply", "open", "rename", "remove"} /\ Fail(c, "failed")
       \/ pc[c] = "fill" /\ Fail(c, "torn")
    /\ UNCHANGED <<file, disturbed>>

-----------------------------------------------------------------------------

\* Somebody else writes, creates or deletes a file.
Foreign(f) ==
    /\ foreign < MaxForeign
    /\ foreign' = foreign + 1
    /\ \E t \in (Drafts \cup {Missing}) \ {file[f]} :
         /\ file' = [file EXCEPT ![f] = t]
         /\ opened' = IF t = Missing THEN Unlinked(f) ELSE opened
    /\ Disturb(0, {f})
    /\ UNCHANGED <<server, pc, work, patch, at, text, base, done, outcome>>

Step(c) ==
    \/ \E b \in Batches : PreviewEdit(c, b) \/ ApplyPatch(c, b)
    \/ \E n \in Ids : Confirm(c, n) \/ ConfirmRefused(c, n)
    \/ PreviewOne(c) \/ PreviewTarget(c) \/ PreviewFails(c)
    \/ ApplyOne(c) \/ OpenToWrite(c) \/ Fill(c) \/ RenameFile(c) \/ Delete(c) \/ OperationFails(c)

Next == (\E c \in Clients : Step(c)) \/ (\E f \in Files : Foreign(f))

Spec == Init /\ [][Next]_vars

-----------------------------------------------------------------------------
\* Properties

Outcomes == {"none", "applied", "refused", "failed", "torn"}
Applying == {"apply", "open", "fill", "rename", "remove"}
Steps    == {"idle", "preview", "target"} \cup Applying

TypeOK ==
    /\ profile \in Profiles /\ file \in [Files -> Texts \cup {Missing}]
    /\ edits \subseteq Used /\ made \in 0 .. MaxBatches
    /\ batch \in [Ids -> Batches \cup {<<>>}]
    /\ pc \in [Clients -> Steps] /\ work \in [Clients -> 0 .. MaxBatches]
    /\ patch \in [Clients -> BOOLEAN] /\ at \in [Clients -> Nat]
    /\ text \in [Clients -> Texts]
    /\ opened \in [Clients -> Files \cup {Missing}]
    /\ \A c \in Clients : pc[c] # "idle" => work[c] \in Used /\ at[c] \in DOMAIN batch[work[c]]
    /\ done \in [Ids -> Nat] /\ outcome \in [Ids -> Outcomes]
    /\ disturbed \subseteq Used /\ foreign \in 0 .. MaxForeign

\* Each batch is carried out at most once, by one call and in order, however previews,
\* confirmations and failures of all calls interleave.
Carried(n) == \E c \in Clients : work[c] = n /\ pc[c] \in Applying
Phase == [n \in Ids |-> CASE Carried(n) -> "applying"
                          [] n \in edits /\ ~Carried(n) -> "pending"
                          [] n \notin edits /\ ~Carried(n) ->
                               IF outcome[n] = "none" THEN "none" ELSE "over"]
Actions == INSTANCE TwoPhase WITH Actions <- Ids, phase <- Phase, applied <- done
ImplementsTwoPhase == Actions!Spec

\* The files after a change, and after the first k changes of a batch, on their own.
Made(ch, fs) ==
    CASE ch.type = "rename"    -> [fs EXCEPT ![ch.path] = Missing, ![ch.target] = fs[ch.path]]
      [] ch.type = "delete"    -> [fs EXCEPT ![ch.path] = Missing]
      [] ch.type = "overwrite" -> [fs EXCEPT ![ch.path] = ch.new]
      [] OTHER -> IF WritesNothing(ch, fs[ch.path]) THEN fs
                  ELSE [fs EXCEPT ![ch.path] = Rewritten(ch, fs[ch.path])]
Serially(n) ==
    LET after[k \in 0 .. done[n]] == IF k = 0 THEN base[n] ELSE Made(batch[n][k], after[k - 1])
    IN  after[done[n]]

\* A batch whose files nobody else wrote to since it was submitted has made exactly its
\* first changes, up to the one that failed or all of them: no change is skipped, made
\* twice or made of a text that is not the file's.  Only a write that failed midway and a
\* write under way leave something else.
UndisturbedIsSerial ==
    \A n \in Used \ disturbed :
        \/ outcome[n] = "torn" \/ \E c \in Clients : work[c] = n /\ pc[c] = "fill"
        \/ \A f \in Paths(n) : file[f] = Serially(n)[f]

\* A preview can be relied on: a batch that was accepted, touches each file once and is
\* not disturbed is not refused when it is applied.
Separate(b) ==
    /\ \A i, j \in DOMAIN b : i # j => PathsOf(<<b[i]>>) \cap PathsOf(<<b[j]>>) = {}
PreviewPredicts ==
    \A n \in Used \ disturbed : Separate(batch[n]) => outcome[n] # "refused"
=============================================================================
