-------------------------- MODULE FileEditsProofs --------------------------
(***************************************************************************)
(* For any clients, files, batches and failures:                           *)
(*   FileEdits implements TwoPhase.  A step of a call is one of a few      *)
(*     kinds, by what it does to the batches (Kinds); each keeps           *)
(*     CarriedInv and is a step of TwoPhase, or none.                      *)
(*   Its values have their types.  What is made of a text is a text        *)
(*     (RewrittenIsText), by arithmetic on the places a change names.      *)
(*   A batch whose files nobody else wrote to leaves exactly its first     *)
(*     changes, and is not refused what its preview accepted.  A step of   *)
(*     the batch's own call keeps this (SerialOwn, PreviewOwn); another    *)
(*     step either leaves the batch's files alone or disturbs the batch    *)
(*     (Elsewhere, ApartStays).                                            *)
(***************************************************************************)
EXTENDS FileEdits, FoldLemmas, SequenceTheorems, FiniteSetTheorems, TLAPS

Previewing == {"preview", "target"}

-----------------------------------------------------------------------------
\* The invariant

Typed ==
    /\ edits \subseteq Ids /\ made \in 0 .. MaxBatches
    /\ pc \in [Clients -> Steps] /\ work \in [Clients -> 0 .. MaxBatches]
    /\ at \in [Clients -> Nat] /\ done \in [Ids -> Nat] /\ outcome \in [Ids -> Outcomes]

\* A call has a batch while it is at work, and no two calls have the same.
Alone ==
    /\ \A c \in Clients : pc[c] = "idle" <=> work[c] = 0
    /\ \A c, d \in Clients : work[c] = work[d] /\ work[c] # 0 => c = d

\* The batch of a call is not in the store and not over; once it is carried out, the
\* changes before the call's are done.
AtWork ==
    \A c \in Clients : pc[c] # "idle" =>
        /\ work[c] <= made /\ work[c] \notin edits /\ outcome[work[c]] = "none"
        /\ pc[c] \in Previewing => done[work[c]] = 0
        /\ pc[c] \in Applying => at[c] = done[work[c]] + 1

\* Nothing was done of the batches in the store, and of those still to come.
Waiting ==
    /\ \A n \in edits : n <= made /\ outcome[n] = "none" /\ done[n] = 0
    /\ \A n \in Ids : n > made => outcome[n] = "none" /\ done[n] = 0

CarriedInv == Typed /\ Alone /\ AtWork /\ Waiting

-----------------------------------------------------------------------------
\* The kinds of steps

Returns(c) == pc' = [pc EXCEPT ![c] = "idle"] /\ work' = [work EXCEPT ![c] = 0]
                  /\ at' = [at EXCEPT ![c] = 0]

Nothing == UNCHANGED <<edits, made, pc, work, at, done, outcome>>
Submits(c) ==
    /\ pc[c] = "idle" /\ made < MaxBatches /\ made' = made + 1
    /\ pc' = [pc EXCEPT ![c] = "preview"] /\ work' = [work EXCEPT ![c] = made + 1]
    /\ at' = [at EXCEPT ![c] = 1] /\ UNCHANGED <<edits, done, outcome>>
Previews(c) ==
    /\ pc[c] \in Previewing /\ \E l \in Previewing : pc' = [pc EXCEPT ![c] = l]
    /\ \E k \in Nat : at' = [at EXCEPT ![c] = k]
    /\ UNCHANGED <<edits, made, work, done, outcome>>
Offers(c) ==
    /\ pc[c] \in Previewing /\ edits' = edits \cup {work[c]}
    /\ Returns(c) /\ UNCHANGED <<made, done, outcome>>
Drops(c) == pc[c] \in Previewing /\ Returns(c) /\ UNCHANGED <<edits, made, done, outcome>>
Begins(c) ==
    /\ pc[c] \in Previewing /\ pc' = [pc EXCEPT ![c] = "apply"] /\ at' = [at EXCEPT ![c] = 1]
    /\ UNCHANGED <<edits, made, work, done, outcome>>
Takes(c, n) ==
    /\ pc[c] = "idle" /\ n \in edits /\ edits' = edits \ {n}
    /\ pc' = [pc EXCEPT ![c] = "apply"] /\ work' = [work EXCEPT ![c] = n]
    /\ at' = [at EXCEPT ![c] = 1] /\ UNCHANGED <<made, done, outcome>>
Refuses(n) ==
    /\ n \in edits /\ edits' = edits \ {n} /\ outcome' = [outcome EXCEPT ![n] = "failed"]
    /\ UNCHANGED <<made, pc, work, at, done>>
Goes(c) ==
    /\ pc[c] \in Applying /\ \E l \in Applying : pc' = [pc EXCEPT ![c] = l]
    /\ UNCHANGED <<edits, made, work, at, done, outcome>>
GivesUp(c) ==
    /\ pc[c] \in Applying /\ Returns(c) /\ UNCHANGED <<edits, made, done>>
    /\ \E why \in Outcomes \ {"none"} : outcome' = [outcome EXCEPT ![work[c]] = why]
GoesOn(c) ==
    /\ pc[c] \in Applying /\ done' = [done EXCEPT ![work[c]] = at[c]]
    /\ pc' = [pc EXCEPT ![c] = "apply"] /\ at' = [at EXCEPT ![c] = @ + 1]
    /\ UNCHANGED <<edits, made, work, outcome>>
Ends(c) ==
    /\ pc[c] \in Applying /\ done' = [done EXCEPT ![work[c]] = at[c]]
    /\ Returns(c) /\ outcome' = [outcome EXCEPT ![work[c]] = "applied"]
    /\ UNCHANGED <<edits, made>>

OfPreview(c) == Submits(c) \/ Previews(c) \/ Offers(c) \/ Drops(c) \/ Begins(c)
OfApply(c)   == Goes(c) \/ GivesUp(c) \/ GoesOn(c) \/ Ends(c)
OfStore(c)   == \E n \in Ids : Takes(c, n) \/ Refuses(n)

\* Advance, for a call that applies.
LEMMA AdvanceKind ==
    ASSUME NEW c \in Clients, pc[c] \in Applying, Advance(c) PROVE OfApply(c)
  <1>1. CASE IsLast(c)
    BY <1>1 DEF Advance, Return, server, OfApply, Ends, Returns
  <1>2. CASE ~IsLast(c)
    BY <1>2 DEF Advance, Goto, server, OfApply, GoesOn
  <1> QED BY <1>1, <1>2

LEMMA FailKind ==
    ASSUME NEW c \in Clients, pc[c] \in Applying, NEW why \in Outcomes \ {"none"}, Fail(c, why)
    PROVE  OfApply(c)
  BY DEF Fail, Return, server, OfApply, GivesUp, Returns

LEMMA AcceptKind ==
    ASSUME Typed, NEW c \in Clients, pc[c] \in Previewing, Accept(c) PROVE OfPreview(c)
  <1>1. CASE ~IsLast(c)
    BY <1>1 DEF Typed, Accept, Goto, history, OfPreview, Previews, Previewing
  <1>2. CASE IsLast(c) /\ patch[c]
    BY <1>2 DEF Accept, Goto, history, OfPreview, Begins
  <1>3. CASE IsLast(c) /\ ~patch[c]
    BY <1>3 DEF Accept, Return, history, OfPreview, Offers, Returns
  <1> QED BY <1>1, <1>2, <1>3

LEMMA RejectKind ==
    ASSUME NEW c \in Clients, pc[c] \in Previewing, Reject(c) PROVE OfPreview(c)
  BY DEF Reject, Return, server, history, OfPreview, Drops, Returns

\* Every step of a call is of one of the kinds.
LEMMA Kinds ==
    ASSUME Typed, NEW c \in Clients, Step(c) PROVE OfPreview(c) \/ OfApply(c) \/ OfStore(c)
  <1>1. ASSUME NEW b \in Batches, PreviewEdit(c, b) \/ ApplyPatch(c, b) PROVE OfPreview(c)
    BY <1>1 DEF PreviewEdit, ApplyPatch, Submit, Goto, OfPreview, Submits
  <1>2. ASSUME NEW n \in Ids, Confirm(c, n) PROVE OfStore(c)
    BY <1>2 DEF Confirm, TakeFromStore, Goto, history, OfStore, Takes
  <1>3. ASSUME NEW n \in Ids, ConfirmRefused(c, n) PROVE OfStore(c)
    BY <1>3 DEF ConfirmRefused, TakeFromStore, calls, OfStore, Refuses
  <1>4. CASE PreviewOne(c)
    <2> DEFINE ch == Current(c)
    <2>1. pc[c] \in Previewing
      BY <1>4 DEF PreviewOne, Previewing
    <2>2. CASE Accept(c) \/ Reject(c)
      BY <2>1, <2>2, AcceptKind, RejectKind
    <2>3. CASE Goto(c, "target") /\ 
                UNCHANGED <<file, server, work, patch, at, text, opened, history>>
      <3>1. at' = [at EXCEPT ![c] = at[c]] /\ at[c] \in Nat
        BY <2>3 DEF Typed
      <3> QED
        BY <2>1, <2>3, <3>1 DEF Goto, server, history, OfPreview, Previews, Previewing
    <2> QED
      BY <1>4, <2>2, <2>3 DEF PreviewOne
  <1>5. CASE PreviewTarget(c)
    BY <1>5, AcceptKind, RejectKind DEF PreviewTarget, Previewing
  <1>6. CASE PreviewFails(c)
    BY <1>6, RejectKind DEF PreviewFails, Previewing
  <1>7. CASE ApplyOne(c)
    <2>1. pc[c] \in Applying
      BY <1>7 DEF ApplyOne, Applying
    <2>2. CASE Fail(c, "refused")
      BY <2>1, <2>2, FailKind DEF Outcomes
    <2>3. CASE Advance(c)
      BY <2>1, <2>3, AdvanceKind
    <2>4. ASSUME NEW l \in {"rename", "remove", "open"}, Goto(c, l),
                 UNCHANGED <<server, work, at, done, outcome>>
          PROVE  OfApply(c)
      <3>1. l \in Applying
        BY DEF Applying
      <3> QED
        BY <2>1, <2>4, <3>1 DEF Goto, server, OfApply, Goes
    <2>5. \/ Fail(c, "refused") \/ Advance(c)
          \/ \E l \in {"rename", "remove", "open"} :
                Goto(c, l) /\ UNCHANGED <<server, work, at, done, outcome>>
      BY <1>7 DEF ApplyOne
    <2> QED
      BY <2>2, <2>3, <2>4, <2>5
  <1>8. CASE OpenToWrite(c)
    <2>1. pc[c] \in Applying /\ "fill" \in Applying
      BY <1>8 DEF OpenToWrite, Applying
    <2> QED
      BY <1>8, <2>1 DEF OpenToWrite, Goto, server, OfApply, Goes
  <1>9. CASE Fill(c)
    BY <1>9, AdvanceKind DEF Fill, Applying
  <1>10. CASE RenameFile(c)
    BY <1>10, AdvanceKind, FailKind DEF RenameFile, Applying, Outcomes
  <1>11. CASE Delete(c)
    BY <1>11, AdvanceKind, FailKind DEF Delete, Applying, Outcomes
  <1>12. CASE OperationFails(c)
    BY <1>12, FailKind DEF OperationFails, Applying, Outcomes
  <1> QED
    BY <1>1, <1>2, <1>3, <1>4, <1>5, <1>6, <1>7, <1>8, <1>9, <1>10, <1>11, <1>12 DEF Step

-----------------------------------------------------------------------------
\* Each kind keeps the invariant

LEMMA PreviewKeeps ==
    ASSUME CarriedInv, NEW c \in Clients, OfPreview(c) PROVE CarriedInv'
  <1> USE EditsAssumption DEF CarriedInv, Typed, Ids, Steps, Previewing, Applying
  <1>1. CASE Submits(c)
    <2>1. made + 1 \in Ids /\ made' = made + 1
      BY <1>1 DEF Submits
    <2>2. Typed'
      BY <1>1, <2>1 DEF Submits
    <2>3. Alone'
      BY <1>1, <2>1 DEF Submits, Alone, AtWork
    <2>4. AtWork'
      BY <1>1, <2>1 DEF Submits, Alone, AtWork, Waiting
    <2>5. Waiting'
      BY <1>1, <2>1 DEF Submits, Waiting
    <2> QED
      BY <2>2, <2>3, <2>4, <2>5
  <1>2. CASE Previews(c)
    <2>1. Typed' /\ Alone' /\ Waiting'
      BY <1>2 DEF Previews, Alone, Waiting
    <2>2. AtWork'
      BY <1>2 DEF Previews, AtWork
    <2> QED
      BY <2>1, <2>2
  <1>3. CASE Offers(c)
    <2>1. work[c] \in Ids /\ work[c] <= made /\ outcome[work[c]] = "none" /\ done[work[c]] = 0
      BY <1>3 DEF Offers, Alone, AtWork
    <2>2. Typed'
      <3>1. edits' \subseteq Ids
        BY <1>3, <2>1 DEF Offers
      <3> QED
        BY <1>3, <3>1 DEF Offers, Returns
    <2>3. Alone'
      BY <1>3 DEF Offers, Returns, Alone
    <2>4. AtWork'
      BY <1>3, <2>1 DEF Offers, Returns, Alone, AtWork
    <2>5. Waiting'
      BY <1>3, <2>1 DEF Offers, Returns, Waiting
    <2> QED
      BY <2>2, <2>3, <2>4, <2>5
  <1>4. CASE Drops(c)
    <2>1. Typed' /\ Alone' /\ Waiting'
      BY <1>4 DEF Drops, Returns, Alone, Waiting
    <2>2. AtWork'
      BY <1>4 DEF Drops, Returns, AtWork
    <2> QED
      BY <2>1, <2>2
  <1>5. CASE Begins(c)
    <2>1. Typed' /\ Alone' /\ Waiting'
      BY <1>5 DEF Begins, Alone, Waiting
    <2>2. AtWork'
      BY <1>5 DEF Begins, AtWork, Alone
    <2> QED
      BY <2>1, <2>2
  <1> QED
    BY <1>1, <1>2, <1>3, <1>4, <1>5 DEF OfPreview

LEMMA StoreKeeps ==
    ASSUME CarriedInv, NEW c \in Clients, OfStore(c) PROVE CarriedInv'
  <1> USE EditsAssumption DEF CarriedInv, Typed, Ids, Steps, Previewing, Applying
  <1>1. ASSUME NEW n \in Ids, Takes(c, n) PROVE CarriedInv'
    <2>1. n <= made /\ outcome[n] = "none" /\ done[n] = 0
      BY <1>1 DEF Takes, Waiting
    <2>2. \A d \in Clients : work[d] # n
      BY <1>1 DEF Takes, AtWork, Alone
    <2>3. Typed' /\ Alone'
      BY <1>1, <2>1, <2>2 DEF Takes, Alone
    <2>4. AtWork'
      BY <1>1, <2>1, <2>2 DEF Takes, AtWork
    <2>5. Waiting'
      BY <1>1, <2>1 DEF Takes, Waiting
    <2> QED
      BY <2>3, <2>4, <2>5
  <1>2. ASSUME NEW n \in Ids, Refuses(n) PROVE CarriedInv'
    <2>1. \A d \in Clients : work[d] # n
      BY <1>2 DEF Refuses, AtWork, Alone
    <2>2. Typed' /\ Alone'
      BY <1>2 DEF Refuses, Alone, Outcomes
    <2>3. AtWork'
      BY <1>2, <2>1 DEF Refuses, AtWork, Alone
    <2>4. Waiting'
      BY <1>2 DEF Refuses, Waiting
    <2> QED
      BY <2>2, <2>3, <2>4
  <1> QED
    BY <1>1, <1>2 DEF OfStore

LEMMA ApplyKeeps ==
    ASSUME CarriedInv, NEW c \in Clients, OfApply(c) PROVE CarriedInv'
  <1> USE EditsAssumption DEF CarriedInv, Typed, Ids, Steps, Previewing, Applying
  <1>1. /\ work[c] \in Ids /\ work[c] <= made /\ work[c] \notin edits
        /\ at[c] = done[work[c]] + 1
        /\ \A d \in Clients \ {c} : work[d] # work[c]
    BY DEF OfApply, Goes, GivesUp, GoesOn, Ends, Alone, AtWork
  <1>2. CASE Goes(c)
    <2>1. Typed' /\ Alone' /\ Waiting'
      BY <1>2 DEF Goes, Alone, Waiting
    <2>2. AtWork'
      BY <1>2 DEF Goes, AtWork
    <2> QED
      BY <2>1, <2>2
  <1>3. CASE GivesUp(c)
    <2>1. Typed' /\ Alone'
      BY <1>1, <1>3 DEF GivesUp, Returns, Alone
    <2>2. AtWork'
      BY <1>1, <1>3 DEF GivesUp, Returns, AtWork, Alone
    <2>3. Waiting'
      BY <1>1, <1>3 DEF GivesUp, Returns, Waiting
    <2> QED
      BY <2>1, <2>2, <2>3
  <1>4. CASE GoesOn(c)
    <2>1. Typed' /\ Alone'
      BY <1>1, <1>4 DEF GoesOn, Alone
    <2>2. AtWork'
      BY <1>1, <1>4 DEF GoesOn, AtWork, Alone
    <2>3. Waiting'
      BY <1>1, <1>4 DEF GoesOn, Waiting
    <2> QED
      BY <2>1, <2>2, <2>3
  <1>5. CASE Ends(c)
    <2>1. Typed' /\ Alone'
      BY <1>1, <1>5 DEF Ends, Returns, Alone, Outcomes
    <2>2. AtWork'
      BY <1>1, <1>5 DEF Ends, Returns, AtWork, Alone
    <2>3. Waiting'
      BY <1>1, <1>5 DEF Ends, Returns, Waiting
    <2> QED
      BY <2>1, <2>2, <2>3
  <1> QED
    BY <1>2, <1>3, <1>4, <1>5 DEF OfApply

\* Steps that touch no batch: those of others, and stuttering.
LEMMA OthersDoNothing ==
    ASSUME (\E f \in Files : Foreign(f)) \/ UNCHANGED vars PROVE Nothing
  BY DEF Foreign, vars, server, calls, history, Nothing

LEMMA Initially == Init => CarriedInv
  BY EditsAssumption DEF Init, CarriedInv, Typed, Alone, AtWork, Waiting, Ids, Steps, Outcomes

LEMMA Inductive == CarriedInv /\ [Next]_vars => CarriedInv'
  <1> SUFFICES ASSUME CarriedInv, [Next]_vars PROVE CarriedInv'
    OBVIOUS
  <1>1. ASSUME NEW c \in Clients, Step(c) PROVE CarriedInv'
    BY <1>1, Kinds, PreviewKeeps, StoreKeeps, ApplyKeeps DEF CarriedInv
  <1>2. CASE Nothing
    BY <1>2 DEF Nothing, CarriedInv, Typed, Alone, AtWork, Waiting
  <1> QED
    BY <1>1, <1>2, OthersDoNothing DEF Next

LEMMA Invariance == Spec => []CarriedInv
  <1> QED
    BY Initially, Inductive, PTL DEF Spec

-----------------------------------------------------------------------------
\* Each kind is a step of TwoPhase, or none

LEMMA PhaseValue ==
    ASSUME NEW n \in Ids
    PROVE  /\ Carried(n) => Phase[n] = "applying"
           /\ ~Carried(n) /\ n \in edits => Phase[n] = "pending"
           /\ ~Carried(n) /\ n \notin edits /\ outcome[n] = "none" => Phase[n] = "none"
           /\ ~Carried(n) /\ n \notin edits /\ outcome[n] # "none" => Phase[n] = "over"
  BY DEF Phase

LEMMA PhaseValueNext ==
    ASSUME NEW n \in Ids
    PROVE  /\ Carried(n)' => Phase'[n] = "applying"
           /\ ~Carried(n)' /\ n \in edits' => Phase'[n] = "pending"
           /\ ~Carried(n)' /\ n \notin edits' /\ outcome'[n] = "none" => Phase'[n] = "none"
           /\ ~Carried(n)' /\ n \notin edits' /\ outcome'[n] # "none" => Phase'[n] = "over"
  BY DEF Phase

\* When only batch b is touched, and only call c works on it, only its phase changes.
LEMMA PhaseStep ==
    ASSUME Typed, Typed', NEW c \in Clients, NEW b \in Ids,
           \A d \in Clients \ {c} : pc'[d] = pc[d] /\ work'[d] = work[d] /\ work[d] # b,
           work[c] \in {0, b}, work'[c] \in {0, b},
           \A n \in Ids \ {b} : (n \in edits' <=> n \in edits) /\ outcome'[n] = outcome[n]
    PROVE  /\ Carried(b) <=> work[c] = b /\ pc[c] \in Applying
           /\ Carried(b)' <=> work'[c] = b /\ pc'[c] \in Applying
           /\ Phase' = [Phase EXCEPT ![b] = Phase'[b]]
  <1>1. Carried(b) <=> work[c] = b /\ pc[c] \in Applying
    BY DEF Carried
  <1>2. Carried(b)' <=> work'[c] = b /\ pc'[c] \in Applying
    BY DEF Carried
  <1>3. ASSUME NEW n \in Ids \ {b} PROVE Phase'[n] = Phase[n]
    <2>1. 0 \notin Ids
      BY EditsAssumption DEF Ids
    <2>2. Carried(n)' <=> Carried(n)
      BY <2>1 DEF Carried
    <2> QED
      BY <2>2, PhaseValue, PhaseValueNext
  <1>4. Phase' = [Phase EXCEPT ![b] = Phase'[b]]
    <2>1. Phase = [n \in Ids |-> Phase[n]] /\ Phase' = [n \in Ids |-> Phase'[n]]
      BY DEF Phase
    <2> QED
      BY <1>3, <2>1
  <1> QED
    BY <1>1, <1>2, <1>4

Mapped == [Actions!Next]_<<Phase, done>>

LEMMA NothingMaps == ASSUME Nothing PROVE Mapped
  <1>1. Phase' = Phase
    BY DEF Nothing, Phase, Carried
  <1> QED
    BY <1>1 DEF Nothing, Mapped

LEMMA PreviewMaps ==
    ASSUME CarriedInv, CarriedInv', NEW c \in Clients, OfPreview(c) PROVE Mapped
  <1> USE DEF Previewing, Applying
  <1>1. CASE Submits(c)
    <2> PICK b \in Ids : b = made + 1
      BY <1>1, EditsAssumption DEF Submits, CarriedInv, Typed, Ids
    <2>1. b \notin edits /\ b \notin edits' /\ outcome[b] = "none"
      BY <1>1, EditsAssumption DEF Submits, CarriedInv, Typed, Waiting, Ids
    <2>2. \A d \in Clients : work[d] # b
      BY <1>1, <2>1 DEF Submits, CarriedInv, Typed, Alone, AtWork, Ids
    <2>3. work[c] = 0 /\ work'[c] = b /\ pc'[c] = "preview"
      BY <1>1 DEF Submits, CarriedInv, Typed, Alone
    <2>4. /\ Phase' = [Phase EXCEPT ![b] = Phase'[b]]
          /\ ~Carried(b) /\ ~Carried(b)'
      BY <1>1, <2>1, <2>2, <2>3, PhaseStep DEF Submits, CarriedInv, Typed
    <2>5. Phase[b] = "none" /\ Phase'[b] = "none"
      BY <1>1, <2>1, <2>4, PhaseValue, PhaseValueNext DEF Submits
    <2>6. Phase' = Phase
      BY <2>4, <2>5 DEF Phase
    <2> QED
      BY <1>1, <2>6 DEF Submits, Mapped
  <1>2. CASE ~Submits(c)
    <2> PICK b \in Ids : b = work[c]
      BY <1>2, EditsAssumption
         DEF OfPreview, Previews, Offers, Drops, Begins, CarriedInv, Typed, Alone, Ids
    <2>1. /\ pc[c] \in Previewing /\ b \notin edits /\ outcome[b] = "none"
          /\ \A d \in Clients \ {c} : work[d] # b
      <3>1. pc[c] \in Previewing
        BY <1>2 DEF OfPreview, Previews, Offers, Drops, Begins
      <3>2. b # 0
        BY EditsAssumption DEF Ids
      <3> QED
        BY <3>1, <3>2 DEF CarriedInv, Typed, Alone, AtWork, Ids
    <2>2. /\ \A d \in Clients \ {c} : pc'[d] = pc[d] /\ work'[d] = work[d]
          /\ work'[c] \in {0, b} /\ UNCHANGED <<done, outcome>>
          /\ \A n \in Ids \ {b} : n \in edits' <=> n \in edits
      BY <1>2 DEF OfPreview, Previews, Offers, Drops, Begins, Returns, CarriedInv, Typed
    <2>3. /\ Phase' = [Phase EXCEPT ![b] = Phase'[b]]
          /\ ~Carried(b) /\ (Carried(b)' <=> work'[c] = b /\ pc'[c] \in Applying)
      BY <2>1, <2>2, PhaseStep DEF CarriedInv
    <2>4. Phase[b] = "none"
      BY <2>1, <2>3, PhaseValue
    <2>5. Phase'[b] \in {"none", "pending", "applying"}
      BY <2>1, <2>2, PhaseValueNext
    <2>6. CASE Phase'[b] = "none"
      <3>1. Phase' = Phase
        BY <2>3, <2>4, <2>6 DEF Phase
      <3> QED
        BY <2>2, <3>1 DEF Mapped
    <2>7. CASE Phase'[b] = "pending"
      BY <2>1, <2>2, <2>3, <2>4, <2>7 DEF Mapped, Actions!Next, Actions!Offer, Actions!Move
    <2>8. CASE Phase'[b] = "applying"
      BY <2>1, <2>2, <2>3, <2>4, <2>8 DEF Mapped, Actions!Next, Actions!Begin, Actions!Move
    <2> QED
      BY <2>5, <2>6, <2>7, <2>8
  <1> QED
    BY <1>1, <1>2

LEMMA StoreMaps ==
    ASSUME CarriedInv, CarriedInv', NEW c \in Clients, OfStore(c) PROVE Mapped
  <1>1. ASSUME NEW n \in Ids, Takes(c, n) PROVE Mapped
    <2>1. work[c] = 0 /\ \A d \in Clients : work[d] # n
      BY <1>1 DEF Takes, CarriedInv, Typed, Alone, AtWork, Ids
    <2>2. work'[c] = n /\ pc'[c] \in Applying
      BY <1>1 DEF Takes, CarriedInv, Typed, Applying
    <2>3. /\ Phase' = [Phase EXCEPT ![n] = Phase'[n]] /\ ~Carried(n) /\ Carried(n)'
      BY <1>1, <2>1, <2>2, PhaseStep DEF Takes, CarriedInv, Typed
    <2>4. Phase[n] = "pending" /\ Phase'[n] = "applying"
      BY <1>1, <2>3, PhaseValue, PhaseValueNext DEF Takes
    <2> QED
      BY <1>1, <2>3, <2>4 DEF Takes, Mapped, Actions!Next, Actions!Begin, Actions!Move
  <1>2. ASSUME NEW n \in Ids, Refuses(n) PROVE Mapped
    <2>1. \A d \in Clients : work[d] # n
      BY <1>2 DEF Refuses, CarriedInv, Typed, Alone, AtWork, Ids
    <2>2. ~Carried(n) /\ ~Carried(n)' /\ n \notin edits' /\ outcome'[n] = "failed"
      BY <1>2, <2>1 DEF Refuses, Carried, CarriedInv, Typed
    <2>3. \A m \in Ids \ {n} : Phase'[m] = Phase[m]
      <3>1. \A m \in Ids \ {n} : /\ m \in edits' <=> m \in edits
                                 /\ outcome'[m] = outcome[m] /\ (Carried(m)' <=> Carried(m))
        BY <1>2 DEF Refuses, Carried, CarriedInv, Typed
      <3> QED
        BY <3>1, PhaseValue, PhaseValueNext
    <2>4. Phase[n] = "pending" /\ Phase'[n] = "over"
      BY <1>2, <2>2, PhaseValue, PhaseValueNext DEF Refuses
    <2>5. Phase' = [Phase EXCEPT ![n] = "over"]
      BY <2>3, <2>4 DEF Phase
    <2> QED
      BY <1>2, <2>4, <2>5 DEF Refuses, Mapped, Actions!Next, Actions!Withdraw, Actions!Move
  <1> QED
    BY <1>1, <1>2 DEF OfStore

LEMMA ApplyMaps ==
    ASSUME CarriedInv, CarriedInv', NEW c \in Clients, OfApply(c) PROVE Mapped
  <1> USE DEF Previewing, Applying
  <1>0. pc[c] \in Applying
    BY DEF OfApply, Goes, GivesUp, GoesOn, Ends
  <1> PICK b \in Ids : b = work[c]
    BY <1>0, EditsAssumption DEF CarriedInv, Typed, Alone, Ids
  <1>1. /\ pc[c] \in Applying /\ b \notin edits /\ at[c] = done[b] + 1
        /\ \A d \in Clients \ {c} : work[d] # b
    BY <1>0, EditsAssumption DEF CarriedInv, Typed, Alone, AtWork, Ids
  <1>2. /\ \A d \in Clients \ {c} : pc'[d] = pc[d] /\ work'[d] = work[d]
        /\ work'[c] \in {0, b} /\ edits' = edits
        /\ \A n \in Ids \ {b} : outcome'[n] = outcome[n]
    BY DEF OfApply, Goes, GivesUp, GoesOn, Ends, Returns, CarriedInv, Typed
  <1>3. /\ Phase' = [Phase EXCEPT ![b] = Phase'[b]]
        /\ Carried(b) /\ (Carried(b)' <=> work'[c] = b /\ pc'[c] \in Applying)
    BY <1>1, <1>2, PhaseStep DEF CarriedInv
  <1>4. Phase[b] = "applying"
    BY <1>1, <1>3, PhaseValue
  <1>5. CASE Goes(c)
    <2>1. Carried(b)'
      BY <1>3, <1>5 DEF Goes, CarriedInv, Typed
    <2>2. Phase'[b] = "applying"
      BY <1>1, <2>1, PhaseValueNext
    <2>3. Phase' = Phase
      BY <1>3, <1>4, <2>2 DEF Phase
    <2> QED
      BY <1>5, <2>3 DEF Goes, Mapped
  <1>6. CASE GivesUp(c)
    <2>1. ~Carried(b)' /\ b \notin edits' /\ outcome'[b] # "none"
      BY <1>1, <1>3, <1>6 DEF GivesUp, Returns, CarriedInv, Typed
    <2>2. Phase'[b] = "over"
      BY <1>1, <2>1, PhaseValueNext
    <2> QED
      BY <1>1, <1>3, <1>4, <1>6, <2>2
         DEF GivesUp, Mapped, Actions!Next, Actions!GiveUp, Actions!Move
  <1>7. CASE GoesOn(c)
    <2>1. Carried(b)'
      BY <1>3, <1>7 DEF GoesOn, CarriedInv, Typed
    <2>2. Phase'[b] = "applying"
      BY <1>1, <2>1, PhaseValueNext
    <2>3. done' = [done EXCEPT ![b] = @ + 1]
      BY <1>1, <1>7 DEF GoesOn
    <2> QED
      BY <1>1, <1>3, <1>4, <2>2, <2>3 DEF Mapped, Actions!Next, Actions!Write, Actions!Move
  <1>8. CASE Ends(c)
    <2>1. ~Carried(b)' /\ b \notin edits' /\ outcome'[b] # "none"
      BY <1>1, <1>3, <1>8 DEF Ends, Returns, CarriedInv, Typed
    <2>2. Phase'[b] = "over"
      BY <1>1, <2>1, PhaseValueNext
    <2>3. done' = [done EXCEPT ![b] = @ + 1]
      BY <1>1, <1>8 DEF Ends
    <2> QED
      BY <1>1, <1>3, <1>4, <2>2, <2>3 DEF Mapped, Actions!Next, Actions!Write, Actions!Move
  <1> QED
    BY <1>5, <1>6, <1>7, <1>8 DEF OfApply

-----------------------------------------------------------------------------

\* preview_edit, confirm_edit and apply_patch implement TwoPhase (ImplementsTwoPhase): an
\* action is carried out at most once, by one call, change by change from its first, and
\* nothing of it is done before it is confirmed or after it ended, however calls and
\* failures interleave and for any number of clients, files and batches.
THEOREM TwoPhaseImplemented == Spec => ImplementsTwoPhase
  <1>1. Init => Actions!Init
    <2> SUFFICES ASSUME Init PROVE Actions!Init
      OBVIOUS
    <2>1. \A n \in Ids : ~Carried(n) /\ n \notin edits /\ outcome[n] = "none"
      BY DEF Init, Carried, Applying
    <2>2. Phase = [n \in Ids |-> "none"]
      BY <2>1 DEF Phase
    <2> QED
      BY <2>2 DEF Init, Actions!Init
  <1>2. CarriedInv /\ CarriedInv' /\ [Next]_vars => [Actions!Next]_<<Phase, done>>
    <2> SUFFICES ASSUME CarriedInv, CarriedInv', [Next]_vars PROVE Mapped
      BY DEF Mapped
    <2>1. ASSUME NEW c \in Clients, Step(c) PROVE Mapped
      BY <2>1, Kinds, PreviewMaps, StoreMaps, ApplyMaps DEF CarriedInv
    <2> QED
      BY <2>1, OthersDoNothing, NothingMaps DEF Next
  <1> QED
    BY <1>1, <1>2, Invariance, PTL DEF Spec, ImplementsTwoPhase, Actions!Spec

-----------------------------------------------------------------------------
\* Texts

\* Any part of a text, cut within its ends, is a text.
LEMMA PartIsText ==
    ASSUME NEW t \in Texts, NEW i \in Int, NEW j \in Int, i >= 1, j <= Len(t)
    PROVE  SubSeq(t, i, j) \in Texts /\ Len(SubSeq(t, i, j)) = IF i <= j THEN j - i + 1 ELSE 0
  <1>1. \A k \in i .. j : t[k] \in Tokens
    BY ElementOfSeq, LenProperties DEF Texts
  <1> QED
    BY <1>1, SubSeqProperties DEF Texts

\* A part put in at a place of a text.
LEMMA InsertIsText ==
    ASSUME NEW t \in Texts, NEW i \in Int, NEW part \in Texts, i >= 1, i <= Len(t) + 1
    PROVE  Insert(t, i, part) \in Texts
  <1> Len(t) \in Nat
    BY LenProperties DEF Texts
  <1>1. SubSeq(t, 1, i - 1) \in Texts /\ SubSeq(t, i, Len(t)) \in Texts
    BY PartIsText
  <1>2. SubSeq(t, 1, i - 1) \o part \in Texts
    BY <1>1, ConcatProperties DEF Texts
  <1> QED
    BY <1>1, <1>2, ConcatProperties DEF Texts, Insert

\* The parts of a sequence, as SubSeqs has them.
LEMMA PartsOf ==
    ASSUME NEW s, NEW part PROVE part \in SubSeqs(s) <=> \E i, j \in 0 .. Len(s) : part = SubSeq(s, i + 1, j)
  BY SMT DEF SubSeqs

\* The first place of a part that a text holds lies in the text.
LEMMA FirstPlace ==
    ASSUME NEW t \in Texts, NEW part \in Texts, Holds(t, part)
    PROVE  /\ IndexFirstSubSeq(part, t) \in 1 .. Len(t) + 1
           /\ IndexFirstSubSeq(part, t) + Len(part) \in 1 .. Len(t) + 1
  <1> DEFINE Until == {i \in 0 .. Len(t) : part \in SubSeqs(SubSeq(t, 1, i))}
  <1>0. Len(t) \in Nat /\ Len(part) \in Nat
    BY LenProperties DEF Texts
  <1>1. Len(t) \in Until
    <2>1. SubSeq(t, 1, Len(t)) = t
      BY SubSeqFull DEF Texts
    <2>2. Len(t) \in 0 .. Len(t) /\ part \in SubSeqs(t)
      BY <1>0 DEF Holds
    <2> QED
      BY <2>1, <2>2, Zenon
  <1>2. PICK m \in Until : \A i \in Until : m <= i
    <2>1. Until \subseteq Nat /\ Until # {}
      BY <1>0, <1>1
    <2> HIDE DEF Until
    <2> QED
      BY <2>1, Minimum
  <1>3. part \in SubSeqs(SubSeq(t, 1, m)) /\ \A j \in 0 .. m - 1 : part \notin SubSeqs(SubSeq(t, 1, j))
    BY <1>0, <1>2
  <1>4. PICK last \in 0 .. Len(t) :
            /\ part \in SubSeqs(SubSeq(t, 1, last))
            /\ IndexFirstSubSeq(part, t) = last - (Len(part) - 1)
    BY <1>0, <1>3 DEF IndexFirstSubSeq
  <1>5. PICK top \in Texts : part \in SubSeqs(top) /\ Len(top) = last
    <2>1. SubSeq(t, 1, last) \in Texts /\ Len(SubSeq(t, 1, last)) = last
      BY <1>0, PartIsText
    <2> QED
      BY <1>4, <2>1, Zenon
  <1>6. PICK i \in 0 .. last, j \in 0 .. last : part = SubSeq(top, i + 1, j)
    BY <1>5, PartsOf
  <1>7. Len(part) <= last
    BY <1>5, <1>6, PartIsText
  <1> QED
    BY <1>0, <1>4, <1>7

\* Line breaks are counted one by one; every line up to the last has its beginning, which
\* is in the text or just after it.
LEMMA BreaksBefore ==
    ASSUME NEW t \in Texts, NEW i \in Nat
    PROVE  LET before(k) == {b \in Breaks(t) : b < k} IN
           /\ Cardinality(before(i)) \in Nat
           /\ i \notin Breaks(t) => before(i + 1) = before(i)
           /\ i \in Breaks(t) => Cardinality(before(i + 1)) = Cardinality(before(i)) + 1
  <1> DEFINE before(k) == {b \in Breaks(t) : b < k}
  <1>1. Breaks(t) \subseteq 1 .. Len(t) /\ Len(t) \in Nat
    BY LenProperties DEF Breaks, Texts
  <1>2. IsFiniteSet(before(i))
    <2>1. IsFiniteSet(1 .. Len(t))
      BY <1>1, FS_Interval
    <2> QED
      BY <1>1, <2>1, FS_Subset
  <1>3. Cardinality(before(i)) \in Nat
    BY <1>2, FS_CardinalityType
  <1>4. ASSUME i \notin Breaks(t) PROVE before(i + 1) = before(i)
    BY <1>1, <1>4
  <1>5. ASSUME i \in Breaks(t) PROVE Cardinality(before(i + 1)) = Cardinality(before(i)) + 1
    <2>1. before(i + 1) = before(i) \cup {i} /\ i \notin before(i)
      BY <1>1, <1>5
    <2> HIDE DEF before
    <2> QED
      BY <1>2, <2>1, FS_AddElement
  <1> QED
    BY <1>3, <1>4, <1>5

\* Every line there is begins somewhere, all but the first after its first place.
LEMMA LinesBegin ==
    ASSUME NEW t \in Texts, NEW m \in 1 .. LineCount(t)
    PROVE  LineStart(t, m) \in 1 .. Len(t) + 1 /\ (m > 1 => LineStart(t, m) > 1)
  <1> DEFINE below(k) == Cardinality({b \in Breaks(t) : b < k})
             Late == {i \in 1 .. Len(t) + 1 : below(i) >= m - 1}
  <1>1. Breaks(t) \subseteq 1 .. Len(t) /\ Len(t) \in Nat
    BY LenProperties DEF Breaks, Texts
  <1>2. below(1) = 0
    <2>1. {b \in Breaks(t) : b < 1} = {}
      BY <1>1
    <2> QED
      BY <2>1, FS_EmptySet
  <1>3. below(Len(t) + 1) = LineCount(t) - 1 /\ LineCount(t) \in Nat
    <2>1. {b \in Breaks(t) : b < Len(t) + 1} = Breaks(t)
      BY <1>1
    <2>2. Cardinality(Breaks(t)) \in Nat
      <3>1. IsFiniteSet(1 .. Len(t))
        BY <1>1, FS_Interval
      <3> QED
        BY <1>1, <3>1, FS_Subset, FS_CardinalityType
    <2>3. below(Len(t) + 1) = Cardinality(Breaks(t))
      BY <2>1, Zenon
    <2> HIDE DEF below
    <2> QED
      BY <2>2, <2>3 DEF LineCount
  <1>4. PICK i \in Late : \A k \in Late : i <= k
    <2>1. Len(t) + 1 \in Late /\ Late \subseteq Nat
      BY <1>1, <1>3
    <2> HIDE DEF Late
    <2> QED
      BY <2>1, Minimum
  <1>5. (i = 1 \/ i - 1 \in Breaks(t)) /\ below(i) = m - 1
    <2>0. i \in 1 .. Len(t) + 1 /\ below(i) >= m - 1 /\ m \in Nat /\ m >= 1
      BY <1>3
    <2>1. CASE i = 1
      BY <1>2, <1>3, <2>1, <2>0
    <2>2. CASE i # 1
      <3>1. i - 1 \in Nat /\ i - 1 \notin Late /\ i - 1 \in 1 .. Len(t) + 1
        BY <1>1, <1>4, <2>2
      <3>2. below(i - 1) \in Nat /\ below(i - 1) < m - 1
        BY <2>0, <3>1, BreaksBefore
      <3>3. PICK k \in Nat : k = i - 1 /\ i = k + 1
        BY <3>1
      <3>4. /\ k \notin Breaks(t) => below(k + 1) = below(k)
            /\ k \in Breaks(t) => below(k + 1) = below(k) + 1
        BY BreaksBefore
      <3> HIDE DEF below
      <3> QED
        BY <2>0, <3>2, <3>3, <3>4
    <2> QED
      BY <2>1, <2>2
  <1>6. \E l \in 1 .. Len(t) + 1 :
            (l = 1 \/ l - 1 \in Breaks(t)) /\ Cardinality({b \in Breaks(t) : b < l}) = m - 1
    BY <1>5
  <1>7. PICK l \in 1 .. Len(t) + 1 : l = LineStart(t, m) /\ below(l) = m - 1
    BY <1>6 DEF LineStart
  <1>8. l = 1 => m = 1
    <2>1. l = 1 => below(l) = 0
      BY <1>2
    <2> HIDE DEF below
    <2> QED
      BY <1>3, <1>7, <2>1
  <1> QED
    BY <1>1, <1>7, <1>8

\* Every line there is ends in the text.
LEMMA LinesEnd ==
    ASSUME NEW t \in Texts, NEW n \in 1 .. LineCount(t)
    PROVE  LineEnd(t, n) \in 0 .. Len(t)
  <1>1. Len(t) \in Nat /\ LineCount(t) \in Nat
    <2>1. Breaks(t) \subseteq 1 .. Len(t) /\ Len(t) \in Nat
      BY LenProperties DEF Breaks, Texts
    <2>2. IsFiniteSet(1 .. Len(t))
      BY <2>1, FS_Interval
    <2> QED
      BY <2>1, <2>2, FS_Subset, FS_CardinalityType DEF LineCount
  <1>2. n # LineCount(t) => LineStart(t, n + 1) \in 2 .. Len(t) + 1
    <2>1. n # LineCount(t) => n + 1 \in 1 .. LineCount(t) /\ n + 1 > 1
      BY <1>1
    <2> QED
      BY <2>1, LinesBegin
  <1> QED
    BY <1>1, <1>2 DEF LineEnd

\* What a change that applies makes of a text, or of no text, is a text.
LEMMA RewrittenIsText ==
    ASSUME NEW fs, NEW ch \in Changes(fs), NEW t \in Texts \cup {Missing},
           ch.type \in Rewrites, Applies(ch, t), ~WritesNothing(ch, t),
           Newline \in Tokens, Missing \notin Texts
    PROVE  Rewritten(ch, t) \in Texts
  <1>1. CASE ch.type = "create"
    <2>1. ch.new \in Texts
      BY <1>1 DEF Changes
    <2> QED
      BY <1>1, <2>1 DEF Rewritten
  <1>2. CASE ch.type = "append"
    <2>1. ch.new \in Texts
      BY <1>2 DEF Changes
    <2>2. <<Newline>> \in Texts
      BY DEF Texts
    <2>3. t \in Texts => t \o ch.new \in Texts /\ t \o <<Newline>> \in Texts
      BY <2>1, <2>2, ConcatProperties DEF Texts
    <2>4. t \in Texts => t \o <<Newline>> \o ch.new \in Texts
      BY <2>1, <2>3, ConcatProperties DEF Texts
    <2>5. Appended(t, ch.new) \in Texts
      BY <2>1, <2>3, <2>4, Zenon DEF Appended
    <2> QED
      BY <1>2, <2>5 DEF Rewritten
  <1>3. CASE ch.type = "replace_text"
    <2>1. ch.new \in Texts /\ ch.old \in Texts
      BY <1>3 DEF Changes
    <2>2. CASE t = Missing
      BY <1>3, <2>1, <2>2 DEF Rewritten
    <2>3. CASE t # Missing
      <3>1. t \in Texts /\ Holds(t, ch.old)
        BY <1>3, <2>3 DEF Applies, WritesNothing
      <3> DEFINE i == IndexFirstSubSeq(ch.old, t)
      <3>2. i \in 1 .. Len(t) + 1 /\ i + Len(ch.old) \in 1 .. Len(t) + 1 /\ Len(t) \in Nat
        BY <2>1, <3>1, FirstPlace, LenProperties DEF Texts
      <3> HIDE DEF i
      <3>3. SubSeq(t, 1, i - 1) \in Texts /\ SubSeq(t, i + Len(ch.old), Len(t)) \in Texts
        BY <3>1, <3>2, PartIsText
      <3>4. SubSeq(t, 1, i - 1) \o ch.new \in Texts
        BY <2>1, <3>3, ConcatProperties DEF Texts
      <3>5. SubSeq(t, 1, i - 1) \o ch.new \o SubSeq(t, i + Len(ch.old), Len(t)) \in Texts
        BY <3>3, <3>4, ConcatProperties DEF Texts
      <3>6. ReplaceFirstSubSeq(ch.new, ch.old, t) \in Texts
        BY <3>1, <3>5, Zenon DEF ReplaceFirstSubSeq, ReplaceSubSeqAt, Holds, i
      <3> QED
        BY <1>3, <2>3, <3>6 DEF Rewritten
    <2> QED
      BY <2>2, <2>3
  <1>4. CASE ch.type = "replace_range"
    <2>1. ch.new \in Texts /\ t \in Texts /\ RangeOK(t, ch.from, ch.to)
      BY <1>4 DEF Changes, Applies
    <2> DEFINE i == LineStart(t, ch.from)
               j == LineEnd(t, ch.to)
    <2>2. i \in 1 .. Len(t) + 1 /\ j \in 0 .. Len(t) /\ Len(t) \in Nat
      <3>1. ch.from \in 1 .. LineCount(t) /\ ch.to \in 1 .. LineCount(t) 
        BY <2>1 DEF RangeOK
      <3> QED
        BY <2>1, <3>1, LinesBegin, LinesEnd, LenProperties DEF Texts
    <2> HIDE DEF i, j
    <2>4. SubSeq(t, 1, i - 1) \in Texts /\ SubSeq(t, j + 1, Len(t)) \in Texts
      BY <2>1, <2>2, PartIsText
    <2>5. SubSeq(t, 1, i - 1) \o ch.new \in Texts
      BY <2>1, <2>4, ConcatProperties DEF Texts
    <2>6. SubSeq(t, 1, i - 1) \o ch.new \o SubSeq(t, j + 1, Len(t)) \in Texts
      BY <2>4, <2>5, ConcatProperties DEF Texts
    <2> QED
      BY <1>4, <2>6 DEF Rewritten, i, j
  <1>5. CASE ch.type \in {"insert_before", "insert_after"}
    <2>1. ch.new \in Texts /\ ch.anchor \in Texts /\ t \in Texts /\ Holds(t, ch.anchor)
      BY <1>5 DEF Changes, Applies
    <2>2. /\ IndexFirstSubSeq(ch.anchor, t) \in 1 .. Len(t) + 1
          /\ IndexFirstSubSeq(ch.anchor, t) + Len(ch.anchor) \in 1 .. Len(t) + 1
          /\ Len(t) \in Nat
      BY <2>1, FirstPlace, LenProperties DEF Texts
    <2>3. /\ Insert(t, IndexFirstSubSeq(ch.anchor, t), ch.new) \in Texts
          /\ Insert(t, IndexFirstSubSeq(ch.anchor, t) + Len(ch.anchor), ch.new) \in Texts
      BY <2>1, <2>2, InsertIsText
    <2> QED
      BY <1>5, <2>3 DEF Rewritten
  <1> QED
    BY <1>1, <1>2, <1>3, <1>4, <1>5 DEF Rewrites

-----------------------------------------------------------------------------
\* Types

\* What is submitted are batches, and an open file is there and open for the call that is
\* to fill it.
StoreOK ==
    /\ profile \in Profiles /\ made \in 0 .. MaxBatches /\ edits \subseteq Used
    /\ batch \in [Ids -> Batches \cup {<<>>}] /\ \A n \in Used : batch[n] \in Batches
CallsOK ==
    /\ pc \in [Clients -> Steps] /\ work \in [Clients -> 0 .. MaxBatches]
    /\ patch \in [Clients -> BOOLEAN] /\ at \in [Clients -> Nat] /\ text \in [Clients -> Texts]
    /\ \A c \in Clients : pc[c] # "idle" => work[c] \in Used /\ at[c] \in DOMAIN batch[work[c]]
FilesOK ==
    /\ file \in [Files -> Texts \cup {Missing}] /\ opened \in [Clients -> Files \cup {Missing}]
    /\ \A c \in Clients : opened[c] # Missing => pc[c] = "fill" /\ file[opened[c]] # Missing
HistoryOK ==
    /\ done \in [Ids -> Nat] /\ outcome \in [Ids -> Outcomes]
    /\ disturbed \subseteq Used /\ foreign \in 0 .. MaxForeign
    /\ base \in [Ids -> [Files -> Texts \cup {Missing}]]
\* A call is at a change of the type that its step is for.
FitOK ==
    \A c \in Clients :
        /\ pc[c] \in {"target", "rename"} => Current(c).type = "rename"
        /\ pc[c] = "remove" => Current(c).type = "delete"
        /\ pc[c] \in {"open", "fill"} => Current(c).type \in Rewrites \cup {"overwrite"}
TypeInv == StoreOK /\ CallsOK /\ FilesOK /\ HistoryOK

\* The invariant gives the types of the model, and those CarriedInv begins with.
LEMMA TypeInvTyped == TypeInv => TypeOK /\ Typed
  <1>1. TypeInv => TypeOK
    BY DEF TypeInv, StoreOK, CallsOK, FilesOK, HistoryOK, TypeOK
  <1>2. TypeInv => Typed
    BY EditsAssumption DEF TypeInv, StoreOK, CallsOK, HistoryOK, Typed, Used, Ids
  <1> QED
    BY <1>1, <1>2

\* The change a call is at.
LEMMA CurrentIs ==
    ASSUME TypeInv, NEW c \in Clients, pc[c] # "idle"
    PROVE  /\ work[c] \in Used /\ work[c] \in Ids /\ batch[work[c]] \in Seq(Changes(Files))
           /\ Len(batch[work[c]]) \in Nat /\ at[c] \in 1 .. Len(batch[work[c]])
           /\ DOMAIN batch[work[c]] = 1 .. Len(batch[work[c]])
           /\ Current(c) \in Changes(Files) /\ Current(c).path \in Files
           /\ Current(c).type = "rename" => Current(c).target \in Files
  <1>1. work[c] \in Used /\ at[c] \in DOMAIN batch[work[c]] /\ batch[work[c]] \in Batches
    BY DEF TypeInv, CallsOK, StoreOK
  <1>2. work[c] \in Ids
    BY <1>1, EditsAssumption DEF TypeInv, StoreOK, Used, Ids
  <1>3. batch[work[c]] \in Seq(Changes(Files))
    BY <1>1, EditsAssumption
  <1>4. /\ Len(batch[work[c]]) \in Nat /\ DOMAIN batch[work[c]] = 1 .. Len(batch[work[c]])
        /\ Current(c) \in Changes(Files)
    BY <1>1, <1>3, LenProperties, ElementOfSeq DEF Current
  <1>5. Current(c).path \in Files /\ (Current(c).type = "rename" => Current(c).target \in Files)
    BY <1>4 DEF Changes
  <1> QED
    BY <1>1, <1>2, <1>3, <1>4, <1>5

\* The ends of a call, and its ways on.
LEMMA ReturnTypes ==
    ASSUME TypeInv, NEW c \in Clients, Return(c), UNCHANGED <<made, batch>> PROVE CallsOK'
  <1>1. <<>> \in Texts
    BY DEF Texts
  <1> QED
    BY <1>1, EditsAssumption DEF TypeInv, CallsOK, Return, Steps, Used

LEMMA AdvanceTypes ==
    ASSUME TypeInv, NEW c \in Clients, pc[c] # "idle", Advance(c)
    PROVE  StoreOK' /\ CallsOK' /\ done' \in [Ids -> Nat] /\ outcome' \in [Ids -> Outcomes]
             /\ UNCHANGED <<base, foreign>>
  <1>1. StoreOK' /\ UNCHANGED <<base, foreign>>
    BY DEF TypeInv, StoreOK, Advance, server, Used
  <1>2. done' \in [Ids -> Nat]
    BY CurrentIs DEF TypeInv, HistoryOK, Advance
  <1>3. outcome' \in [Ids -> Outcomes]
    BY DEF TypeInv, HistoryOK, Advance, Outcomes
  <1>4. CASE IsLast(c)
    <2>1. Return(c) /\ UNCHANGED <<made, batch>>
      BY <1>4 DEF Advance, server
    <2> QED
      BY <1>1, <1>2, <1>3, <2>1, ReturnTypes
  <1>5. CASE ~IsLast(c)
    <2>1. at[c] + 1 \in DOMAIN batch[work[c]] /\ <<>> \in Texts /\ at[c] + 1 \in Nat
      BY <1>5, CurrentIs DEF IsLast, Texts
    <2>2. /\ pc' = [pc EXCEPT ![c] = "apply"] /\ at' = [at EXCEPT ![c] = at[c] + 1]
          /\ text' = [text EXCEPT ![c] = <<>>] /\ UNCHANGED <<work, patch, made, batch>>
      BY <1>5 DEF Advance, Goto, server
    <2>3. CallsOK'
      BY <2>1, <2>2 DEF TypeInv, CallsOK, Steps, Applying, Used
    <2> QED
      BY <1>1, <1>2, <1>3, <2>3
  <1> QED
    BY <1>1, <1>2, <1>3, <1>4, <1>5

LEMMA FailTypes ==
    ASSUME TypeInv, NEW c \in Clients, pc[c] # "idle", NEW why \in Outcomes, Fail(c, why),
           UNCHANGED <<file, disturbed>>
    PROVE  TypeInv'
  <1>1. CallsOK'
    BY ReturnTypes DEF Fail, server
  <1>2. StoreOK' /\ FilesOK'
    BY DEF TypeInv, StoreOK, FilesOK, Fail, Return, server, Used
  <1>3. HistoryOK'
    BY DEF TypeInv, HistoryOK, Fail, Outcomes, server, Used
  <1> QED
    BY <1>1, <1>2, <1>3 DEF TypeInv

LEMMA RejectTypes ==
    ASSUME TypeInv, NEW c \in Clients, pc[c] \in Previewing, Reject(c) PROVE TypeInv'
  <1>1. CallsOK'
    BY ReturnTypes DEF Reject, server
  <1>2. StoreOK' /\ FilesOK' /\ HistoryOK'
    BY DEF TypeInv, StoreOK, FilesOK, HistoryOK, Reject, Return, server, history, Used, Previewing
  <1> QED
    BY <1>1, <1>2 DEF TypeInv

LEMMA AcceptTypes ==
    ASSUME TypeInv, NEW c \in Clients, pc[c] \in Previewing, Accept(c) PROVE TypeInv'
  <1>0. pc[c] # "idle"
    BY DEF Previewing
  <1>1. FilesOK'
    <2>1. \E l \in Steps : pc' = [pc EXCEPT ![c] = l]
      BY DEF Accept, Return, Goto, Steps, Applying
    <2>2. UNCHANGED <<file, opened>>
      BY DEF Accept
    <2> QED
      BY <2>1, <2>2 DEF TypeInv, FilesOK, CallsOK, Previewing
  <1>6. HistoryOK' /\ UNCHANGED <<made, batch>>
    BY DEF TypeInv, HistoryOK, Accept, history, Used
  <1>2. StoreOK'
    BY <1>0, CurrentIs DEF TypeInv, StoreOK, Accept, Used
  <1>3. CASE ~IsLast(c)
    <2>1. at[c] + 1 \in DOMAIN batch[work[c]] /\ at[c] + 1 \in Nat
      BY <1>0, <1>3, CurrentIs DEF IsLast
    <2>2. /\ pc' = [pc EXCEPT ![c] = "preview"] /\ at' = [at EXCEPT ![c] = at[c] + 1]
          /\ UNCHANGED <<work, patch, text>>
      BY <1>3 DEF Accept, Goto
    <2>3. CallsOK'
      BY <1>0, <1>6, <2>1, <2>2 DEF TypeInv, CallsOK, Steps, Used
    <2> QED
      BY <1>1, <1>2, <1>6, <2>3 DEF TypeInv
  <1>4. CASE IsLast(c) /\ patch[c]
    <2>1. 1 \in DOMAIN batch[work[c]]
      BY <1>0, CurrentIs
    <2>2. /\ pc' = [pc EXCEPT ![c] = "apply"] /\ at' = [at EXCEPT ![c] = 1]
          /\ UNCHANGED <<work, patch, text>>
      BY <1>4 DEF Accept, Goto
    <2>3. CallsOK'
      BY <1>0, <1>6, <2>1, <2>2 DEF TypeInv, CallsOK, Steps, Applying, Used
    <2> QED
      BY <1>1, <1>2, <1>6, <2>3 DEF TypeInv
  <1>5. CASE IsLast(c) /\ ~patch[c]
    <2>1. CallsOK'
      BY <1>5, <1>6, ReturnTypes DEF Accept
    <2> QED
      BY <1>1, <1>2, <1>6, <2>1 DEF TypeInv
  <1> QED
    BY <1>3, <1>4, <1>5

\* Steps that leave the files alone.
LEMMA QuietTypes ==
    ASSUME TypeInv, NEW c \in Clients,
           \/ \E b \in Batches : PreviewEdit(c, b) \/ ApplyPatch(c, b)
           \/ \E n \in Ids : Confirm(c, n) \/ ConfirmRefused(c, n)
           \/ PreviewOne(c) \/ PreviewTarget(c) \/ PreviewFails(c) \/ OperationFails(c)
    PROVE  TypeInv'
  <1>1. ASSUME NEW b \in Batches, PreviewEdit(c, b) \/ ApplyPatch(c, b) PROVE TypeInv'
    <2>1. /\ pc[c] = "idle" /\ made + 1 \in Ids /\ made' = made + 1
          /\ batch' = [batch EXCEPT ![made + 1] = b] /\ base' = [base EXCEPT ![made + 1] = file]
          /\ pc' = [pc EXCEPT ![c] = "preview"] /\ work' = [work EXCEPT ![c] = made + 1]
          /\ at' = [at EXCEPT ![c] = 1]
          /\ UNCHANGED <<profile, file, edits, text, opened, done, outcome, disturbed, foreign>>
      BY <1>1, EditsAssumption
         DEF PreviewEdit, ApplyPatch, Submit, Goto, TypeInv, CallsOK, StoreOK, Ids
    <2>6. patch' \in [Clients -> BOOLEAN]
      BY <1>1 DEF PreviewEdit, ApplyPatch, TypeInv, CallsOK
    <2>2. 1 \in DOMAIN b
      <3>1. b \in Seq(Changes(Files)) /\ b # <<>>
        BY EditsAssumption
      <3> QED
        BY <3>1, EmptySeq, LenProperties
    <2>3. StoreOK'
      BY <2>1 DEF TypeInv, StoreOK, Used, Ids
    <2>4. CallsOK'
      <3>1. made \in Nat /\ made + 1 \in 0 .. MaxBatches /\ Used' = 1 .. made + 1 /\ Used \subseteq Used'
        BY <2>1, EditsAssumption DEF TypeInv, StoreOK, Used, Ids
      <3>2. \A d \in Clients : pc'[d] # "idle" => work'[d] \in Used' /\ at'[d] \in DOMAIN batch'[work'[d]]
        <4>1. batch'[made + 1] = b /\ \A n \in Used : batch'[n] = batch[n]
          BY <2>1, <3>1 DEF TypeInv, StoreOK, Used, Ids
        <4>2. work'[c] = made + 1 /\ at'[c] = 1 /\ made + 1 \in Used'
          BY <2>1, <3>1 DEF TypeInv, CallsOK
        <4>3. \A d \in Clients \ {c} : pc'[d] = pc[d] /\ work'[d] = work[d] /\ at'[d] = at[d]
          BY <2>1 DEF TypeInv, CallsOK
        <4> QED
          BY <2>2, <3>1, <4>1, <4>2, <4>3 DEF TypeInv, CallsOK
      <3> QED
        BY <2>1, <2>6, <3>1, <3>2 DEF TypeInv, CallsOK, Steps
    <2>5. FilesOK' /\ HistoryOK'
      BY <2>1 DEF TypeInv, FilesOK, HistoryOK, StoreOK, Used
    <2> QED
      BY <2>3, <2>4, <2>5 DEF TypeInv
  <1>2. ASSUME NEW n \in Ids, Confirm(c, n) PROVE TypeInv'
    <2>1. /\ pc[c] = "idle" /\ n \in edits /\ edits' = edits \ {n}
          /\ pc' = [pc EXCEPT ![c] = "apply"] /\ work' = [work EXCEPT ![c] = n]
          /\ at' = [at EXCEPT ![c] = 1]
          /\ UNCHANGED <<profile, file, made, batch, patch, text, opened>>
          /\ UNCHANGED <<base, done, outcome, disturbed, foreign>>
      BY <1>2 DEF Confirm, TakeFromStore, Goto, history
    <2>2. n \in Used /\ 1 \in DOMAIN batch[n]
      <3>1. n \in Used /\ batch[n] \in Seq(Changes(Files)) /\ batch[n] # <<>>
        BY <2>1, EditsAssumption DEF TypeInv, StoreOK
      <3> QED
        BY <3>1, EmptySeq, LenProperties
    <2>3. CallsOK'
      BY <2>1, <2>2, EditsAssumption DEF TypeInv, StoreOK, CallsOK, Used, Ids, Steps, Applying
    <2>4. StoreOK' /\ FilesOK' /\ HistoryOK'
      BY <2>1 DEF TypeInv, StoreOK, FilesOK, HistoryOK, Used
    <2> QED
      BY <2>3, <2>4 DEF TypeInv
  <1>3. ASSUME NEW n \in Ids, ConfirmRefused(c, n) PROVE TypeInv'
    BY <1>3 DEF ConfirmRefused, TakeFromStore, calls, TypeInv, StoreOK, CallsOK, FilesOK,
                HistoryOK, Used, Outcomes
  <1>4. CASE PreviewOne(c)
    <2>1. pc[c] \in Previewing
      BY <1>4 DEF PreviewOne, Previewing
    <2>2. CASE Goto(c, "target") /\
                UNCHANGED <<file, server, work, patch, at, text, opened, history>>
      BY <2>1, <2>2 DEF Goto, server, history, Previewing, Steps, TypeInv, StoreOK, CallsOK,
                        FilesOK, HistoryOK, Used
    <2> QED
      BY <1>4, <2>1, <2>2, AcceptTypes, RejectTypes DEF PreviewOne
  <1>5. CASE PreviewTarget(c) \/ PreviewFails(c)
    BY <1>5, AcceptTypes, RejectTypes DEF PreviewTarget, PreviewFails, Previewing
  <1>6. CASE OperationFails(c)
    BY <1>6, FailTypes DEF OperationFails, Outcomes
  <1> QED
    BY <1>1, <1>2, <1>3, <1>4, <1>5, <1>6

\* apply_one before it writes.
LEMMA ApplyTypes ==
    ASSUME TypeInv, NEW c \in Clients, ApplyOne(c) PROVE TypeInv'
  <1> DEFINE ch == Current(c)
  <1>0. pc[c] = "apply" /\ UNCHANGED <<file, disturbed>>
    BY DEF ApplyOne
  <1>1. ch \in Changes(Files) /\ ch.path \in Files
    BY <1>0, CurrentIs
  <1>2. CASE Fail(c, "refused")
    BY <1>0, <1>2, FailTypes DEF Outcomes
  <1>3. CASE Advance(c) /\ UNCHANGED opened
    <2>1. StoreOK' /\ CallsOK' /\ HistoryOK'
      BY <1>0, <1>3, AdvanceTypes DEF TypeInv, HistoryOK, StoreOK, Used, Advance, server
    <2>2. FilesOK'
      <3>1. \E l \in Steps : pc' = [pc EXCEPT ![c] = l]
        BY <1>3 DEF Advance, Return, Goto, Steps, Applying
      <3> QED
        BY <1>0, <1>3, <3>1 DEF TypeInv, FilesOK, CallsOK
    <2> QED
      BY <2>1, <2>2 DEF TypeInv
  <1>4. CASE /\ \E l \in {"rename", "remove", "open"} : Goto(c, l)
             /\ UNCHANGED <<server, work, patch, at, opened, base, done, outcome, foreign>>
             /\ \/ text' = text
                \/ ch.type = "overwrite" /\ text' = [text EXCEPT ![c] = ch.new]
                \/ /\ ch.type \in Rewrites /\ Applies(ch, file[ch.path])
                   /\ ~WritesNothing(ch, file[ch.path])
                   /\ text' = [text EXCEPT ![c] = Rewritten(ch, file[ch.path])]
    <2>1. CASE text' = text
      BY <1>0, <1>4, <2>1 DEF Goto, server, Steps, Applying, TypeInv, StoreOK, CallsOK, FilesOK,
                              HistoryOK, Used
    <2>2. ASSUME NEW t \in Texts, text' = [text EXCEPT ![c] = t] PROVE TypeInv'
      BY <1>0, <1>4, <2>2 DEF Goto, server, Steps, Applying, TypeInv, StoreOK, CallsOK, FilesOK,
                              HistoryOK, Used
    <2>3. CASE /\ ch.type \in Rewrites /\ Applies(ch, file[ch.path])
               /\ ~WritesNothing(ch, file[ch.path])
               /\ text' = [text EXCEPT ![c] = Rewritten(ch, file[ch.path])]
      <3>1. file[ch.path] \in Texts \cup {Missing} /\ Newline \in Tokens /\ Missing \notin Texts
        BY <1>1, EditsAssumption DEF TypeInv, FilesOK
      <3> HIDE DEF ch
      <3>2. Rewritten(ch, file[ch.path]) \in Texts
        BY <1>1, <2>3, <3>1, RewrittenIsText
      <3> QED
        BY <2>2, <2>3, <3>2
    <2>4. CASE ch.type = "overwrite" /\ text' = [text EXCEPT ![c] = ch.new]
      <3>1. ch.new \in Texts
        BY <1>1, <2>4 DEF Changes
      <3> QED
        BY <2>2, <2>4, <3>1
    <2> QED
      BY <1>4, <2>1, <2>3, <2>4
  <1> QED
    BY <1>2, <1>3, <1>4 DEF ApplyOne

\* Over keeps a text a text.
LEMMA OverIsText ==
    ASSUME NEW s \in Texts, NEW t \in Texts PROVE Over(s, t) \in Texts
  <1>1. Len(s) \in Nat /\ Len(t) \in Nat
    BY LenProperties DEF Texts
  <1>2. SubSeq(t, Len(s) + 1, Len(t)) \in Texts
    BY <1>1, PartIsText
  <1> QED
    BY <1>2, ConcatProperties DEF Over, Texts

\* The steps that write.
LEMMA DisturbTypes ==
    ASSUME TypeInv, NEW n, NEW fs, Disturb(n, fs) PROVE disturbed' \subseteq Used
  BY DEF Disturb, TypeInv, HistoryOK

LEMMA WriteTypes ==
    ASSUME TypeInv, FitOK, NEW c \in Clients, OpenToWrite(c) \/ Fill(c) \/ RenameFile(c) \/ Delete(c)
    PROVE  TypeInv'
  <1>1. CASE OpenToWrite(c)
    <2> PICK f \in Files : f = Current(c).path
      BY <1>1, CurrentIs DEF OpenToWrite
    <2>1. /\ pc[c] = "open" /\ file' = [file EXCEPT ![f] = <<>>] /\ opened' = [opened EXCEPT ![c] = f]
          /\ Disturb(work[c], {f}) /\ pc' = [pc EXCEPT ![c] = "fill"]
          /\ UNCHANGED <<profile, edits, made, batch, work, patch, at, text, base, done, outcome, foreign>>
      BY <1>1 DEF OpenToWrite, Goto, server
    <2>2. StoreOK' /\ CallsOK'
      BY <2>1 DEF TypeInv, StoreOK, CallsOK, Used, Steps, Applying
    <2>3. FilesOK'
      <3>0. <<>> \in Texts
        BY DEF Texts
      <3>1. <<>> \in Texts /\ <<>> # Missing
        BY <3>0, EditsAssumption
      <3> QED
        BY <2>1, <3>1 DEF TypeInv, FilesOK, CallsOK
    <2>4. HistoryOK'
      BY <2>1, DisturbTypes DEF TypeInv, HistoryOK, Used
    <2> QED
      BY <2>2, <2>3, <2>4 DEF TypeInv
  <1>2. CASE ~OpenToWrite(c) /\ ~Advance(c)
    <2>1. pc[c] # "idle" /\ Fail(c, "refused") /\ UNCHANGED <<file, disturbed>>
      BY <1>2 DEF Fill, RenameFile, Delete
    <2> QED
      BY <2>1, FailTypes DEF Outcomes
  <1>3. CASE Advance(c) /\ (Fill(c) \/ RenameFile(c) \/ Delete(c))
    <2>1. pc[c] \in {"fill", "rename", "remove"}
      BY <1>3 DEF Fill, RenameFile, Delete
    <2>2. \E l \in Steps : pc' = [pc EXCEPT ![c] = l]
      BY <1>3 DEF Advance, Return, Goto, Steps, Applying
    <2>3. StoreOK' /\ CallsOK' /\ HistoryOK'
      <3>1. disturbed' \subseteq Used'
        <4>1. disturbed' \subseteq Used
          BY <1>3, DisturbTypes DEF Fill, RenameFile, Delete, Fail, TypeInv, HistoryOK
        <4> QED
          BY <1>3, <4>1 DEF Advance, server, Used
      <3> QED
        BY <1>3, <2>1, <3>1, AdvanceTypes DEF TypeInv, HistoryOK
    <2>4. ASSUME Fill(c) PROVE FilesOK'
      <3>1. CASE opened[c] = Missing
        <4>1. file' = file /\ opened' = [opened EXCEPT ![c] = Missing]
          BY <2>4, <3>1 DEF Fill
        <4> QED
          BY <2>2, <4>1 DEF TypeInv, FilesOK, CallsOK
      <3>2. CASE opened[c] # Missing
        <4>1. PICK f \in Files : f = opened[c]
          BY <3>2 DEF TypeInv, FilesOK
        <4>2. file[f] \in Texts /\ text[c] \in Texts
          BY <3>2, <4>1 DEF TypeInv, FilesOK, CallsOK
        <4>3. PICK t \in Texts : t # Missing /\ t = Over(text[c], file[f])
          BY <4>2, OverIsText, EditsAssumption
        <4>4. file' = [file EXCEPT ![f] = t] /\ opened' = [opened EXCEPT ![c] = Missing]
          BY <2>4, <3>2, <4>1, <4>3 DEF Fill
        <4> QED
          BY <2>2, <4>3, <4>4 DEF TypeInv, FilesOK, CallsOK
      <3> QED
        BY <3>1, <3>2
    <2>5. ASSUME RenameFile(c) PROVE FilesOK'
      <3>1. Current(c).type = "rename"
        BY <2>5 DEF FitOK, RenameFile
      <3> PICK f \in Files, g \in Files : f = Current(c).path /\ g = Current(c).target
        BY <2>1, <3>1, CurrentIs
      <3>2. opened[c] = Missing
        BY <2>5 DEF RenameFile, TypeInv, FilesOK
      <3>3. CASE file[f] = Missing
        <4>1. file' = file /\ opened' = [opened EXCEPT ![c] = Missing]
          BY <2>5, <3>3 DEF RenameFile, Fail
        <4> QED
          BY <2>2, <4>1 DEF TypeInv, FilesOK, CallsOK
      <3>4. CASE file[f] # Missing
        <4>1. file' = [file EXCEPT ![f] = Missing, ![g] = file[f]] /\ opened' = Moved(f, g)
          BY <2>5, <3>4 DEF RenameFile
        <4>2. file' \in [Files -> Texts \cup {Missing}] /\ opened' \in [Clients -> Files \cup {Missing}]
          BY <4>1 DEF Moved, TypeInv, FilesOK
        <4>3. ASSUME NEW d \in Clients, opened'[d] # Missing
              PROVE  opened[d] # Missing /\ file'[opened'[d]] # Missing
          <5>1. opened'[d] = IF opened[d] = f THEN g ELSE IF opened[d] = g THEN Missing ELSE opened[d]
            BY <4>1 DEF Moved
          <5>2. file'[g] = file[f] /\ \A h \in Files \ {f, g} : file'[h] = file[h]
            BY <4>1 DEF TypeInv, FilesOK
          <5>3. opened[d] # Missing /\ opened[d] \in Files /\ file[opened[d]] # Missing
            BY <4>3, <5>1, EditsAssumption DEF TypeInv, FilesOK
          <5> QED
            BY <3>4, <4>3, <5>1, <5>2, <5>3
        <4> QED
          BY <2>2, <3>2, <4>2, <4>3 DEF TypeInv, FilesOK, CallsOK
      <3> QED
        BY <3>3, <3>4
    <2>6. ASSUME Delete(c) PROVE FilesOK'
      <3> PICK f \in Files : f = Current(c).path
        BY <2>1, CurrentIs
      <3>2. opened[c] = Missing
        BY <2>6 DEF Delete, TypeInv, FilesOK
      <3>3. CASE file[f] = Missing
        <4>1. file' = file /\ opened' = [opened EXCEPT ![c] = Missing]
          BY <2>6, <3>3 DEF Delete, Fail
        <4> QED
          BY <2>2, <4>1 DEF TypeInv, FilesOK, CallsOK
      <3>4. CASE file[f] # Missing
        <4>1. file' = [file EXCEPT ![f] = Missing] /\ opened' = Unlinked(f)
          BY <2>6, <3>4 DEF Delete
        <4>2. file' \in [Files -> Texts \cup {Missing}] /\ opened' \in [Clients -> Files \cup {Missing}]
          BY <4>1 DEF Unlinked, TypeInv, FilesOK
        <4>3. ASSUME NEW d \in Clients, opened'[d] # Missing
              PROVE  opened[d] # Missing /\ file'[opened'[d]] # Missing
          BY <4>1, <4>3 DEF Unlinked, TypeInv, FilesOK
        <4> QED
          BY <2>2, <3>2, <4>2, <4>3 DEF TypeInv, FilesOK, CallsOK
      <3> QED
        BY <3>3, <3>4
    <2> QED
      BY <1>3, <2>3, <2>4, <2>5, <2>6 DEF TypeInv
  <1> QED
    BY <1>1, <1>2, <1>3

\* Others write texts.
LEMMA ForeignTypes ==
    ASSUME TypeInv, NEW f \in Files, Foreign(f) PROVE TypeInv'
  <1> PICK t \in Texts \cup {Missing} :
          file' = [file EXCEPT ![f] = t] /\ opened' = IF t = Missing THEN Unlinked(f) ELSE opened
    BY EditsAssumption DEF Foreign
  <1>1. StoreOK' /\ CallsOK' /\ pc' = pc
    BY DEF Foreign, server, TypeInv, StoreOK, CallsOK, Used
  <1>2. HistoryOK'
    <2>1. disturbed' \subseteq Used
      BY DisturbTypes DEF Foreign
    <2> QED
      BY <2>1, EditsAssumption DEF Foreign, server, TypeInv, HistoryOK, Used
  <1>3. FilesOK'
    BY <1>1 DEF Unlinked, TypeInv, FilesOK
  <1> QED
    BY <1>1, <1>2, <1>3 DEF TypeInv

\* What was submitted stays as it is.
LEMMA BatchesStay ==
    ASSUME TypeInv, [Next]_vars
    PROVE  Used \subseteq Used' /\ \A n \in Used : batch'[n] = batch[n] /\ base'[n] = base[n]
  <1>1. ASSUME NEW c \in Clients, NEW b \in Batches, Submit(c, b)
        PROVE  Used \subseteq Used' /\ \A n \in Used : batch'[n] = batch[n] /\ base'[n] = base[n]
    BY <1>1 DEF Submit, TypeInv, StoreOK, HistoryOK, Used, Ids
  <1>2. CASE UNCHANGED <<made, batch, base>>
    BY <1>2 DEF Used
  <1>3. ASSUME NEW c \in Clients, Step(c)
        PROVE  (\E b \in Batches : Submit(c, b)) \/ UNCHANGED <<made, batch, base>>
    BY <1>3 DEF Step, PreviewEdit, ApplyPatch, Confirm, ConfirmRefused, PreviewOne,
           PreviewTarget, PreviewFails, ApplyOne, OpenToWrite, Fill, RenameFile, Delete,
           OperationFails, Accept, Reject, Fail, Advance, server, history
  <1>4. ASSUME NEW f \in Files, Foreign(f) PROVE UNCHANGED <<made, batch, base>>
    BY <1>4 DEF Foreign, server
  <1> QED
    BY <1>1, <1>2, <1>3, <1>4 DEF Next, vars, server, history

\* A step of a call leaves the other calls where they are.
LEMMA OthersStay ==
    ASSUME TypeInv, NEW c \in Clients, Step(c), NEW d \in Clients \ {c}
    PROVE  pc'[d] = pc[d] /\ work'[d] = work[d] /\ at'[d] = at[d]
  <1>1. pc \in [Clients -> Steps] /\ work \in [Clients -> 0 .. MaxBatches] /\ at \in [Clients -> Nat]
    BY DEF TypeInv, CallsOK
  <1>2. CASE OfPreview(c)
    BY <1>1, <1>2 DEF OfPreview, Submits, Previews, Offers, Drops, Begins, Returns
  <1>3. CASE OfApply(c)
    BY <1>1, <1>3 DEF OfApply, Goes, GivesUp, GoesOn, Ends, Returns
  <1>4. CASE OfStore(c)
    BY <1>1, <1>4 DEF OfStore, Takes, Refuses
  <1> QED
    BY <1>2, <1>3, <1>4, Kinds, TypeInvTyped

\* A call goes to the step that is for its change.
LEMMA FitSteps ==
    ASSUME TypeInv, FitOK, NEW c \in Clients, Step(c) PROVE FitOK'
  <1> DEFINE Fits(l, ch) ==
          /\ l \in {"target", "rename"} => ch.type = "rename"
          /\ l = "remove" => ch.type = "delete"
          /\ l \in {"open", "fill"} => ch.type \in Rewrites \cup {"overwrite"}
  <1>1. ASSUME NEW d \in Clients \ {c} PROVE Fits(pc'[d], Current(d)')
    <2>1. pc[d] # "idle" => Current(d)' = Current(d)
      <3>1. pc[d] # "idle" => work[d] \in Used
        BY DEF TypeInv, CallsOK
      <3> QED
        BY <3>1, OthersStay, BatchesStay DEF Current, Next
    <2> QED
      BY <2>1, OthersStay DEF FitOK
  <1>2. \/ pc'[c] \in {"idle", "preview", "apply"}
        \/ UNCHANGED <<work, at, batch>> /\ Fits(pc'[c], Current(c))
    <2> DEFINE Stops == pc'[c] \in {"idle", "preview", "apply"}
    <2>0. pc \in [Clients -> Steps]
      BY DEF TypeInv, CallsOK
    <2>1. (Accept(c) => Stops) /\ (Reject(c) => Stops) /\ (Advance(c) => Stops)
      BY <2>0 DEF Accept, Reject, Advance, Return, Goto
    <2>2. ASSUME NEW why, Fail(c, why) PROVE Stops
      BY <2>0, <2>2 DEF Fail, Return
    <2>3. ASSUME NEW b \in Batches, PreviewEdit(c, b) \/ ApplyPatch(c, b) PROVE Stops
      BY <2>0, <2>3 DEF PreviewEdit, ApplyPatch, Submit, Goto
    <2>4. ASSUME NEW n \in Ids, Confirm(c, n) \/ ConfirmRefused(c, n)
          PROVE  Stops \/ UNCHANGED <<pc, work, at, batch>>
      BY <2>0, <2>4 DEF Confirm, ConfirmRefused, Goto, calls
    <2>5. CASE PreviewOne(c)
      <3>1. CASE Accept(c) \/ Reject(c)
        BY <2>1, <3>1
      <3>2. CASE Current(c).type = "rename" /\ pc' = [pc EXCEPT ![c] = "target"]
                    /\ UNCHANGED <<work, at, batch>>
        BY <2>0, <3>2
      <3> QED
        BY <2>5, <3>1, <3>2 DEF PreviewOne, Goto, server
    <2>6. CASE PreviewTarget(c) \/ PreviewFails(c)
      BY <2>1, <2>6 DEF PreviewTarget, PreviewFails
    <2>7. CASE ApplyOne(c)
      <3>1. CASE Advance(c) \/ Fail(c, "refused")
        BY <2>1, <2>2, <3>1
      <3>2. CASE /\ UNCHANGED <<work, at, batch>>
                 /\ \/ Current(c).type = "rename" /\ pc' = [pc EXCEPT ![c] = "rename"]
                    \/ Current(c).type = "delete" /\ pc' = [pc EXCEPT ![c] = "remove"]
                    \/ /\ Current(c).type \in Rewrites \cup {"overwrite"}
                       /\ pc' = [pc EXCEPT ![c] = "open"]
        BY <2>0, <3>2
      <3> QED
        BY <2>7, <3>1, <3>2 DEF ApplyOne, Goto, server
    <2>8. CASE OpenToWrite(c)
      BY <2>0, <2>8 DEF OpenToWrite, Goto, server, FitOK
    <2>9. CASE Fill(c) \/ RenameFile(c) \/ Delete(c) \/ OperationFails(c)
      BY <2>1, <2>2, <2>9 DEF Fill, RenameFile, Delete, OperationFails
    <2>10. Stops \/ UNCHANGED <<pc, work, at, batch>>
              \/ (UNCHANGED <<work, at, batch>> /\ Fits(pc'[c], Current(c)))
      BY <2>3, <2>4, <2>5, <2>6, <2>7, <2>8, <2>9 DEF Step
    <2>11. UNCHANGED <<pc, work, at, batch>> => Fits(pc'[c], Current(c))
      BY DEF FitOK
    <2> QED
      BY <2>10, <2>11
  <1>3. Fits(pc'[c], Current(c)')
    BY <1>2 DEF Current
  <1> QED
    BY <1>1, <1>3 DEF FitOK

LEMMA TypesInitially == Init => TypeInv /\ FitOK
  <1> SUFFICES ASSUME Init PROVE TypeInv /\ FitOK
    OBVIOUS
  <1>1. <<>> \in Texts
    BY DEF Texts
  <1>2. StoreOK /\ CallsOK /\ FitOK
    BY <1>1, EditsAssumption DEF Init, StoreOK, CallsOK, FitOK, Used, Steps
  <1>3. FilesOK /\ HistoryOK
    BY EditsAssumption DEF Init, FilesOK, HistoryOK, Used, Outcomes
  <1> QED
    BY <1>2, <1>3 DEF TypeInv

LEMMA TypesInductive == TypeInv /\ FitOK /\ [Next]_vars => TypeInv' /\ FitOK'
  <1> SUFFICES ASSUME TypeInv, FitOK, [Next]_vars PROVE TypeInv' /\ FitOK'
    OBVIOUS
  <1>1. ASSUME NEW c \in Clients, Step(c) PROVE TypeInv' /\ FitOK'
    BY <1>1, FitSteps, QuietTypes, ApplyTypes, WriteTypes DEF Step
  <1>2. ASSUME NEW f \in Files, Foreign(f) PROVE TypeInv' /\ FitOK'
    <2>1. UNCHANGED <<pc, work, at, batch>>
      BY <1>2 DEF Foreign, server
    <2> QED
      BY <1>2, <2>1, ForeignTypes DEF FitOK, Current
  <1>3. CASE UNCHANGED vars
    BY <1>3 DEF vars, server, calls, history, TypeInv, StoreOK, CallsOK, FilesOK, HistoryOK, FitOK,
                Current, Used
  <1> QED
    BY <1>1, <1>2, <1>3 DEF Next

\* Type correctness (TypeOK), for any clients, files and batches: in particular every text
\* that apply_one makes of a file's lines and of the places it finds (apply.rs 36-104) is
\* a text, cut and put together within its ends, and no write goes to a file that is gone.
THEOREM TypeCorrect == Spec => []TypeOK
  <1> QED
    BY TypesInitially, TypesInductive, TypeInvTyped, PTL DEF Spec

-----------------------------------------------------------------------------
\* What holds of a batch whose files nobody else wrote to

\* Its files are as its first changes leave them, but while the next one is written, and
\* after a write that failed; what is to be written is what the next change makes.
SerialOf(n) ==
    /\ outcome[n] # "torn" /\ ~(\E c \in Clients : work[c] = n /\ pc[c] = "fill") =>
         \A f \in Paths(n) : file[f] = Serially(n)[f]
    /\ \A c \in Clients : work[c] = n /\ pc[c] \in {"open", "fill"} =>
         Made(Current(c), Serially(n)) = [Serially(n) EXCEPT ![Current(c).path] = text[c]]
    /\ \A c \in Clients : work[c] = n /\ pc[c] = "fill" =>
         /\ opened[c] = Current(c).path /\ file[Current(c).path] = <<>>
         /\ \A f \in Paths(n) \ {Current(c).path} : file[f] = Serially(n)[f]

\* What the preview asked of change i, of its text and, of a rename, its target.
Ready(n, i) ==
    /\ PreviewAccepts(batch[n][i], file[batch[n][i].path])
    /\ batch[n][i].type = "rename" => file[batch[n][i].target] = Missing

\* Once previewed, its changes stay as the preview found them until they are made.
PreviewOf(n) ==
    /\ outcome[n] # "refused"
    /\ n \in edits => \A i \in DOMAIN batch[n] : Ready(n, i)
    /\ \A c \in Clients : work[c] = n =>
         /\ pc[c] \in Previewing => \A i \in 1 .. at[c] - 1 : Ready(n, i)
         /\ pc[c] = "target" => PreviewAccepts(Current(c), file[Current(c).path])
         /\ pc[c] \in Applying => \A i \in DOMAIN batch[n] :
              i > at[c] \/ (i = at[c] /\ pc[c] # "fill") => Ready(n, i)

SerialInv  == \A n \in Used \ disturbed : SerialOf(n)
PreviewInv == \A n \in Used \ disturbed : Separate(batch[n]) => PreviewOf(n)


\* The files after the first m changes of s on the files b, and the function Serially is
\* defined by.
After(f, b, s, m) == f = [k \in 0 .. m |-> IF k = 0 THEN b ELSE Made(s[k], f[k - 1])]
Serial(b, s, m) == LET after[k \in 0 .. m] == IF k = 0 THEN b ELSE Made(s[k], after[k - 1]) IN after[m]

LEMMA SeriallyIs == ASSUME NEW n PROVE Serially(n) = Serial(base[n], batch[n], done[n])
  BY DEF Serially, Serial

LEMMA AfterExists ==
    ASSUME NEW b, NEW s, NEW m \in Nat PROVE \E f : After(f, b, s, m)
  <1> DEFINE S == {i \in Nat : \E f : After(f, b, s, i)}
  <1>1. 0 \in S
    <2>1. After([k \in 0 .. 0 |-> b], b, s, 0)
      BY DEF After
    <2> QED
      BY <2>1
  <1>2. ASSUME NEW i \in S PROVE i + 1 \in S
    <2> PICK f : After(f, b, s, i)
      OBVIOUS
    <2> DEFINE g == [k \in 0 .. i + 1 |-> IF k = i + 1 THEN Made(s[i + 1], f[i]) ELSE f[k]]
    <2>1. ASSUME NEW k \in 0 .. i + 1 PROVE g[k] = IF k = 0 THEN b ELSE Made(s[k], g[k - 1])
      BY DEF After
    <2>2. After(g, b, s, i + 1)
      BY <2>1 DEF After
    <2> QED
      BY <2>2
  <1>3. Nat \subseteq S
    <2> HIDE DEF S
    <2> QED
      BY <1>1, <1>2, Induction
  <1> QED
    BY <1>3

\* Two such functions agree as far as both go.
LEMMA AfterUnique ==
    ASSUME NEW b, NEW s, NEW m \in Nat, NEW l \in 0 .. m, NEW f, NEW g,
           After(f, b, s, m), After(g, b, s, l)
    PROVE  \A k \in 0 .. l : f[k] = g[k]
  <1> DEFINE S == {k \in Nat : k <= l => f[k] = g[k]}
  <1>1. 0 \in S
    BY DEF After
  <1>2. ASSUME NEW i \in S PROVE i + 1 \in S
    BY DEF After
  <1>3. Nat \subseteq S
    <2> HIDE DEF S
    <2> QED
      BY <1>1, <1>2, Induction
  <1> QED
    BY <1>3

LEMMA SerialIs ==
    ASSUME NEW b, NEW s, NEW m \in Nat PROVE \E f : After(f, b, s, m) /\ Serial(b, s, m) = f[m]
  <1> DEFINE g == CHOOSE f : After(f, b, s, m)
  <1>1. After(g, b, s, m)
    BY AfterExists, Zenon
  <1>2. Serial(b, s, m) = g[m]
    BY Zenon DEF Serial, After
  <1> QED
    BY <1>1, <1>2

LEMMA SerialSteps ==
    ASSUME NEW b, NEW s
    PROVE  /\ Serial(b, s, 0) = b
           /\ \A m \in Nat : Serial(b, s, m + 1) = Made(s[m + 1], Serial(b, s, m))
  <1>1. Serial(b, s, 0) = b
    BY SerialIs DEF After
  <1>2. ASSUME NEW m \in Nat PROVE Serial(b, s, m + 1) = Made(s[m + 1], Serial(b, s, m))
    <2>1. PICK f : After(f, b, s, m + 1) /\ Serial(b, s, m + 1) = f[m + 1]
      BY SerialIs
    <2>2. PICK g : After(g, b, s, m) /\ Serial(b, s, m) = g[m]
      BY SerialIs
    <2>3. f[m] = g[m]
      BY <2>1, <2>2, AfterUnique
    <2>4. f[m + 1] = Made(s[m + 1], f[m])
      BY <2>1 DEF After
    <2> QED
      BY <2>1, <2>2, <2>3, <2>4
  <1> QED
    BY <1>1, <1>2

\* A change of files is one of files.
OnFiles(fs) == fs = [f \in Files |-> fs[f]]

LEMMA MadeOnFiles == ASSUME NEW ch, NEW fs, OnFiles(fs) PROVE OnFiles(Made(ch, fs))
  BY DEF OnFiles, Made

LEMMA SeriallyOnFiles ==
    ASSUME TypeInv, NEW n \in Ids PROVE OnFiles(Serially(n))
  <1> DEFINE S == {m \in Nat : OnFiles(Serial(base[n], batch[n], m))}
  <1>1. 0 \in S
    BY SerialSteps DEF TypeInv, HistoryOK, OnFiles
  <1>2. ASSUME NEW m \in S PROVE m + 1 \in S
    <2>1. m \in Nat /\ m + 1 \in Nat /\ OnFiles(Serial(base[n], batch[n], m))
      OBVIOUS
    <2>2. OnFiles(Made(batch[n][m + 1], Serial(base[n], batch[n], m)))
      BY <2>1, MadeOnFiles
    <2>3. OnFiles(Serial(base[n], batch[n], m + 1))
      BY <2>1, <2>2, SerialSteps
    <2> QED
      BY <2>1, <2>3
  <1>3. Nat \subseteq S
    <2> HIDE DEF S
    <2> QED
      BY <1>1, <1>2, Induction
  <1> QED
    BY <1>3, SeriallyIs DEF TypeInv, HistoryOK

LEMMA SeriallyNext == ASSUME NEW n PROVE Serially(n)' = Serial(base'[n], batch'[n], done'[n])
  BY DEF Serially, Serial

LEMMA PathsIn ==
    ASSUME TypeInv, NEW n \in Used, NEW i \in DOMAIN batch[n]
    PROVE  /\ batch[n][i] \in Changes(Files)
           /\ batch[n][i].path \in Paths(n) \cap Files
           /\ batch[n][i].type = "rename" => batch[n][i].target \in Paths(n) \cap Files
  <1>1. batch[n] \in Seq(Changes(Files))
    BY EditsAssumption DEF TypeInv, StoreOK
  <1>2. batch[n][i] \in Changes(Files)
    BY <1>1, LenProperties, ElementOfSeq
  <1>3. batch[n][i].path \in Files /\ (batch[n][i].type = "rename" => batch[n][i].target \in Files)
    BY <1>2 DEF Changes
  <1> QED
    BY <1>2, <1>3 DEF Paths, PathsOf

\* Two changes of a batch that touches each file once have no path in common.
LEMMA SeparateIs ==
    ASSUME NEW b, Separate(b), NEW i \in DOMAIN b, NEW j \in DOMAIN b, i # j
    PROVE  /\ b[i].path # b[j].path
           /\ b[i].type = "rename" => b[i].target # b[j].path
           /\ b[j].type = "rename" => b[i].path # b[j].target
           /\ b[i].type = "rename" /\ b[j].type = "rename" => b[i].target # b[j].target
  <1>1. PathsOf(<<b[i]>>) \cap PathsOf(<<b[j]>>) = {}
    BY DEF Separate
  <1>2. ASSUME NEW ch PROVE ch.path \in PathsOf(<<ch>>) /\ (ch.type = "rename" => ch.target \in PathsOf(<<ch>>))
    <2>1. 1 \in DOMAIN <<ch>> /\ <<ch>>[1] = ch
      OBVIOUS
    <2> QED
      BY <2>1, Zenon DEF PathsOf
  <1> QED
    BY <1>1, <1>2

\* What a preview accepts can be made.
LEMMA AcceptedApplies ==
    ASSUME NEW ch, NEW t, PreviewAccepts(ch, t), ch.type \in Rewrites PROVE Applies(ch, t)
  BY DEF PreviewAccepts, Applies, Rewrites

LEMMA ReadyStays ==
    ASSUME NEW n, NEW i, Ready(n, i), batch'[n] = batch[n],
           file'[batch[n][i].path] = file[batch[n][i].path],
           batch[n][i].type = "rename" => file'[batch[n][i].target] = file[batch[n][i].target]
    PROVE  Ready(n, i)'
  BY DEF Ready

\* What a step leaves of a batch that it is not a step of.
Apart(n) ==
    /\ n \in Used /\ n \notin disturbed
    /\ \A f \in Paths(n) : file'[f] = file[f]
    /\ batch'[n] = batch[n] /\ base'[n] = base[n] /\ done'[n] = done[n]
    /\ outcome'[n] = outcome[n] \/ (outcome[n] = "none" /\ outcome'[n] = "failed")
    /\ n \in edits' => n \in edits
    /\ \A d \in Clients : work'[d] = n <=> work[d] = n
    /\ \A d \in Clients : work[d] = n =>
         /\ pc'[d] = pc[d] /\ at'[d] = at[d] /\ text'[d] = text[d]
         /\ opened[d] \in Paths(n) => opened'[d] = opened[d]

LEMMA ApartStays ==
    ASSUME TypeInv, NEW n, Apart(n)
    PROVE  /\ SerialOf(n) => SerialOf(n)'
           /\ PreviewOf(n) => PreviewOf(n)'
  <1>1. /\ Paths(n)' = Paths(n) /\ Serially(n)' = Serially(n)
        /\ \A d \in Clients : work[d] = n => Current(d)' = Current(d)
    BY SeriallyIs, SeriallyNext DEF Apart, Paths, Current
  <1>2. \A i \in DOMAIN batch[n] : Ready(n, i) => Ready(n, i)'
    BY PathsIn, ReadyStays DEF Apart
  <1>3. ASSUME NEW d \in Clients, work[d] = n, pc[d] # "idle"
        PROVE  at[d] \in DOMAIN batch[n] /\ Current(d) = batch[n][at[d]] /\ Current(d).path \in Paths(n)
    BY <1>3, PathsIn DEF TypeInv, CallsOK, Current
  <1>4. ASSUME SerialOf(n) PROVE SerialOf(n)'
    <2>1. outcome'[n] # "torn" => outcome[n] # "torn"
      BY DEF Apart
    <2>2. (\E d \in Clients : work'[d] = n /\ pc'[d] = "fill")
             <=> (\E d \in Clients : work[d] = n /\ pc[d] = "fill")
      BY DEF Apart
    <2>3. (outcome[n] # "torn" /\ ~(\E c \in Clients : work[c] = n /\ pc[c] = "fill") =>
             \A f \in Paths(n) : file[f] = Serially(n)[f])'
      BY <1>1, <1>4, <2>1, <2>2 DEF SerialOf, Apart
    <2>4. ASSUME NEW d \in Clients, work'[d] = n, pc'[d] \in {"open", "fill"}
          PROVE  Made(Current(d)', Serially(n)') = [Serially(n)' EXCEPT ![Current(d)'.path] = text'[d]]
      BY <1>1, <1>4, <2>4 DEF SerialOf, Apart
    <2>5. ASSUME NEW d \in Clients, work'[d] = n, pc'[d] = "fill"
          PROVE  /\ opened'[d] = Current(d)'.path /\ file'[Current(d)'.path] = <<>>
                 /\ \A f \in Paths(n)' \ {Current(d)'.path} : file'[f] = Serially(n)'[f]
      BY <1>1, <1>3, <1>4, <2>5 DEF SerialOf, Apart
    <2> QED
      BY <2>3, <2>4, <2>5 DEF SerialOf
  <1>5. ASSUME PreviewOf(n) PROVE PreviewOf(n)'
    <2>1. outcome'[n] # "refused"
      BY <1>5 DEF PreviewOf, Apart
    <2>2. n \in edits' => \A i \in DOMAIN batch'[n] : Ready(n, i)'
      BY <1>2, <1>5 DEF PreviewOf, Apart
    <2>3. ASSUME NEW d \in Clients, work'[d] = n
          PROVE  /\ pc'[d] \in Previewing => \A i \in 1 .. at'[d] - 1 : Ready(n, i)'
                 /\ pc'[d] = "target" => PreviewAccepts(Current(d), file[Current(d).path])'
                 /\ pc'[d] \in Applying => \A i \in DOMAIN batch'[n] :
                      i > at'[d] \/ (i = at'[d] /\ pc'[d] # "fill") => Ready(n, i)'
      <3>1. work[d] = n /\ pc'[d] = pc[d] /\ at'[d] = at[d] /\ batch'[n] = batch[n]
        BY <2>3 DEF Apart
      <3>2. ASSUME pc[d] \in Previewing PROVE \A i \in 1 .. at[d] - 1 : Ready(n, i)'
        <4>1. \A i \in 1 .. at[d] - 1 : i \in DOMAIN batch[n]
          BY <3>1, <3>2, CurrentIs DEF Previewing
        <4> QED
          BY <1>2, <1>5, <3>1, <3>2, <4>1 DEF PreviewOf
      <3>3. ASSUME pc[d] = "target" PROVE PreviewAccepts(Current(d), file[Current(d).path])'
        <4>1. Current(d)' = Current(d) /\ file'[Current(d).path] = file[Current(d).path]
          BY <1>1, <1>3, <3>1, <3>3 DEF Apart
        <4> QED
          BY <1>5, <3>1, <3>3, <4>1 DEF PreviewOf
      <3>4. ASSUME pc[d] \in Applying, NEW i \in DOMAIN batch[n],
                   i > at[d] \/ (i = at[d] /\ pc[d] # "fill")
            PROVE  Ready(n, i)'
        BY <1>2, <1>5, <3>1, <3>4 DEF PreviewOf
      <3> QED
        BY <3>1, <3>2, <3>3, <3>4
    <2> QED
      BY <2>1, <2>2, <2>3 DEF PreviewOf
  <1> QED
    BY <1>4, <1>5

\* What a step of a call does to the files, and who is disturbed by it.
LEMMA Writes ==
    ASSUME TypeInv, FitOK, NEW c \in Clients, Step(c)
    PROVE  /\ \A d \in Clients \ {c} : text'[d] = text[d]
           /\ \E fs \in SUBSET Files :
                /\ disturbed' = disturbed \cup {m \in Used : m # work[c] /\ Paths(m) \cap fs # {}}
                /\ \A f \in Files \ fs : file'[f] = file[f]
                /\ \A d \in Clients \ {c} : opened[d] \notin fs => opened'[d] = opened[d]
  <1> DEFINE Others(fs) ==
                /\ disturbed' = disturbed \cup {m \in Used : m # work[c] /\ Paths(m) \cap fs # {}}
                /\ \A f \in Files \ fs : file'[f] = file[f]
                /\ \A d \in Clients \ {c} : opened[d] \notin fs => opened'[d] = opened[d]
             Texted == \A d \in Clients \ {c} : text'[d] = text[d]
             Quiet == /\ UNCHANGED <<file, disturbed>> /\ Texted
                      /\ opened' = opened \/ opened' = [opened EXCEPT ![c] = Missing]
             Goal == Texted /\ \E fs \in SUBSET Files : Others(fs)
  <1>0. text \in [Clients -> Texts] /\ opened \in [Clients -> Files \cup {Missing}]
    BY DEF TypeInv, CallsOK, FilesOK
  <1>1. ASSUME Quiet PROVE Goal
    <2>1. Others({})
      BY <1>0, <1>1
    <2> QED
      BY <1>1, <2>1
  <1>2. ASSUME Return(c) PROVE Texted
    BY <1>0, <1>2 DEF Return
  <1>3. ASSUME Advance(c) PROVE Texted
    BY <1>0, <1>3 DEF Advance, Return
  <1>4. ASSUME NEW why, Fail(c, why), UNCHANGED <<file, disturbed>> PROVE Goal
    BY <1>1, <1>2, <1>4 DEF Fail
  <1>5. ASSUME Accept(c) \/ Reject(c) PROVE Goal
    <2>1. UNCHANGED <<file, opened, disturbed>>
      BY <1>5 DEF Accept, Reject, history
    <2>2. Texted
      BY <1>2, <1>5 DEF Accept, Reject
    <2> QED
      BY <1>1, <2>1, <2>2
  <1>6. ASSUME NEW b \in Batches, PreviewEdit(c, b) \/ ApplyPatch(c, b) PROVE Goal
    <2>1. UNCHANGED <<file, opened, text, disturbed>>
      BY <1>6 DEF PreviewEdit, ApplyPatch, Submit
    <2> QED
      BY <1>1, <2>1
  <1>7. ASSUME NEW n \in Ids, Confirm(c, n) \/ ConfirmRefused(c, n) PROVE Goal
    <2>1. UNCHANGED <<file, opened, text, disturbed>>
      BY <1>7 DEF Confirm, ConfirmRefused, calls, history
    <2> QED
      BY <1>1, <2>1
  <1>8. ASSUME PreviewOne(c) \/ PreviewTarget(c) \/ PreviewFails(c) PROVE Goal
    <2>1. \/ Accept(c) \/ Reject(c) \/ UNCHANGED <<file, opened, text, disturbed>>
      BY <1>8 DEF PreviewOne, PreviewTarget, PreviewFails, history
    <2> QED
      BY <1>1, <1>5, <2>1
  <1>9. ASSUME ApplyOne(c) PROVE Goal
    <2>1. UNCHANGED <<file, disturbed>>
      BY <1>9 DEF ApplyOne
    <2>2. \/ Fail(c, "refused")
          \/ Advance(c) /\ UNCHANGED opened
          \/ UNCHANGED opened /\ UNCHANGED text
          \/ UNCHANGED opened /\ text' = [text EXCEPT ![c] = Current(c).new]
          \/ /\ UNCHANGED opened
             /\ text' = [text EXCEPT ![c] = Rewritten(Current(c), file[Current(c).path])]
      BY <1>9 DEF ApplyOne
    <2> QED
      BY <1>0, <1>1, <1>3, <1>4, <2>1, <2>2
  <1>10. ASSUME OperationFails(c) PROVE Goal
    BY <1>4, <1>10 DEF OperationFails
  <1>11. ASSUME OpenToWrite(c) PROVE Goal
    <2> PICK f \in Files : f = Current(c).path
      BY <1>11, CurrentIs DEF OpenToWrite
    <2>1. /\ file' = [file EXCEPT ![f] = <<>>] /\ opened' = [opened EXCEPT ![c] = f]
          /\ Disturb(work[c], {f}) /\ UNCHANGED text
      BY <1>11 DEF OpenToWrite
    <2>2. Others({f})
      BY <1>0, <2>1 DEF Disturb, TypeInv, FilesOK
    <2> QED
      BY <2>1, <2>2
  <1>12. ASSUME Fill(c) PROVE Goal
    <2>1. opened' = [opened EXCEPT ![c] = Missing] /\ Texted
      BY <1>3, <1>12 DEF Fill
    <2>2. CASE opened[c] = Missing
      BY <1>1, <1>12, <2>1, <2>2 DEF Fill
    <2>3. CASE opened[c] # Missing
      <3> PICK f \in Files : f = opened[c]
        BY <1>0, <2>3
      <3>1. \E t : file' = [file EXCEPT ![f] = t]
        BY <1>12, <2>3 DEF Fill
      <3>2. Disturb(work[c], {f})
        BY <1>12, <2>3 DEF Fill
      <3>3. Others({f})
        BY <1>0, <2>1, <3>1, <3>2 DEF Disturb, TypeInv, FilesOK
      <3> QED
        BY <2>1, <3>3
    <2> QED
      BY <2>2, <2>3
  <1>13. ASSUME RenameFile(c) PROVE Goal
    <2> PICK f \in Files, g \in Files : f = Current(c).path /\ g = Current(c).target
      BY <1>13, CurrentIs DEF RenameFile, FitOK
    <2>1. CASE file[f] = Missing
      BY <1>4, <1>13, <2>1 DEF RenameFile
    <2>2. CASE file[f] # Missing
      <3>1. /\ file' = [file EXCEPT ![f] = Missing, ![g] = file[f]] /\ opened' = Moved(f, g)
            /\ Disturb(work[c], {f, g}) /\ Advance(c)
        BY <1>13, <2>2 DEF RenameFile
      <3>2. Others({f, g})
        BY <1>0, <3>1 DEF Disturb, Moved, TypeInv, FilesOK
      <3> QED
        BY <1>3, <3>1, <3>2
    <2> QED
      BY <2>1, <2>2
  <1>14. ASSUME Delete(c) PROVE Goal
    <2> PICK f \in Files : f = Current(c).path
      BY <1>14, CurrentIs DEF Delete
    <2>1. CASE file[f] = Missing
      BY <1>4, <1>14, <2>1 DEF Delete
    <2>2. CASE file[f] # Missing
      <3>1. /\ file' = [file EXCEPT ![f] = Missing] /\ opened' = Unlinked(f)
            /\ Disturb(work[c], {f}) /\ Advance(c)
        BY <1>14, <2>2 DEF Delete
      <3>2. Others({f})
        BY <1>0, <3>1 DEF Disturb, Unlinked, TypeInv, FilesOK
      <3> QED
        BY <1>3, <3>1, <3>2
    <2> QED
      BY <2>1, <2>2
  <1> HIDE DEF Goal
  <1>15. Goal
    BY <1>6, <1>7, <1>8, <1>9, <1>10, <1>11, <1>12, <1>13, <1>14 DEF Step
  <1> QED
    BY <1>15 DEF Goal

\* Of the batches, a step of a call changes only its own, but to take one from the store.
LEMMA Elsewhere ==
    ASSUME TypeInv, FitOK, CarriedInv, NEW c \in Clients, Step(c), NEW n \in Used' \ disturbed',
           n # work[c], n # work'[c]
    PROVE  Apart(n)
  <1>0. OfPreview(c) \/ OfApply(c) \/ OfStore(c)
    BY Kinds, TypeInvTyped
  <1>1. n \in Used /\ n \in Ids
    <2>1. made' = made \/ (made' = made + 1 /\ work'[c] = made + 1)
      BY <1>0 DEF OfPreview, Submits, Previews, Offers, Drops, Begins, OfApply, Goes, GivesUp,
                  GoesOn, Ends, OfStore, Takes, Refuses, Returns, TypeInv, CallsOK
    <2> QED
      BY <2>1, EditsAssumption DEF TypeInv, StoreOK, Used, Ids
  <1>2. batch'[n] = batch[n] /\ base'[n] = base[n]
    BY <1>1, BatchesStay DEF Next
  <1>3. PICK fs \in SUBSET Files :
                /\ disturbed' = disturbed \cup {m \in Used : m # work[c] /\ Paths(m) \cap fs # {}}
                /\ \A f \in Files \ fs : file'[f] = file[f]
                /\ \A d \in Clients \ {c} : opened[d] \notin fs => opened'[d] = opened[d]
    BY Writes
  <1>4. n \notin disturbed /\ Paths(n) \cap fs = {}
    BY <1>1, <1>3
  <1>5. Paths(n) \subseteq Files
    BY <1>1, PathsIn DEF Paths, PathsOf
  <1>6. \A f \in Paths(n) : file'[f] = file[f]
    BY <1>3, <1>4, <1>5
  <1>7. /\ done'[n] = done[n]
        /\ outcome'[n] = outcome[n] \/ (outcome[n] = "none" /\ outcome'[n] = "failed")
        /\ n \in edits' => n \in edits
    <2>1. CASE OfPreview(c)
      BY <2>1 DEF OfPreview, Submits, Previews, Offers, Drops, Begins
    <2>2. CASE OfApply(c)
      BY <1>1, <2>2 DEF OfApply, Goes, GivesUp, GoesOn, Ends, TypeInv, HistoryOK
    <2>3. CASE OfStore(c)
      BY <1>1, <2>3 DEF OfStore, Takes, Refuses, TypeInv, HistoryOK, CarriedInv, Waiting
    <2> QED
      BY <1>0, <2>1, <2>2, <2>3
  <1>8. \A d \in Clients : work'[d] = n <=> work[d] = n
    BY OthersStay
  <1>9. \A d \in Clients : work[d] = n =>
         /\ pc'[d] = pc[d] /\ at'[d] = at[d] /\ text'[d] = text[d]
         /\ opened[d] \in Paths(n) => opened'[d] = opened[d]
    BY <1>3, <1>4, OthersStay, Writes
  <1> QED
    BY <1>1, <1>2, <1>4, <1>6, <1>7, <1>8, <1>9 DEF Apart

-----------------------------------------------------------------------------
\* A step of the batch's own call: its files
\* A call and its batch, over one of its steps.
LEMMA OwnBatch ==
    ASSUME TypeInv, CarriedInv, NEW c \in Clients, Step(c), pc[c] # "idle", NEW n, n = work[c]
    PROVE  /\ \A d \in Clients : (work[d] = n => d = c) /\ (work'[d] = n => d = c)
           /\ n \in Used /\ n \in Ids /\ outcome[n] = "none" /\ n \notin edits
           /\ batch'[n] = batch[n] /\ base'[n] = base[n] /\ Paths(n)' = Paths(n)
           /\ Current(c) = batch[n][at[c]] /\ at[c] \in DOMAIN batch[n]
           /\ pc[c] \in Applying => at[c] = done[n] + 1
           /\ done[n] \in Nat
  <1>1. n \in Used /\ n \in Ids /\ n # 0
    BY CurrentIs DEF CarriedInv, Alone
  <1>2. ASSUME NEW d \in Clients, work[d] = n PROVE d = c
    BY <1>1, <1>2 DEF CarriedInv, Alone
  <1>3. ASSUME NEW d \in Clients, work'[d] = n PROVE d = c
    BY <1>2, <1>3, OthersStay
  <1>4. batch'[n] = batch[n] /\ base'[n] = base[n]
    BY <1>1, BatchesStay DEF Next
  <1>5. Paths(n)' = Paths(n)
    BY <1>4 DEF Paths
  <1>6. /\ outcome[n] = "none" /\ n \notin edits
        /\ pc[c] \in Applying => at[c] = done[n] + 1
    BY DEF CarriedInv, AtWork
  <1>7. done[n] \in Nat
    BY <1>1 DEF TypeInv, HistoryOK
  <1>8. Current(c) = batch[n][at[c]] /\ at[c] \in DOMAIN batch[n]
    BY CurrentIs DEF Current
  <1> QED
    BY <1>1, <1>2, <1>3, <1>4, <1>5, <1>6, <1>7, <1>8

\* The files stay, or it is too late to say something of them.
LEMMA QuietSerial ==
    ASSUME TypeInv, CarriedInv, NEW c \in Clients, Step(c), pc[c] # "idle",
           NEW n, n = work[c], SerialOf(n), done'[n] = done[n],
           \/ outcome'[n] = "torn"
           \/ file' = file /\ pc[c] # "fill",
           work'[c] = n => pc'[c] \notin {"open", "fill"}
    PROVE  SerialOf(n)'
  <1>1. Serially(n)' = Serially(n) /\ Paths(n)' = Paths(n)
    <2>1. base'[n] = base[n] /\ batch'[n] = batch[n] /\ Paths(n)' = Paths(n)
      BY OwnBatch
    <2> QED
      BY <2>1, SeriallyIs, SeriallyNext
  <1>2. \A d \in Clients : work'[d] = n => pc'[d] \notin {"open", "fill"}
    BY OwnBatch
  <1>3. (outcome[n] # "torn" /\ ~(\E d \in Clients : work[d] = n /\ pc[d] = "fill") =>
             \A f \in Paths(n) : file[f] = Serially(n)[f])'
    <2>1. CASE outcome'[n] = "torn"
      BY <2>1
    <2>2. CASE file' = file /\ pc[c] # "fill"
      <3>1. \A f \in Paths(n) : file[f] = Serially(n)[f]
        BY <2>2, OwnBatch DEF SerialOf
      <3> QED
        BY <1>1, <2>2, <3>1
    <2> QED
      BY <2>1, <2>2
  <1> QED
    BY <1>2, <1>3 DEF SerialOf

\* The change was made.
LEMMA AdvanceSerial ==
    ASSUME TypeInv, CarriedInv, NEW c \in Clients, Step(c), pc[c] \in Applying, Advance(c),
           NEW n, n = work[c],
           \A f \in Paths(n) : file'[f] = Made(Current(c), Serially(n))[f]
    PROVE  SerialOf(n)'
  <1>0. pc[c] # "idle" /\ pc \in [Clients -> Steps]
    BY DEF Applying, TypeInv, CallsOK
  <1>1. done'[n] = done[n] + 1
    BY <1>0, OwnBatch DEF Advance, TypeInv, HistoryOK
  <1>2. Serially(n)' = Made(Current(c), Serially(n))
    <2>1. Serially(n)' = Serial(base[n], batch[n], done[n] + 1)
      BY <1>0, <1>1, OwnBatch, SeriallyNext
    <2>2. Serial(base[n], batch[n], done[n] + 1) = Made(batch[n][done[n] + 1], Serial(base[n], batch[n], done[n]))
      <3>1. PICK m \in Nat : m = done[n]
        BY <1>0, OwnBatch
      <3>2. \A b, s : Serial(b, s, m + 1) = Made(s[m + 1], Serial(b, s, m))
        BY SerialSteps
      <3> QED
        BY <3>1, <3>2
    <2>3. Current(c) = batch[n][done[n] + 1]
      BY <1>0, OwnBatch
    <2> QED
      BY <2>1, <2>2, <2>3, SeriallyIs
  <1>3. pc'[c] \in {"idle", "apply"}
    BY <1>0 DEF Advance, Return, Goto
  <1>4. \A d \in Clients : work'[d] = n => pc'[d] \notin {"open", "fill"}
    BY <1>0, <1>3, OwnBatch
  <1>5. \A f \in Paths(n)' : file'[f] = Serially(n)'[f]
    BY <1>0, <1>2, OwnBatch
  <1> QED
    BY <1>4, <1>5 DEF SerialOf

\* Made, by the type of the change.
LEMMA MadeIs ==
    ASSUME NEW ch, NEW fs
    PROVE  /\ ch.type = "rename" =>
                Made(ch, fs) = [fs EXCEPT ![ch.path] = Missing, ![ch.target] = fs[ch.path]]
           /\ ch.type = "delete" => Made(ch, fs) = [fs EXCEPT ![ch.path] = Missing]
           /\ ch.type = "overwrite" => Made(ch, fs) = [fs EXCEPT ![ch.path] = ch.new]
           /\ ch.type \in Rewrites /\ WritesNothing(ch, fs[ch.path]) => Made(ch, fs) = fs
           /\ ch.type \in Rewrites /\ ~WritesNothing(ch, fs[ch.path]) =>
                Made(ch, fs) = [fs EXCEPT ![ch.path] = Rewritten(ch, fs[ch.path])]
  BY DEF Made, Rewrites

\* A text written to an empty file.
LEMMA OverNothing == ASSUME NEW s \in Texts PROVE Over(s, <<>>) = s
  <1>1. SubSeq(<<>>, Len(s) + 1, Len(<<>>)) = <<>>
    BY LenProperties, SubSeqEmpty DEF Texts
  <1>2. s \o <<>> = s
    BY ConcatEmptySeq DEF Texts
  <1> QED
    BY <1>1, <1>2 DEF Over

\* A step of the batch's own call keeps its files as its first changes leave them.
LEMMA SerialOwn ==
    ASSUME TypeInv, FitOK, CarriedInv, NEW c \in Clients, Step(c), pc[c] # "idle",
           NEW n, n = work[c], SerialOf(n)
    PROVE  SerialOf(n)'
  <1> DEFINE ch == Current(c)
             S  == Serially(n)
  <1>0. /\ pc \in [Clients -> Steps] /\ text \in [Clients -> Texts] /\ work \in [Clients -> 0 .. MaxBatches]
        /\ file \in [Files -> Texts \cup {Missing}] /\ opened \in [Clients -> Files \cup {Missing}]
        /\ outcome \in [Ids -> Outcomes] /\ S = [f \in Files |-> S[f]]
    BY OwnBatch, SeriallyOnFiles DEF TypeInv, CallsOK, FilesOK, HistoryOK, OnFiles
  <1>1. /\ ch.path \in Paths(n) /\ ch.path \in Files
        /\ ch.type = "rename" => ch.target \in Paths(n) /\ ch.target \in Files
        /\ Paths(n) \subseteq Files
    <2>1. Paths(n) \subseteq Files
      BY OwnBatch, PathsIn DEF Paths, PathsOf
    <2> QED
      BY <2>1, OwnBatch, PathsIn
  <1>2. pc[c] # "fill" => \A f \in Paths(n) : file[f] = S[f]
    BY OwnBatch DEF SerialOf
  <1>3. CASE PreviewOne(c) \/ PreviewTarget(c) \/ PreviewFails(c)
    <2>1. pc[c] # "fill" /\ file' = file /\ done' = done /\ pc'[c] \notin {"open", "fill"}
      BY <1>0, <1>3 DEF PreviewOne, PreviewTarget, PreviewFails, Accept, Reject, Goto, Return, history
    <2> QED
      BY <2>1, QuietSerial
  <1>4. ASSUME NEW why, Fail(c, why), why = "torn" \/ pc[c] # "fill", file' = file PROVE SerialOf(n)'
    <2>1. pc'[c] = "idle" /\ done' = done /\ (why = "torn" => outcome'[n] = "torn")
      BY <1>0, <1>4, OwnBatch DEF Fail, Return
    <2> QED
      BY <1>4, <2>1, QuietSerial
  <1>5. CASE ApplyOne(c)
    <2>0. pc[c] = "apply" /\ pc[c] \in Applying /\ file' = file
      BY <1>5 DEF ApplyOne, Applying
    <2>1. file[ch.path] = S[ch.path]
      BY <1>1, <1>2, <2>0
    <2>2. CASE Fail(c, "refused")
      BY <1>4, <2>0, <2>2
    <2>3. CASE ch.type \in Rewrites /\ WritesNothing(ch, file[ch.path]) /\ Advance(c)
      <3>1. Made(ch, S) = S
        BY <2>1, <2>3, MadeIs
      <3> QED
        BY <1>2, <2>0, <2>3, <3>1, AdvanceSerial
    <2>4. CASE UNCHANGED done /\ (Goto(c, "rename") \/ Goto(c, "remove"))
      <3>1. pc'[c] \notin {"open", "fill"}
        BY <1>0, <2>4 DEF Goto
      <3> QED
        BY <2>0, <2>4, <3>1, QuietSerial
    <2>5. CASE /\ UNCHANGED <<work, at, done, outcome>> /\ Goto(c, "open")
               /\ \/ /\ ch.type \in Rewrites /\ ~WritesNothing(ch, file[ch.path])
                     /\ text' = [text EXCEPT ![c] = Rewritten(ch, file[ch.path])]
                  \/ ch.type = "overwrite" /\ text' = [text EXCEPT ![c] = ch.new]
      <3>1. Made(ch, S) = [S EXCEPT ![ch.path] = text'[c]]
        BY <1>0, <2>1, <2>5, MadeIs
      <3>2. Current(c)' = Current(c) /\ Serially(n)' = S /\ Paths(n)' = Paths(n)
        <4>1. base'[n] = base[n] /\ batch'[n] = batch[n] /\ Paths(n)' = Paths(n)
          BY OwnBatch
        <4> QED
          BY <2>5, <4>1, SeriallyIs, SeriallyNext DEF Current
      <3>3. pc'[c] = "open"
        BY <1>0, <2>5 DEF Goto
      <3>4. (outcome[n] # "torn" /\ ~(\E d \in Clients : work[d] = n /\ pc[d] = "fill") =>
             \A f \in Paths(n) : file[f] = Serially(n)[f])'
        BY <1>2, <2>0, <3>2
      <3>5. ASSUME NEW d \in Clients, work'[d] = n
            PROVE  d = c
        BY <3>5, OwnBatch
      <3> QED
        BY <3>1, <3>2, <3>3, <3>4, <3>5 DEF SerialOf
    <2> QED
      BY <1>5, <2>2, <2>3, <2>4, <2>5 DEF ApplyOne
  <1>6. CASE OpenToWrite(c)
    <2>1. /\ pc[c] = "open" /\ file' = [file EXCEPT ![ch.path] = <<>>]
          /\ opened' = [opened EXCEPT ![c] = ch.path] /\ pc' = [pc EXCEPT ![c] = "fill"]
          /\ UNCHANGED <<work, at, batch, base, done, text>>
      BY <1>6 DEF OpenToWrite, Goto, server
    <2>2. Current(c)' = Current(c) /\ Serially(n)' = S /\ Paths(n)' = Paths(n)
      BY <2>1, SeriallyIs, SeriallyNext DEF Current, Paths
    <2>3. Made(ch, S) = [S EXCEPT ![ch.path] = text[c]]
      BY <2>1 DEF SerialOf
    <2>4. pc'[c] = "fill" /\ opened'[c] = ch.path /\ file'[ch.path] = <<>>
      BY <1>0, <1>1, <2>1
    <2>5. \A f \in Paths(n) \ {ch.path} : file'[f] = S[f]
      BY <1>0, <1>1, <1>2, <2>1
    <2>6. ASSUME NEW d \in Clients, work'[d] = n PROVE d = c
      BY <2>6, OwnBatch
    <2>7. work'[c] = n
      BY <2>1
    <2> QED
      BY <2>1, <2>2, <2>3, <2>4, <2>5, <2>6, <2>7 DEF SerialOf
  <1>7. CASE Fill(c)
    <2>1. pc[c] = "fill" /\ pc[c] \in Applying /\ Advance(c)
      BY <1>7 DEF Fill, Applying
    <2>2. /\ opened[c] = ch.path /\ file[ch.path] = <<>>
          /\ \A f \in Paths(n) \ {ch.path} : file[f] = S[f]
          /\ Made(ch, S) = [S EXCEPT ![ch.path] = text[c]]
      BY <2>1 DEF SerialOf
    <2>3. file' = [file EXCEPT ![ch.path] = text[c]]
      <3>1. opened[c] # Missing
        BY <1>1, <2>2, EditsAssumption
      <3> QED
        BY <1>0, <1>1, <1>7, <2>2, <3>1, OverNothing DEF Fill
    <2>4. \A f \in Paths(n) : file'[f] = Made(ch, S)[f]
      BY <1>0, <1>1, <2>2, <2>3
    <2> QED
      BY <2>1, <2>4, AdvanceSerial
  <1>8. CASE RenameFile(c)
    <2>1. pc[c] = "rename" /\ pc[c] \in Applying /\ ch.type = "rename"
      BY <1>8 DEF RenameFile, Applying, FitOK
    <2>2. CASE file[ch.path] = Missing
      BY <1>4, <1>8, <2>1, <2>2 DEF RenameFile
    <2>3. CASE file[ch.path] # Missing
      <3>1. /\ file' = [file EXCEPT ![ch.path] = Missing, ![ch.target] = file[ch.path]]
            /\ Advance(c)
        BY <1>8, <2>3 DEF RenameFile
      <3>2. Made(ch, S) = [S EXCEPT ![ch.path] = Missing, ![ch.target] = S[ch.path]]
        BY <2>1, MadeIs
      <3>3. \A f \in Paths(n) : file[f] = S[f]
        BY <1>2, <2>1
      <3>4. ASSUME NEW f \in Paths(n) PROVE file'[f] = Made(ch, S)[f]
        <4>1. file'[f] = IF f = ch.target THEN file[ch.path] ELSE IF f = ch.path THEN Missing ELSE file[f]
          BY <1>0, <1>1, <2>1, <3>1
        <4>2. Made(ch, S)[f] = IF f = ch.target THEN S[ch.path] ELSE IF f = ch.path THEN Missing ELSE S[f]
          BY <1>0, <1>1, <2>1, <3>2
        <4> QED
          BY <1>1, <3>3, <4>1, <4>2
      <3> QED
        BY <2>1, <3>1, <3>4, AdvanceSerial
    <2> QED
      BY <2>2, <2>3
  <1>9. CASE Delete(c)
    <2>1. pc[c] = "remove" /\ pc[c] \in Applying /\ ch.type = "delete"
      BY <1>9 DEF Delete, Applying, FitOK
    <2>2. CASE file[ch.path] = Missing
      BY <1>4, <1>9, <2>1, <2>2 DEF Delete
    <2>3. CASE file[ch.path] # Missing
      <3>1. file' = [file EXCEPT ![ch.path] = Missing] /\ Advance(c)
        BY <1>9, <2>3 DEF Delete
      <3>2. Made(ch, S) = [S EXCEPT ![ch.path] = Missing]
        BY <2>1, MadeIs
      <3>3. \A f \in Paths(n) : file'[f] = Made(ch, S)[f]
        BY <1>0, <1>1, <1>2, <2>1, <3>1, <3>2
      <3> QED
        BY <2>1, <3>1, <3>3, AdvanceSerial
    <2> QED
      BY <2>2, <2>3
  <1>10. CASE OperationFails(c)
    BY <1>4, <1>10 DEF OperationFails
  <1>11. /\ ~(\E b \in Batches : PreviewEdit(c, b) \/ ApplyPatch(c, b))
         /\ ~(\E m \in Ids : Confirm(c, m) \/ ConfirmRefused(c, m))
    BY DEF PreviewEdit, ApplyPatch, Submit, Confirm, ConfirmRefused
  <1> QED
    BY <1>3, <1>5, <1>6, <1>7, <1>8, <1>9, <1>10, <1>11 DEF Step

-----------------------------------------------------------------------------
\* A step of the batch's own call: the preview is borne out

\* The change was found as the preview asks.
LEMMA AcceptPreview ==
    ASSUME TypeInv, CarriedInv, NEW c \in Clients, Step(c), pc[c] \in Previewing, Accept(c),
           NEW n, n = work[c], PreviewOf(n), Ready(n, at[c])
    PROVE  PreviewOf(n)'
  <1>0. pc[c] # "idle" /\ pc \in [Clients -> Steps] /\ work \in [Clients -> 0 .. MaxBatches]
          /\ at \in [Clients -> Nat]
    BY DEF Previewing, TypeInv, CallsOK
  <1>1. outcome'[n] # "refused"
    BY <1>0, OwnBatch DEF Accept, history
  <1>2. \A i \in 1 .. at[c] : Ready(n, i)'
    <2>1. \A i \in 1 .. at[c] : Ready(n, i)
      BY <1>0 DEF PreviewOf
    <2>2. file' = file /\ batch' = batch
      BY DEF Accept
    <2> QED
      BY <2>1, <2>2 DEF Ready
  <1>3. \A d \in Clients : work'[d] = n => d = c
    BY <1>0, OwnBatch
  <1>4. n # 0 /\ batch' = batch /\ DOMAIN batch[n] = 1 .. Len(batch[n]) /\ n \notin edits
    BY <1>0, OwnBatch, CurrentIs DEF Ids, Accept
  <1>5. CASE ~IsLast(c)
    <2>1. pc'[c] = "preview" /\ at'[c] = at[c] + 1 /\ edits' = edits
      BY <1>0, <1>5 DEF Accept, Goto
    <2>2. pc'[c] \in Previewing /\ pc'[c] \notin Applying /\ at'[c] - 1 = at[c]
      BY <1>0, <2>1 DEF Previewing, Applying
    <2> QED
      BY <1>1, <1>2, <1>3, <1>4, <2>1, <2>2 DEF PreviewOf
  <1>6. CASE IsLast(c) /\ patch[c]
    <2>1. pc'[c] = "apply" /\ edits' = edits
      BY <1>0, <1>6 DEF Accept, Goto
    <2>2. \A i \in DOMAIN batch'[n] : Ready(n, i)'
      BY <1>2, <1>4, <1>6 DEF IsLast
    <2>3. pc'[c] \notin Previewing /\ pc'[c] # "target"
      BY <2>1 DEF Previewing
    <2> QED
      BY <1>1, <1>3, <1>4, <2>1, <2>2, <2>3 DEF PreviewOf
  <1>7. CASE IsLast(c) /\ ~patch[c]
    <2>1. work'[c] = 0
      BY <1>0, <1>7 DEF Accept, Return
    <2>2. \A i \in DOMAIN batch'[n] : Ready(n, i)'
      BY <1>2, <1>4, <1>7 DEF IsLast
    <2> QED
      BY <1>1, <1>3, <1>4, <2>1, <2>2 DEF PreviewOf
  <1> QED
    BY <1>5, <1>6, <1>7

\* The call returned without offering the batch.
LEMMA ReturnPreview ==
    ASSUME TypeInv, CarriedInv, NEW c \in Clients, Step(c), pc[c] # "idle", Return(c),
           NEW n, n = work[c], edits' = edits, outcome'[n] # "refused"
    PROVE  PreviewOf(n)'
  <1>1. \A d \in Clients : work'[d] # n
    BY OwnBatch DEF Return, TypeInv, CallsOK, Ids
  <1> QED
    BY <1>1, OwnBatch DEF PreviewOf

\* The change was made.
LEMMA AdvancePreview ==
    ASSUME TypeInv, CarriedInv, NEW c \in Clients, Step(c), pc[c] \in Applying, Advance(c),
           NEW n, n = work[c], \A i \in DOMAIN batch[n] : i > at[c] => Ready(n, i)'
    PROVE  PreviewOf(n)'
  <1>0. pc[c] # "idle" /\ pc \in [Clients -> Steps] /\ work \in [Clients -> 0 .. MaxBatches]
          /\ at \in [Clients -> Nat]
    BY DEF Applying, TypeInv, CallsOK
  <1>1. edits' = edits /\ outcome'[n] # "refused"
    BY <1>0, OwnBatch DEF Advance, server, TypeInv, HistoryOK
  <1>2. CASE IsLast(c)
    BY <1>0, <1>1, <1>2, ReturnPreview DEF Advance
  <1>3. CASE ~IsLast(c)
    <2>1. pc'[c] = "apply" /\ at'[c] = at[c] + 1
      BY <1>0, <1>3 DEF Advance, Goto
    <2>2. pc'[c] \notin Previewing /\ pc'[c] # "target"
      BY <2>1 DEF Previewing
    <2>3. DOMAIN batch'[n] = DOMAIN batch[n] /\ DOMAIN batch[n] = 1 .. Len(batch[n]) /\ n \notin edits'
      BY <1>0, <1>1, OwnBatch, CurrentIs
    <2>4. \A i \in DOMAIN batch'[n] :
              i > at'[c] \/ (i = at'[c] /\ pc'[c] # "fill") => Ready(n, i)'
      BY <1>0, <2>1, <2>3
    <2>5. \A d \in Clients : work'[d] = n => d = c
      BY <1>0, OwnBatch
    <2> QED
      BY <1>1, <2>2, <2>3, <2>4, <2>5 DEF PreviewOf
  <1> QED
    BY <1>2, <1>3

\* A step of the batch's own call keeps what its preview said of the changes to come.
LEMMA PreviewOwn ==
    ASSUME TypeInv, FitOK, CarriedInv, NEW c \in Clients, Step(c), pc[c] # "idle",
           NEW n, n = work[c], Separate(batch[n]), SerialOf(n), PreviewOf(n)
    PROVE  PreviewOf(n)'
  <1> DEFINE ch == Current(c)
  <1>0. /\ pc \in [Clients -> Steps] /\ work \in [Clients -> 0 .. MaxBatches] /\ at \in [Clients -> Nat]
        /\ file \in [Files -> Texts \cup {Missing}] /\ opened \in [Clients -> Files \cup {Missing}]
        /\ outcome \in [Ids -> Outcomes]
    BY DEF TypeInv, CallsOK, FilesOK, HistoryOK
  <1>1. /\ ch = batch[n][at[c]] /\ at[c] \in DOMAIN batch[n] /\ batch'[n] = batch[n]
        /\ outcome[n] = "none" /\ n \notin edits /\ n \in Ids /\ n \in Used
        /\ \A d \in Clients : work'[d] = n => d = c
    BY OwnBatch
  <1>2. ch.path \in Files /\ (ch.type = "rename" => ch.target \in Files)
    BY CurrentIs
  <1>3. pc[c] \in Applying =>
          /\ \A i \in DOMAIN batch[n] : i > at[c] => Ready(n, i)
          /\ pc[c] # "fill" => Ready(n, at[c])
    BY <1>1 DEF PreviewOf
  \* A change that is still to come has other files.
  <1>4. ASSUME pc[c] \in Applying, NEW i \in DOMAIN batch[n], i > at[c],
               \A f \in Files : f # ch.path /\ (ch.type = "rename" => f # ch.target) => file'[f] = file[f]
        PROVE  Ready(n, i)'
    <2>1. i # at[c]
      BY <1>0, <1>4
    <2>2. batch[n][i].path \in Files /\ (batch[n][i].type = "rename" => batch[n][i].target \in Files)
      BY <1>1, PathsIn
    <2>3. /\ file'[batch[n][i].path] = file[batch[n][i].path]
          /\ batch[n][i].type = "rename" => file'[batch[n][i].target] = file[batch[n][i].target]
      BY <1>1, <1>4, <2>1, <2>2, SeparateIs
    <2> QED
      BY <1>1, <1>3, <1>4, <2>3, ReadyStays
  <1>5. ASSUME NEW why, Fail(c, why), why # "refused" PROVE PreviewOf(n)'
    BY <1>0, <1>1, <1>5, ReturnPreview DEF Fail, server
  <1>6. CASE PreviewOne(c)
    <2>1. pc[c] = "preview" /\ pc[c] \in Previewing
      BY <1>6 DEF PreviewOne, Previewing
    <2>2. CASE Reject(c)
      BY <1>1, <2>2, ReturnPreview DEF Reject, server, history
    <2>3. CASE /\ PreviewAccepts(ch, file[ch.path]) /\ Goto(c, "target")
               /\ UNCHANGED <<file, server, work, at, outcome>>
      <3>1. pc'[c] = "target" /\ UNCHANGED <<file, edits, batch, work, at, outcome>>
        BY <1>0, <2>3 DEF Goto, server
      <3>2. \A i \in 1 .. at'[c] - 1 : Ready(n, i)'
        BY <2>1, <3>1 DEF PreviewOf, Ready
      <3>3. PreviewAccepts(Current(c), file[Current(c).path])'
        BY <2>3, <3>1 DEF Current
      <3>4. pc'[c] \notin Applying
        BY <3>1 DEF Applying
      <3> QED
        BY <1>1, <3>1, <3>2, <3>3, <3>4 DEF PreviewOf
    <2>4. CASE PreviewAccepts(ch, file[ch.path]) /\ ch.type # "rename" /\ Accept(c)
      <3>1. Ready(n, at[c])
        BY <1>1, <2>4 DEF Ready
      <3> QED
        BY <2>1, <2>4, <3>1, AcceptPreview
    <2> QED
      BY <1>6, <2>2, <2>3, <2>4 DEF PreviewOne, history
  <1>7. CASE PreviewTarget(c)
    <2>1. pc[c] = "target" /\ pc[c] \in Previewing /\ ch.type = "rename"
      BY <1>7 DEF PreviewTarget, Previewing, FitOK
    <2>2. CASE Reject(c)
      BY <1>1, <2>2, ReturnPreview DEF Reject, server, history
    <2>3. CASE file[ch.target] = Missing /\ Accept(c)
      <3>1. PreviewAccepts(ch, file[ch.path])
        BY <2>1 DEF PreviewOf
      <3>2. Ready(n, at[c])
        BY <1>1, <2>3, <3>1 DEF Ready
      <3> QED
        BY <2>1, <2>3, <3>2, AcceptPreview
    <2> QED
      BY <1>7, <2>2, <2>3 DEF PreviewTarget
  <1>8. CASE PreviewFails(c)
    BY <1>1, <1>8, ReturnPreview DEF PreviewFails, Reject, server, history
  <1>9. CASE ApplyOne(c)
    <2>0. pc[c] = "apply" /\ pc[c] \in Applying /\ file' = file
      BY <1>9 DEF ApplyOne, Applying
    <2>1. Ready(n, at[c])
      BY <1>3, <2>0
    <2>2. PreviewAccepts(ch, file[ch.path]) /\ (ch.type = "rename" => file[ch.target] = Missing)
      BY <1>1, <2>1 DEF Ready
    <2>3. /\ ~(ch.type \in Rewrites /\ ~Applies(ch, file[ch.path]))
          /\ ~(ch.type = "rename" /\ file[ch.target] # Missing)
          /\ ~(ch.type = "delete" /\ file[ch.path] = Missing)
      BY <2>2, AcceptedApplies DEF PreviewAccepts
    <2>4. CASE Advance(c)
      BY <1>4, <2>0, <2>4, AdvancePreview
    <2>5. ASSUME NEW l \in {"rename", "remove", "open"}, Goto(c, l), UNCHANGED <<server, work, at, outcome>>
          PROVE  PreviewOf(n)'
      <3>1. pc'[c] = l /\ l \notin Previewing /\ l # "target" /\ l # "fill" /\ at'[c] = at[c]
        BY <1>0, <2>5 DEF Goto, Previewing
      <3>2. UNCHANGED <<file, edits, batch, work, at, outcome>>
        BY <2>0, <2>5 DEF server
      <3>3. \A i \in DOMAIN batch[n] : i > at[c] \/ i = at[c] => Ready(n, i)'
        BY <1>3, <2>0, <3>2 DEF Ready
      <3> QED
        BY <1>1, <3>1, <3>2, <3>3 DEF PreviewOf
    <2> QED
      BY <1>9, <2>3, <2>4, <2>5 DEF ApplyOne
  <1>10. CASE OpenToWrite(c)
    <2>1. /\ pc[c] = "open" /\ file' = [file EXCEPT ![ch.path] = <<>>] /\ pc' = [pc EXCEPT ![c] = "fill"]
          /\ UNCHANGED <<work, at, batch, edits, outcome>>
      BY <1>10 DEF OpenToWrite, Goto, server
    <2>2. pc[c] \in Applying /\ pc'[c] = "fill" /\ "fill" \notin Previewing
      BY <1>0, <2>1 DEF Applying, Previewing
    <2>3. \A i \in DOMAIN batch[n] : i > at[c] => Ready(n, i)'
      BY <1>0, <1>2, <1>4, <2>1, <2>2
    <2> QED
      BY <1>1, <2>1, <2>2, <2>3 DEF PreviewOf
  <1>11. CASE Fill(c)
    <2>1. pc[c] = "fill" /\ pc[c] \in Applying /\ Advance(c)
      BY <1>11 DEF Fill, Applying
    <2>2. opened[c] = ch.path /\ opened[c] # Missing
      BY <1>2, <2>1, EditsAssumption DEF SerialOf
    <2>3. \E t : file' = [file EXCEPT ![ch.path] = t]
      BY <1>11, <2>2 DEF Fill
    <2>4. \A i \in DOMAIN batch[n] : i > at[c] => Ready(n, i)'
      BY <1>0, <1>2, <1>4, <2>1, <2>3
    <2> QED
      BY <2>1, <2>4, AdvancePreview
  <1>12. CASE RenameFile(c)
    <2>1. pc[c] = "rename" /\ pc[c] \in Applying /\ ch.type = "rename"
      BY <1>12 DEF RenameFile, Applying, FitOK
    <2>2. file[ch.path] # Missing
      BY <1>1, <1>3, <2>1 DEF Ready, PreviewAccepts
    <2>3. file' = [file EXCEPT ![ch.path] = Missing, ![ch.target] = file[ch.path]] /\ Advance(c)
      BY <1>12, <2>2 DEF RenameFile
    <2>4. \A i \in DOMAIN batch[n] : i > at[c] => Ready(n, i)'
      BY <1>0, <1>2, <1>4, <2>1, <2>3
    <2> QED
      BY <2>1, <2>3, <2>4, AdvancePreview
  <1>13. CASE Delete(c)
    <2>1. pc[c] = "remove" /\ pc[c] \in Applying /\ ch.type = "delete"
      BY <1>13 DEF Delete, Applying, FitOK
    <2>2. file[ch.path] # Missing
      BY <1>1, <1>3, <2>1 DEF Ready, PreviewAccepts
    <2>3. file' = [file EXCEPT ![ch.path] = Missing] /\ Advance(c)
      BY <1>13, <2>2 DEF Delete
    <2>4. \A i \in DOMAIN batch[n] : i > at[c] => Ready(n, i)'
      BY <1>0, <1>2, <1>4, <2>1, <2>3
    <2> QED
      BY <2>1, <2>3, <2>4, AdvancePreview
  <1>14. CASE OperationFails(c)
    BY <1>5, <1>14 DEF OperationFails
  <1>15. /\ ~(\E b \in Batches : PreviewEdit(c, b) \/ ApplyPatch(c, b))
         /\ ~(\E m \in Ids : Confirm(c, m) \/ ConfirmRefused(c, m))
    BY DEF PreviewEdit, ApplyPatch, Submit, Confirm, ConfirmRefused
  <1> QED
    BY <1>6, <1>7, <1>8, <1>9, <1>10, <1>11, <1>12, <1>13, <1>14, <1>15 DEF Step

-----------------------------------------------------------------------------
\* All batches

\* A batch that is taken up: it was submitted, or confirmed.
LEMMA TakenUp ==
    ASSUME TypeInv, FitOK, CarriedInv, SerialInv, PreviewInv, NEW c \in Clients, Step(c), pc[c] = "idle",
           NEW n \in Used' \ disturbed', n = work'[c]
    PROVE  SerialOf(n)' /\ (Separate(batch'[n]) => PreviewOf(n)')
  <1>0. /\ pc \in [Clients -> Steps] /\ work \in [Clients -> 0 .. MaxBatches] /\ at \in [Clients -> Nat]
        /\ batch \in [Ids -> Batches \cup {<<>>}] /\ n # 0
    BY DEF TypeInv, CallsOK, StoreOK, Used
  <1>1. ASSUME NEW b \in Batches, Submit(c, b) PROVE SerialOf(n)' /\ PreviewOf(n)'
    <2>1. n = made + 1 /\ n \in Ids /\ UNCHANGED <<file, edits, done, outcome>>
      BY <1>0, <1>1, EditsAssumption DEF Submit, TypeInv, StoreOK, Ids
    <2>2. n \notin edits /\ done[n] = 0 /\ outcome[n] = "none"
      BY <2>1 DEF CarriedInv, Waiting, TypeInv, StoreOK, Used, Ids
    <2>3. Serially(n)' = file
      <3>1. base'[n] = file /\ done'[n] = 0
        BY <1>1, <2>1, <2>2 DEF Submit, TypeInv, HistoryOK
      <3> QED
        BY <3>1, SeriallyNext, SerialSteps
    <2>4. \A d \in Clients : work'[d] = n => d = c
      <3>1. \A d \in Clients : work[d] # n
        BY <2>1 DEF CarriedInv, AtWork, Alone, TypeInv, StoreOK, Used
      <3> QED
        BY <3>1, OthersStay
    <2>5. pc'[c] = "preview" /\ at'[c] = 1
      BY <1>0, <1>1 DEF Submit, Goto
    <2>6. SerialOf(n)'
      BY <2>1, <2>3, <2>4, <2>5 DEF SerialOf
    <2>7. pc'[c] \notin Applying
      BY <2>5 DEF Applying
    <2>8. PreviewOf(n)'
      BY <2>1, <2>2, <2>4, <2>5, <2>7 DEF PreviewOf
    <2> QED
      BY <2>6, <2>8
  <1>2. ASSUME NEW m \in Ids, Confirm(c, m) PROVE SerialOf(n)' /\ (Separate(batch'[n]) => PreviewOf(n)')
    <2>1. /\ n = m /\ n \in edits /\ UNCHANGED <<file, made, batch, base, done, outcome, disturbed>>
          /\ pc'[c] = "apply" /\ at'[c] = 1 /\ edits' = edits \ {n}
      BY <1>0, <1>2 DEF Confirm, TakeFromStore, Goto, history
    <2>2. n \in Used \ disturbed /\ outcome[n] = "none" /\ \A d \in Clients : work[d] # n
      BY <2>1 DEF CarriedInv, Waiting, AtWork, Alone, Used
    <2>3. SerialOf(n)
      BY <2>2 DEF SerialInv
    <2>4. Serially(n)' = Serially(n) /\ Paths(n)' = Paths(n)
      BY <2>1, SeriallyIs, SeriallyNext DEF Paths
    <2>5. \A d \in Clients : work'[d] = n => d = c
      BY <2>2, OthersStay
    <2>6. \A f \in Paths(n) : file[f] = Serially(n)[f]
      BY <2>2, <2>3 DEF SerialOf
    <2>7. SerialOf(n)'
      BY <2>1, <2>4, <2>5, <2>6 DEF SerialOf
    <2>8. ASSUME Separate(batch'[n]) PROVE PreviewOf(n)'
      <3>1. PreviewOf(n)
        BY <2>1, <2>2, <2>8 DEF PreviewInv
      <3>2. \A i \in DOMAIN batch[n] : Ready(n, i)'
        BY <2>1, <3>1 DEF PreviewOf, Ready
      <3>3. pc'[c] \notin Previewing /\ pc'[c] # "target" /\ n \notin edits'
        BY <2>1 DEF Previewing
      <3> QED
        BY <2>1, <2>2, <2>5, <3>2, <3>3 DEF PreviewOf
    <2> QED
      BY <2>7, <2>8
  <1>3. ASSUME NEW m \in Ids, ConfirmRefused(c, m) PROVE FALSE
    BY <1>0, <1>3 DEF ConfirmRefused, calls, CarriedInv, Alone
  <1>4. \/ \E b \in Batches : Submit(c, b)
        \/ \E m \in Ids : Confirm(c, m) \/ ConfirmRefused(c, m)
    BY DEF Step, PreviewEdit, ApplyPatch, PreviewOne, PreviewTarget, PreviewFails, ApplyOne,
           OpenToWrite, Fill, RenameFile, Delete, OperationFails
  <1> QED
    BY <1>1, <1>2, <1>3, <1>4

\* A step of a call, by whose batch it is.
LEMMA CallKeeps ==
    ASSUME TypeInv, FitOK, CarriedInv, SerialInv, PreviewInv, NEW c \in Clients, Step(c)
    PROVE  SerialInv' /\ PreviewInv'
  <1> SUFFICES ASSUME NEW n \in Used' \ disturbed'
               PROVE  SerialOf(n)' /\ (Separate(batch'[n]) => PreviewOf(n)')
    BY DEF SerialInv, PreviewInv
  <1>1. CASE n # work[c] /\ n # work'[c]
    <2>1. Apart(n)
      BY <1>1, Elsewhere
    <2> QED
      BY <2>1, ApartStays DEF SerialInv, PreviewInv, Apart
  <1>2. CASE pc[c] = "idle" /\ n = work'[c]
    BY <1>2, TakenUp
  <1>3. CASE pc[c] # "idle" /\ n = work[c]
    <2>1. n \in Used \ disturbed /\ batch'[n] = batch[n]
      BY <1>3, OwnBatch, Writes
    <2>2. SerialOf(n) /\ SerialOf(n)'
      BY <1>3, <2>1, SerialOwn DEF SerialInv
    <2>3. Separate(batch[n]) => PreviewOf(n)'
      BY <1>3, <2>1, <2>2, PreviewOwn DEF PreviewInv
    <2> QED
      BY <2>1, <2>2, <2>3
  <1>4. (n = work[c] => pc[c] # "idle") /\ (n = work'[c] /\ n # work[c] => pc[c] = "idle")
    <2>1. n # 0
      BY DEF Used
    <2>2. pc[c] = "idle" <=> work[c] = 0
      BY DEF CarriedInv, Alone
    <2>3. pc[c] # "idle" => work'[c] \in {0, work[c]}
      <3>1. OfPreview(c) \/ OfApply(c) \/ OfStore(c)
        BY Kinds, TypeInvTyped
      <3> QED
        BY <3>1 DEF OfPreview, Submits, Previews, Offers, Drops, Begins, OfApply, Goes, GivesUp,
                    GoesOn, Ends, OfStore, Takes, Refuses, Returns, TypeInv, CallsOK
    <2> QED
      BY <2>1, <2>2, <2>3
  <1> QED
    BY <1>1, <1>2, <1>3, <1>4

\* What somebody else writes leaves a batch alone or disturbs it.
LEMMA OthersKeep ==
    ASSUME TypeInv, SerialInv, PreviewInv, (\E f \in Files : Foreign(f)) \/ UNCHANGED vars
    PROVE  SerialInv' /\ PreviewInv'
  <1> SUFFICES ASSUME NEW n \in Used' \ disturbed'
               PROVE  SerialOf(n)' /\ (Separate(batch'[n]) => PreviewOf(n)')
    BY DEF SerialInv, PreviewInv
  <1>1. ASSUME NEW f \in Files, Foreign(f) PROVE Apart(n)
    <2>1. /\ UNCHANGED <<edits, made, batch, pc, work, at, text, base, done, outcome>>
          /\ n \in Used /\ n # 0
      BY <1>1 DEF Foreign, server, Used
    <2>2. n \notin disturbed /\ f \notin Paths(n)
      BY <1>1, <2>1 DEF Foreign, Disturb
    <2>3. \A g \in Paths(n) : file'[g] = file[g]
      BY <1>1, <2>2 DEF Foreign, TypeInv, FilesOK
    <2>4. \A d \in Clients : opened[d] \in Paths(n) => opened'[d] = opened[d]
      BY <1>1, <2>2 DEF Foreign, Unlinked
    <2> QED
      BY <2>1, <2>2, <2>3, <2>4 DEF Apart
  <1>2. ASSUME UNCHANGED vars PROVE Apart(n)
    BY <1>2 DEF vars, server, calls, history, Apart, Used
  <1>3. Apart(n)
    BY <1>1, <1>2
  <1> QED
    BY <1>3, ApartStays DEF SerialInv, PreviewInv, Apart

LEMMA BatchesInvariant ==
    Spec => [](TypeInv /\ FitOK /\ CarriedInv /\ SerialInv /\ PreviewInv)
  <1>1. Init => SerialInv /\ PreviewInv
    BY DEF Init, Used, SerialInv, PreviewInv
  <1>2. TypeInv /\ FitOK /\ CarriedInv /\ SerialInv /\ PreviewInv /\ [Next]_vars => SerialInv' /\ PreviewInv'
    BY CallKeeps, OthersKeep DEF Next
  <1> QED
    BY <1>1, <1>2, TypesInitially, TypesInductive, Initially, Inductive, PTL DEF Spec

\* A batch whose files nobody else wrote to since it was submitted leaves exactly its first
\* changes (UndisturbedIsSerial): although apply_one reads, checks and writes in separate
\* steps without a lock (apply.rs 14-140), no interleaving of calls and no failure skips a
\* change, makes one twice, or makes it of a text that is not the file's.
THEOREM UndisturbedSerial == Spec => []UndisturbedIsSerial
  <1>1. SerialInv => UndisturbedIsSerial
    BY DEF SerialInv, SerialOf, UndisturbedIsSerial
  <1> QED
    BY <1>1, BatchesInvariant, PTL

\* A preview can be relied on (PreviewPredicts): a batch whose changes touch a file each and
\* that nobody disturbed is not refused by apply_one, whose checks are code of their own
\* (preview.rs 15-204, apply.rs 16-137), however long it waits to be confirmed.
THEOREM PreviewsPredict == Spec => []PreviewPredicts
  <1>1. PreviewInv => PreviewPredicts
    BY DEF PreviewInv, PreviewOf, PreviewPredicts
  <1> QED
    BY <1>1, BatchesInvariant, PTL
=============================================================================
