------------------------- MODULE SearchIndexProofs -------------------------
(***************************************************************************)
(* Proofs about SearchIndex, for any number of searches, files and texts   *)
(* and any number of changes: type correctness, the postings follow the    *)
(* records, a flag that is down can be trusted, and a search that was told *)
(* of every change misses nothing.  That the candidates may be trusted to  *)
(* hold every match (Match \subseteq Grams) is proved of the trigrams      *)
(* themselves, in WorkspaceReadsProofs.                                    *)
(***************************************************************************)
EXTENDS SearchIndex, TLAPS

\* Who holds the mutex is refreshing, and nobody else is.
LockInv ==
    /\ OneRefresher
    /\ \A s \in Searches : pc[s] = "read" => visiting \in Files

\* No stamp is ahead of the changes made.
StampInv ==
    \A f \in Files :
        stamp[f] <= writes /\ record[f].stamp <= writes /\ next[f].stamp <= writes

\* A record with the stamp a file has now holds the file's text.
True(rs) ==
    \A f \in Files :
        rs[f].text # Absent /\ text[f] # Absent /\ rs[f].stamp = stamp[f] => rs[f].text = text[f]
TruthInv == StampsTell => True(record) /\ True(next)

\* Records gathered under the stamp of an old one are the old ones; the file being read
\* has another stamp than its old record, or had none.
NextInv ==
    /\ \A f \in Files :
         next[f].text # Absent /\ record[f].text # Absent /\ next[f].stamp = record[f].stamp =>
             next[f].text = record[f].text
    /\ \A s \in Searches : pc[s] = "read" =>
         /\ next[visiting].text = Absent
         /\ record[visiting].text # Absent => next[visiting].stamp # record[visiting].stamp

\* The flag stays up until it has a watcher to put it up again.
FlagInv == ~watched => dirty

\* While no event is on its way and the flag is down: present files have a record of
\* their present stamp, or the refresh has still to come to them.
Current(rs, f) == rs[f].text # Absent /\ rs[f].stamp = stamp[f]
Quiet == StampsTell /\ watched /\ ~dirty /\ events = 0
Refreshed == lock = Nobody /\ initialized => \A f \in Present : Current(record, f)
Walked ==
    \A s \in Searches : \A f \in Present :
        /\ pc[s] = "walk" => f \in todo \/ Current(next, f)
        /\ pc[s] = "read" =>
             \/ f \in todo \/ Current(next, f)
             \/ f = visiting /\ next[f].stamp = stamp[f]
FreshInv == Quiet => Refreshed /\ Walked

\* Where a search has the files that match all along.
SteadyInv ==
    \A s \in Searches : \A f \in steady[s] :
        /\ text[f] \in Match
        /\ StampsTell =>
             /\ pc[s] = "walk" => f \in todo \/ next[f].text \in Match
             /\ pc[s] = "read" => f \in todo \/ next[f].text \in Match \/ f = visiting
             /\ pc[s] = "scan" /\ heard[s] => f \in cand[s] \/ f \in found[s]
             /\ pc[s] = "done" /\ heard[s] => f \in found[s]

IndexInv ==
    /\ Typed /\ LockInv /\ StampInv /\ TruthInv /\ NextInv /\ PostingsFollowRecords
    /\ FlagInv /\ FreshInv /\ SteadyInv

-----------------------------------------------------------------------------

\* The index is typed in every state: see TypeCorrect.
LEMMA TypeStep == Typed /\ [Next]_vars => Typed'
  <1> SUFFICES ASSUME Typed, [Next]_vars PROVE Typed'
    OBVIOUS
  <1> USE SearchAssumption DEF Typed, Records, NoRecord, NoRecords, NoPosting, Present, Matching
  <1> USE DEF files, index, refresh, searches, MutexFree
  <1>1. ASSUME NEW f \in Files, Change(f) PROVE Typed'
    <2>1. text' \in [Files -> Texts \cup {Absent}] /\ stamp' \in [Files -> Nat]
      BY <1>1 DEF Change
    <2>2. writes' \in Nat /\ events' \in Nat /\ steady' \in [Searches -> SUBSET Files]
      BY <1>1 DEF Change
    <2> QED
      BY <1>1, <2>1, <2>2 DEF Change
  <1>2. CASE Deliver
    BY <1>2 DEF Deliver
  <1>3. CASE Stir
    BY <1>3 DEF Stir
  <1>4. CASE Evict
    BY <1>4 DEF Evict
  <1>5. ASSUME NEW s \in Searches, Step(s) PROVE Typed'
    <2>1. CASE UseIndex(s)
      BY <2>1 DEF UseIndex, Begin, EnsureWatcher, Candidates
    <2>2. CASE Refresh(s)
      BY <2>2 DEF Refresh, Begin, EnsureWatcher
    <2>3. CASE List(s)
      BY <2>3 DEF List
    <2>4. ASSUME NEW f \in Files, Stat(s, f) PROVE Typed'
      <3>1. next' \in [Files -> Records]
        BY <2>4 DEF Stat
      <3>2. visiting' \in Files \cup {Absent} /\ todo' \subseteq Files
        BY <2>4 DEF Stat
      <3>3. pc' \in [Searches -> {"idle", "list", "walk", "read", "scan", "done"}]
        BY <2>4 DEF Stat
      <3> QED
        BY <2>4, <3>1, <3>2, <3>3 DEF Stat
    <2>5. CASE Read(s)
      <3>1. next' \in [Files -> Records]
        BY <2>5 DEF Read
      <3> QED
        BY <2>5, <3>1 DEF Read
    <2>6. CASE Finish(s)
      <3>1. posted' \in [Files -> Texts \cup {Absent}]
        BY <2>6 DEF Finish
      <3> QED
        BY <2>6, <3>1 DEF Finish, Candidates, KeepFlag
    <2>7. CASE SearchAll(s)
      BY <2>7 DEF SearchAll, Begin
    <2>8. ASSUME NEW f \in Files, Scan(s, f) PROVE Typed'
      BY <2>8 DEF Scan
    <2>9. CASE Return(s)
      BY <2>9 DEF Return
    <2> QED
      BY <1>5, <2>1, <2>2, <2>3, <2>4, <2>5, <2>6, <2>7, <2>8, <2>9 DEF Step
  <1>6. CASE UNCHANGED vars
    BY <1>6 DEF vars
  <1> QED
    BY <1>1, <1>2, <1>3, <1>4, <1>5, <1>6 DEF Next

LEMMA LockStep == Typed /\ LockInv /\ [Next]_vars => LockInv'
  <1> SUFFICES ASSUME Typed, LockInv, [Next]_vars PROVE LockInv'
    OBVIOUS
  <1> USE SearchAssumption DEF Typed, LockInv, OneRefresher, MutexFree, files, index, refresh, searches
  <1>1. ASSUME NEW f \in Files, Change(f) PROVE LockInv'
    BY <1>1 DEF Change
  <1>2. CASE Deliver \/ Stir \/ Evict
    BY <1>2 DEF Deliver, Stir, Evict
  <1>3. ASSUME NEW s \in Searches, Step(s) PROVE LockInv'
    <2>1. CASE UseIndex(s) \/ SearchAll(s)
      BY <2>1 DEF UseIndex, SearchAll, Begin
    <2>2. CASE Refresh(s)
      BY <2>2 DEF Refresh, Begin
    <2>3. CASE List(s) \/ Read(s) \/ Return(s)
      BY <2>3 DEF List, Read, Return
    <2>4. ASSUME NEW f \in Files, Stat(s, f) PROVE LockInv'
      BY <2>4 DEF Stat
    <2>5. CASE Finish(s)
      BY <2>5 DEF Finish
    <2>6. ASSUME NEW f \in Files, Scan(s, f) PROVE LockInv'
      BY <2>6 DEF Scan
    <2> QED
      BY <1>3, <2>1, <2>2, <2>3, <2>4, <2>5, <2>6 DEF Step
  <1>4. CASE UNCHANGED vars
    BY <1>4 DEF vars
  <1> QED
    BY <1>1, <1>2, <1>3, <1>4 DEF Next

LEMMA StampStep == Typed /\ StampInv /\ [Next]_vars => StampInv'
  <1> SUFFICES ASSUME Typed, StampInv, [Next]_vars PROVE StampInv'
    OBVIOUS
  <1> USE DEF Typed, StampInv, Records, NoRecord, NoRecords
  <1> USE DEF files, index, refresh, searches, MutexFree
  <1>1. ASSUME NEW f \in Files, Change(f) PROVE StampInv'
    <2>1. PICK n \in {writes + 1} \cup (IF StampsTell THEN {} ELSE {stamp[f]}) :
              stamp' = [stamp EXCEPT ![f] = n]
      BY <1>1, Zenon DEF Change
    <2>2. n = writes + 1 \/ n = stamp[f]
      BY <2>1, Zenon
    <2>4. n \in Nat /\ n <= writes + 1
      BY <2>2
    <2>3. writes' = writes + 1 /\ UNCHANGED <<record, next>>
      BY <1>1 DEF Change
    <2> QED
      BY <2>1, <2>3, <2>4
  <1>2. CASE Deliver \/ Stir \/ Evict
    BY <1>2 DEF Deliver, Stir, Evict
  <1>3. ASSUME NEW s \in Searches, Step(s) PROVE StampInv'
    <2>1. CASE UseIndex(s) \/ SearchAll(s) \/ Refresh(s) \/ Return(s)
      BY <2>1 DEF UseIndex, SearchAll, Refresh, Return
    <2>2. CASE List(s)
      BY <2>2 DEF List
    <2>3. ASSUME NEW f \in Files, Stat(s, f) PROVE StampInv'
      <3>1. UNCHANGED <<stamp, writes, record>>
        BY <2>3 DEF Stat
      <3>2. \/ next' = next
            \/ next' = [next EXCEPT ![f] = record[f]]
            \/ next' = [next EXCEPT ![f] = [stamp |-> stamp[f], text |-> Absent]]
        BY <2>3 DEF Stat
      <3> QED
        BY <3>1, <3>2
    <2>4. CASE Read(s)
      BY <2>4 DEF Read
    <2>5. CASE Finish(s)
      BY <2>5 DEF Finish
    <2>6. ASSUME NEW f \in Files, Scan(s, f) PROVE StampInv'
      BY <2>6 DEF Scan
    <2> QED
      BY <1>3, <2>1, <2>2, <2>3, <2>4, <2>5, <2>6 DEF Step
  <1>4. CASE UNCHANGED vars
    BY <1>4 DEF vars
  <1> QED
    BY <1>1, <1>2, <1>3, <1>4 DEF Next

\* A change gives its file a stamp no record has; a record is made of the text a file
\* has after its stamp was taken.
LEMMA TruthStep == Typed /\ LockInv /\ StampInv /\ TruthInv /\ [Next]_vars => TruthInv'
  <1> SUFFICES ASSUME Typed, LockInv, StampInv, TruthInv, StampsTell, [Next]_vars
               PROVE  True(record)' /\ True(next)'
    BY DEF TruthInv
  <1> True(record) /\ True(next)
    BY DEF TruthInv
  <1> USE DEF Typed, True, Records, NoRecord, NoRecords
  <1> USE DEF files, index, refresh, searches, MutexFree
  <1>1. ASSUME NEW f \in Files, Change(f) PROVE True(record)' /\ True(next)'
    <2>1. stamp' = [stamp EXCEPT ![f] = writes + 1] /\ UNCHANGED <<record, next>>
      BY <1>1 DEF Change
    <2>2. \A g \in Files : g # f => text'[g] = text[g] /\ stamp'[g] = stamp[g]
      BY <1>1, <2>1 DEF Change
    <2>3. record[f].stamp # stamp'[f] /\ next[f].stamp # stamp'[f]
      BY <2>1 DEF StampInv
    <2> QED
      BY <2>1, <2>2, <2>3
  <1>2. CASE Deliver \/ Stir \/ Evict
    BY <1>2 DEF Deliver, Stir, Evict
  <1>3. ASSUME NEW s \in Searches, Step(s) PROVE True(record)' /\ True(next)'
    <2>1. CASE UseIndex(s) \/ SearchAll(s) \/ Refresh(s) \/ Return(s)
      BY <2>1 DEF UseIndex, SearchAll, Refresh, Return
    <2>2. CASE List(s)
      BY <2>2 DEF List
    <2>3. ASSUME NEW f \in Files, Stat(s, f) PROVE True(record)' /\ True(next)'
      BY <2>3 DEF Stat
    <2>4. CASE Read(s)
      <3>1. visiting \in Files
        BY <2>4 DEF Read, LockInv, OneRefresher
      <3> QED
        BY <2>4, <3>1 DEF Read
    <2>5. CASE Finish(s)
      BY <2>5 DEF Finish
    <2>6. ASSUME NEW f \in Files, Scan(s, f) PROVE True(record)' /\ True(next)'
      BY <2>6 DEF Scan
    <2> QED
      BY <1>3, <2>1, <2>2, <2>3, <2>4, <2>5, <2>6 DEF Step
  <1>4. CASE UNCHANGED vars
    BY <1>4 DEF vars
  <1> QED
    BY <1>1, <1>2, <1>3, <1>4 DEF Next

\* Within a walk a record is kept, or read anew under another stamp than the old one's.
LEMMA NextStep == Typed /\ LockInv /\ NextInv /\ [Next]_vars => NextInv'
  <1> SUFFICES ASSUME Typed, LockInv, NextInv, [Next]_vars PROVE NextInv'
    OBVIOUS
  <1> USE SearchAssumption DEF Typed, NextInv, Records, NoRecord, NoRecords
  <1> USE DEF files, index, refresh, searches, MutexFree
  <1>1. ASSUME NEW f \in Files, Change(f) PROVE NextInv'
    BY <1>1 DEF Change
  <1>2. CASE Deliver \/ Stir
    BY <1>2 DEF Deliver, Stir
  <1>3. CASE Evict
    BY <1>3 DEF Evict, LockInv, OneRefresher
  <1>4. ASSUME NEW s \in Searches, Step(s) PROVE NextInv'
    <2>1. CASE UseIndex(s) \/ SearchAll(s) \/ Refresh(s) \/ Return(s)
      BY <2>1 DEF UseIndex, SearchAll, Refresh, Return
    <2>2. CASE List(s)
      <3>1. \A r \in Searches : pc'[r] # "read"
        BY <2>2 DEF List, LockInv, OneRefresher
      <3> QED
        BY <2>2, <3>1 DEF List
    <2>3. ASSUME NEW f \in Files, Stat(s, f) PROVE NextInv'
      <3>1. \A r \in Searches : pc[r] # "read"
        BY <2>3 DEF Stat, LockInv, OneRefresher
      <3>2. CASE text[f] = Absent
        BY <2>3, <3>1, <3>2 DEF Stat
      <3>3. CASE text[f] # Absent /\ CanReuse(f)
        BY <2>3, <3>1, <3>3 DEF Stat
      <3>4. CASE text[f] # Absent /\ ~CanReuse(f)
        <4>1. next' = [next EXCEPT ![f] = [stamp |-> stamp[f], text |-> Absent]]
          BY <2>3, <3>4 DEF Stat
        <4>2. visiting' = f /\ record' = record
          BY <2>3, <3>4 DEF Stat
        <4>3. next'[f].stamp = stamp[f] /\ next'[f].text = Absent
          BY <4>1
        <4>4. \A g \in Files : g # f => next'[g] = next[g]
          BY <4>1
        <4>5. record[f].text # Absent => stamp[f] # record[f].stamp
          BY <3>4 DEF CanReuse
        <4> QED
          BY <4>2, <4>3, <4>4, <4>5
      <3> QED
        BY <3>2, <3>3, <3>4
    <2>4. CASE Read(s)
      <3>1. visiting \in Files /\ \A r \in Searches : pc'[r] # "read"
        BY <2>4 DEF Read, LockInv, OneRefresher
      <3>2. next'[visiting].stamp = next[visiting].stamp \/ next'[visiting].text = Absent
        BY <2>4, <3>1 DEF Read
      <3>3. \A g \in Files : g # visiting => next'[g] = next[g]
        BY <2>4, <3>1 DEF Read
      <3> QED
        BY <2>4, <3>1, <3>2, <3>3 DEF Read
    <2>5. CASE Finish(s)
      <3>1. \A r \in Searches : pc'[r] # "read"
        BY <2>5 DEF Finish, LockInv, OneRefresher
      <3> QED
        BY <2>5, <3>1 DEF Finish
    <2>6. ASSUME NEW f \in Files, Scan(s, f) PROVE NextInv'
      BY <2>6 DEF Scan
    <2> QED
      BY <1>4, <2>1, <2>2, <2>3, <2>4, <2>5, <2>6 DEF Step
  <1>5. CASE UNCHANGED vars
    BY <1>5 DEF vars
  <1> QED
    BY <1>1, <1>2, <1>3, <1>4, <1>5 DEF Next

\* If the postings are kept, no record differs from the one they were built from.
LEMMA PostingsStep ==
    Typed /\ NextInv /\ PostingsFollowRecords /\ [Next]_vars => PostingsFollowRecords'
  <1> SUFFICES ASSUME Typed, NextInv, PostingsFollowRecords, [Next]_vars
               PROVE  PostingsFollowRecords'
    OBVIOUS
  <1> USE DEF Typed, PostingsFollowRecords, Records
  <1> USE DEF files, index, refresh, searches, MutexFree
  <1>1. ASSUME NEW f \in Files, Change(f) PROVE PostingsFollowRecords'
    BY <1>1 DEF Change
  <1>2. CASE Deliver \/ Stir
    BY <1>2 DEF Deliver, Stir
  <1>3. CASE Evict
    BY <1>3 DEF Evict, NoRecords, NoRecord, NoPosting
  <1>4. ASSUME NEW s \in Searches, Step(s) PROVE PostingsFollowRecords'
    <2>1. CASE UseIndex(s) \/ SearchAll(s) \/ Refresh(s) \/ Return(s)
      BY <2>1 DEF UseIndex, SearchAll, Refresh, Return
    <2>2. CASE List(s) \/ Read(s)
      BY <2>2 DEF List, Read
    <2>3. ASSUME NEW f \in Files, Stat(s, f) \/ Scan(s, f) PROVE PostingsFollowRecords'
      BY <2>3 DEF Stat, Scan
    <2>4. CASE Finish(s)
      <3>1. record' = next
        BY <2>4 DEF Finish
      <3>2. CASE posted' = [f \in Files |-> next[f].text]
        BY <3>1, <3>2
      <3>3. CASE posted' = posted /\ ~Changed
        <4>1. \A f \in Files : next[f].text # Absent <=> record[f].text # Absent
          BY <3>3 DEF Changed, Held
        <4>2. \A f \in Files : next[f].text # Absent => next[f].stamp = record[f].stamp
          BY <3>3 DEF Changed, Held
        <4>3. \A f \in Files : next[f].text = record[f].text
          BY <4>1, <4>2 DEF NextInv
        <4> QED
          BY <3>1, <3>3, <4>3
      <3> QED
        BY <2>4, <3>2, <3>3 DEF Finish
    <2> QED
      BY <1>4, <2>1, <2>2, <2>3, <2>4 DEF Step
  <1>5. CASE UNCHANGED vars
    BY <1>5 DEF vars
  <1> QED
    BY <1>1, <1>2, <1>3, <1>4, <1>5 DEF Next

LEMMA FlagStep == Typed /\ FlagInv /\ [Next]_vars => FlagInv'
  <1> SUFFICES ASSUME Typed, FlagInv, [Next]_vars PROVE FlagInv'
    OBVIOUS
  <1> USE DEF Typed, FlagInv, files, index, refresh, searches
  <1>1. ASSUME NEW f \in Files, Change(f) PROVE FlagInv'
    BY <1>1 DEF Change
  <1>2. CASE Deliver \/ Stir \/ Evict
    BY <1>2 DEF Deliver, Stir, Evict
  <1>3. ASSUME NEW s \in Searches, Step(s) PROVE FlagInv'
    <2>1. CASE UseIndex(s)
      BY <2>1 DEF UseIndex, EnsureWatcher, Trusted
    <2>2. CASE Refresh(s)
      <3>1. CASE watched'
        BY <3>1
      <3>2. CASE ~watched'
        <4>1. ~watched
          BY <2>2, <3>2, Zenon DEF Refresh, EnsureWatcher
        <4>2. dirty
          BY <4>1
        <4> QED
          BY <2>2, <3>2, <4>2, Zenon DEF Refresh
      <3> QED
        BY <3>1, <3>2
    <2>3. CASE SearchAll(s) \/ Return(s) \/ List(s) \/ Read(s)
      BY <2>3 DEF SearchAll, Return, List, Read
    <2>4. CASE Finish(s)
      BY <2>4 DEF Finish, KeepFlag
    <2>5. ASSUME NEW f \in Files, Stat(s, f) \/ Scan(s, f) PROVE FlagInv'
      BY <2>5 DEF Stat, Scan
    <2> QED
      BY <1>3, <2>1, <2>2, <2>3, <2>4, <2>5 DEF Step
  <1>4. CASE UNCHANGED vars
    BY <1>4 DEF vars
  <1> QED
    BY <1>1, <1>2, <1>3, <1>4 DEF Next

\* Between the swap that takes the flag down and the end of the walk nothing changes
\* unnoticed: a change leaves an event on its way, and its delivery puts the flag up.
LEMMA FreshStep ==
    Typed /\ LockInv /\ FlagInv /\ FreshInv /\ [Next]_vars => FreshInv'
  <1> SUFFICES ASSUME Typed, LockInv, FlagInv, FreshInv, [Next]_vars, Quiet'
               PROVE  Refreshed' /\ Walked'
    BY DEF FreshInv
  <1> USE SearchAssumption DEF Typed, Records, NoRecord, Current, Present
  <1> USE DEF files, index, refresh, searches, MutexFree
  <1>1. ASSUME NEW f \in Files, Change(f) PROVE FALSE
    BY <1>1 DEF Change, Quiet
  <1>2. CASE Deliver \/ Stir \/ Evict
    BY <1>2 DEF Deliver, Stir, Evict, Quiet
  <1>3. ASSUME NEW s \in Searches, Step(s) PROVE Refreshed' /\ Walked'
    <2>1. CASE UseIndex(s)
      <3>1. Quiet
        BY <2>1 DEF UseIndex, EnsureWatcher, Trusted, Quiet, FlagInv
      <3>2. Refreshed /\ Walked
        BY <3>1 DEF FreshInv
      <3> QED
        BY <2>1, <3>2 DEF UseIndex, Refreshed, Walked
    <2>2. CASE Refresh(s)
      <3>1. lock' # Nobody
        BY <2>2 DEF Refresh
      <3>2. \A r \in Searches : pc'[r] \notin {"walk", "read"}
        BY <2>2 DEF Refresh, LockInv, OneRefresher
      <3> QED
        BY <3>1, <3>2 DEF Refreshed, Walked
    <2>3. CASE List(s)
      <3>1. lock' # Nobody
        BY <2>3 DEF List, LockInv, OneRefresher
      <3>2. \A r \in Searches : pc'[r] # "read" /\ Present' = todo'
        BY <2>3 DEF List, LockInv, OneRefresher
      <3> QED
        BY <3>1, <3>2 DEF Refreshed, Walked
    <2>4. ASSUME NEW f \in Files, Stat(s, f) PROVE Refreshed' /\ Walked'
      <3>1. Quiet
        BY <2>4 DEF Stat, Quiet
      <3>2. lock' # Nobody
        BY <2>4 DEF Stat, LockInv, OneRefresher
      <3>3. \A g \in Present : g \in todo \/ Current(next, g)
        BY <2>4, <3>1 DEF Stat, FreshInv, Walked
      <3>4. UNCHANGED <<text, stamp>> /\ \A g \in Files : g # f => next'[g] = next[g]
        BY <2>4 DEF Stat
      <3>5. \A g \in Present : g # f => g \in todo' \/ Current(next, g)'
        BY <2>4, <3>3, <3>4 DEF Stat
      <3>6. \A r \in Searches : pc'[r] \in {"walk", "read"} => r = s
        BY <2>4 DEF Stat, LockInv, OneRefresher
      <3>7. CASE text[f] = Absent
        BY <3>2, <3>4, <3>5, <3>7 DEF Refreshed, Walked
      <3>8. CASE text[f] # Absent /\ CanReuse(f)
        <4>1. next'[f] = record[f]
          BY <2>4, <3>8 DEF Stat
        <4>2. Current(next, f)'
          BY <3>4, <3>8, <4>1 DEF CanReuse
        <4> QED
          BY <3>2, <3>4, <3>5, <4>2 DEF Refreshed, Walked
      <3>9. CASE text[f] # Absent /\ ~CanReuse(f)
        <4>1. pc'[s] = "read" /\ visiting' = f /\ next'[f].stamp = stamp[f]
          BY <2>4, <3>9 DEF Stat
        <4> QED
          BY <3>2, <3>4, <3>5, <3>6, <4>1 DEF Refreshed, Walked
      <3> QED
        BY <3>7, <3>8, <3>9
    <2>5. CASE Read(s)
      <3>1. Quiet
        BY <2>5 DEF Read, Quiet
      <3>2. lock' # Nobody
        BY <2>5 DEF Read, LockInv, OneRefresher
      <3>3. visiting \in Files /\ \A r \in Searches : pc'[r] # "read"
        BY <2>5 DEF Read, LockInv, OneRefresher
      <3>4. \A g \in Present :
                \/ g \in todo \/ Current(next, g)
                \/ g = visiting /\ next[g].stamp = stamp[g]
        BY <2>5, <3>1 DEF Read, FreshInv, Walked
      <3>5. UNCHANGED <<text, stamp, todo>>
        BY <2>5 DEF Read
      <3>6. \A g \in Files : g # visiting => next'[g] = next[g]
        BY <2>5, <3>3 DEF Read
      <3>7. text[visiting] # Absent =>
                next'[visiting] = [stamp |-> next[visiting].stamp, text |-> text[visiting]]
        BY <2>5, <3>3 DEF Read
      <3>8. \A g \in Present : g \in todo' \/ Current(next, g)'
        BY <3>3, <3>4, <3>5, <3>6, <3>7
      <3> QED
        BY <3>2, <3>3, <3>5, <3>8 DEF Refreshed, Walked
    <2>6. CASE Finish(s)
      <3>1. Quiet
        BY <2>6 DEF Finish, KeepFlag, Quiet
      <3>2. \A r \in Searches : pc'[r] \notin {"walk", "read"}
        BY <2>6 DEF Finish, LockInv, OneRefresher
      <3>3. \A g \in Present : Current(next, g)
        BY <2>6, <3>1 DEF Finish, FreshInv, Walked
      <3>4. record' = next /\ UNCHANGED <<text, stamp>>
        BY <2>6 DEF Finish
      <3> QED
        BY <3>2, <3>3, <3>4 DEF Refreshed, Walked
    <2>7. CASE SearchAll(s) \/ Return(s) \/ \E f \in Files : Scan(s, f)
      <3>1. Quiet
        BY <2>7 DEF SearchAll, Return, Scan, Quiet
      <3>2. Refreshed /\ Walked
        BY <3>1 DEF FreshInv
      <3>3. UNCHANGED <<text, stamp, record, next, todo, visiting, lock, initialized>>
        BY <2>7 DEF SearchAll, Return, Scan
      <3>4. \A r \in Searches : pc'[r] \in {"walk", "read"} => pc'[r] = pc[r]
        BY <2>7 DEF SearchAll, Return, Scan
      <3> QED
        BY <3>2, <3>3, <3>4 DEF Refreshed, Walked
    <2> QED
      BY <1>3, <2>1, <2>2, <2>3, <2>4, <2>5, <2>6, <2>7 DEF Step
  <1>4. CASE UNCHANGED vars
    BY <1>4 DEF vars, FreshInv, Quiet, Refreshed, Walked
  <1> QED
    BY <1>1, <1>2, <1>3, <1>4 DEF Next

\* A file that matches all along is found, or lies where the search has yet to come.
LEMMA SteadyStep ==
    /\ Typed /\ LockInv /\ TruthInv /\ FlagInv /\ FreshInv /\ SteadyInv
    /\ PostingsFollowRecords /\ PostingsFollowRecords' /\ [Next]_vars
    => SteadyInv'
  <1> SUFFICES ASSUME Typed, LockInv, TruthInv, FlagInv, FreshInv, SteadyInv,
                      PostingsFollowRecords, PostingsFollowRecords', [Next]_vars
               PROVE  SteadyInv'
    OBVIOUS
  <1> USE SearchAssumption DEF Typed, Records, NoRecord, Present, Matching
  <1> USE DEF files, index, refresh, searches, MutexFree
  <1>1. ASSUME NEW f \in Files, Change(f) PROVE SteadyInv'
    <2>1. PICK t \in Texts \cup {Absent} :
              /\ text' = [text EXCEPT ![f] = t]
              /\ steady' = [s \in Searches |->
                              IF t \in Match THEN steady[s] ELSE steady[s] \ {f}]
      BY <1>1 DEF Change
    <2>2. \A s \in Searches : steady'[s] \subseteq steady[s]
      BY <2>1
    <2>3. \A s \in Searches : \A g \in steady'[s] : text'[g] \in Match
      BY <2>1 DEF SteadyInv
    <2>4. UNCHANGED <<todo, next, visiting, pc, cand, found, heard>>
      BY <1>1 DEF Change
    <2> QED
      BY <2>2, <2>3, <2>4 DEF SteadyInv
  <1>2. CASE Deliver \/ Stir \/ Evict
    BY <1>2 DEF Deliver, Stir, Evict, SteadyInv
  <1>3. ASSUME NEW s \in Searches, Step(s) PROVE SteadyInv'
    <2>1. CASE UseIndex(s)
      <3>1. steady' = [steady EXCEPT ![s] = {g \in Files : text[g] \in Match}]
        BY <2>1 DEF UseIndex, Begin
      <3>2. ASSUME NEW g \in Files, text[g] \in Match, StampsTell, heard'[s]
            PROVE  g \in cand'[s]
        <4>1. events = 0
          BY <2>1, <3>2 DEF UseIndex
        <4>2. Quiet /\ lock = Nobody /\ initialized
          BY <2>1, <3>2, <4>1 DEF UseIndex, EnsureWatcher, Trusted, Quiet, FlagInv
        <4>3. Current(record, g)
          BY <3>2, <4>2 DEF FreshInv, Refreshed
        <4>4. posted[g] \in Grams
          BY <3>2, <4>3 DEF Current, TruthInv, True, PostingsFollowRecords
        <4> QED
          BY <2>1, <4>4 DEF UseIndex, Candidates
      <3>3. UNCHANGED <<text, todo, next, visiting>> /\ pc'[s] = "scan"
        BY <2>1 DEF UseIndex
      <3>4. \A r \in Searches \ {s} : /\ steady'[r] = steady[r] /\ pc'[r] = pc[r]
                                      /\ heard'[r] = heard[r] /\ cand'[r] = cand[r]
                                      /\ found'[r] = found[r]
        BY <2>1 DEF UseIndex, Begin
      <3> QED
        BY <3>1, <3>2, <3>3, <3>4 DEF SteadyInv
    <2>2. CASE Refresh(s)
      BY <2>2 DEF Refresh, Begin, SteadyInv
    <2>3. CASE List(s)
      BY <2>3 DEF List, SteadyInv
    <2>4. ASSUME NEW f \in Files, Stat(s, f) PROVE SteadyInv'
      <3>1. UNCHANGED <<text, steady, heard, cand, found>> /\ todo' = todo \ {f}
        BY <2>4 DEF Stat
      <3>2. \A r \in Searches : r # s => pc'[r] = pc[r] /\ pc[r] \notin {"walk", "read"}
        BY <2>4 DEF Stat, LockInv, OneRefresher
      <3>3. \A g \in Files : g # f => next'[g] = next[g]
        BY <2>4 DEF Stat
      <3>4. pc'[s] \in {"walk", "read"}
        BY <2>4 DEF Stat
      <3>5. \A g \in steady[s] :
                StampsTell /\ g # f => g \in todo' \/ next'[g].text \in Match
        BY <2>4, <3>1, <3>3 DEF Stat, SteadyInv
      <3>6. ASSUME f \in steady[s], StampsTell
            PROVE  \/ next'[f].text \in Match
                   \/ pc'[s] = "read" /\ f = visiting'
        <4>1. text[f] \in Match /\ StampsTell
          BY <3>6 DEF SteadyInv
        <4>2. CASE CanReuse(f)
          <5>1. next'[f] = record[f]
            BY <2>4, <4>1, <4>2 DEF Stat
          <5>2. record[f].text = text[f]
            BY <4>1, <4>2 DEF CanReuse, TruthInv, True
          <5> QED
            BY <4>1, <5>1, <5>2
        <4>3. CASE ~CanReuse(f)
          BY <2>4, <4>1, <4>3 DEF Stat
        <4> QED
          BY <4>2, <4>3
      <3> QED
        BY <3>1, <3>2, <3>4, <3>5, <3>6 DEF SteadyInv
    <2>5. CASE Read(s)
      <3>1. visiting \in Files
        BY <2>5 DEF Read, LockInv, OneRefresher
      <3>2. UNCHANGED <<text, todo, steady, heard, cand, found>> /\ pc'[s] = "walk"
        BY <2>5 DEF Read
      <3>3. \A r \in Searches : r # s => pc'[r] = pc[r] /\ pc[r] \notin {"walk", "read"}
        BY <2>5 DEF Read, LockInv, OneRefresher
      <3>4. \A g \in Files : g # visiting => next'[g] = next[g]
        BY <2>5, <3>1 DEF Read
      <3>5. text[visiting] # Absent => next'[visiting].text = text[visiting]
        BY <2>5, <3>1 DEF Read
      <3>6. \A g \in steady[s] : StampsTell => g \in todo \/ next'[g].text \in Match
        BY <2>5, <3>4, <3>5 DEF Read, SteadyInv
      <3> QED
        BY <3>2, <3>3, <3>6 DEF SteadyInv
    <2>6. CASE Finish(s)
      <3>1. UNCHANGED <<text, todo, next, visiting, steady, heard, found>> /\ pc'[s] = "scan"
        BY <2>6 DEF Finish
      <3>2. \A r \in Searches : r # s => pc'[r] = pc[r] /\ cand'[r] = cand[r]
        BY <2>6 DEF Finish
      <3>3. \A g \in Files : posted'[g] = next[g].text
        BY <2>6 DEF Finish, PostingsFollowRecords
      <3>4. \A g \in steady[s] : StampsTell => g \in cand'[s]
        BY <2>6, <3>3 DEF Finish, Candidates, SteadyInv
      <3> QED
        BY <3>1, <3>2, <3>4 DEF SteadyInv
    <2>7. CASE SearchAll(s)
      BY <2>7 DEF SearchAll, Begin, SteadyInv
    <2>8. ASSUME NEW f \in Files, Scan(s, f) PROVE SteadyInv'
      BY <2>8 DEF Scan, SteadyInv
    <2>9. CASE Return(s)
      BY <2>9 DEF Return, SteadyInv
    <2> QED
      BY <1>3, <2>1, <2>2, <2>3, <2>4, <2>5, <2>6, <2>7, <2>8, <2>9 DEF Step
  <1>4. CASE UNCHANGED vars
    BY <1>4 DEF vars, SteadyInv
  <1> QED
    BY <1>1, <1>2, <1>3, <1>4 DEF Next

LEMMA Initially == Init => IndexInv
  <1> SUFFICES ASSUME Init PROVE IndexInv
    OBVIOUS
  <1> USE SearchAssumption DEF Init, NoRecords, NoRecord, NoPosting
  <1>1. Typed
    BY DEF Typed, Records
  <1>2. LockInv /\ FlagInv /\ PostingsFollowRecords
    BY DEF LockInv, OneRefresher, FlagInv, PostingsFollowRecords
  <1>3. StampInv /\ TruthInv /\ NextInv
    BY DEF StampInv, TruthInv, True, NextInv
  <1>4. FreshInv /\ SteadyInv
    BY DEF FreshInv, Quiet, SteadyInv
  <1> QED
    BY <1>1, <1>2, <1>3, <1>4 DEF IndexInv

LEMMA Inductive == IndexInv /\ [Next]_vars => IndexInv'
  <1> SUFFICES ASSUME IndexInv, [Next]_vars PROVE IndexInv'
    OBVIOUS
  <1>1. /\ Typed /\ LockInv /\ StampInv /\ TruthInv /\ NextInv /\ PostingsFollowRecords
        /\ FlagInv /\ FreshInv /\ SteadyInv
    BY DEF IndexInv
  <1>2. Typed' /\ LockInv' /\ StampInv' /\ TruthInv' /\ NextInv'
    BY <1>1, TypeStep, LockStep, StampStep, TruthStep, NextStep
  <1>3. PostingsFollowRecords' /\ FlagInv' /\ FreshInv'
    BY <1>1, PostingsStep, FlagStep, FreshStep
  <1>4. SteadyInv'
    BY <1>1, <1>3, SteadyStep
  <1> QED
    BY <1>2, <1>3, <1>4 DEF IndexInv

LEMMA Invariance == Spec => []IndexInv
  BY Initially, Inductive, PTL DEF Spec

\* Every variable keeps to its type, and who refreshes the index is the one who holds its
\* mutex, for any number of searches, files and texts (index.rs, in_process.rs).
THEOREM TypeCorrect == Spec => []TypeOK
  <1>1. IndexInv => TypeOK
    BY DEF IndexInv, LockInv, TypeOK
  <1> QED
    BY <1>1, Invariance, PTL

\* The postings are those of the records in every state, although most refreshes keep
\* the old ones (index.rs 139-148).
THEOREM PostingsCorrect == Spec => []PostingsFollowRecords
  BY Invariance, PTL DEF IndexInv

\* While the flag is down and no event is on its way, each file has a record of its
\* present stamp and text (index.rs 106-150, 152-170).
THEOREM IndexCurrent == Spec => []TrustedIndexIsCurrent
  <1>1. IndexInv => TrustedIndexIsCurrent
    <2> SUFFICES ASSUME IndexInv, StampsTell, lock = Nobody, initialized, watched, ~dirty,
                        events = 0, NEW f \in Present
                 PROVE  record[f] = [stamp |-> stamp[f], text |-> text[f]]
      BY DEF TrustedIndexIsCurrent
    <2>1. Current(record, f)
      BY DEF IndexInv, FreshInv, Quiet, Refreshed
    <2>2. record[f].text = text[f]
      BY <2>1 DEF IndexInv, TruthInv, True, Current, Present
    <2> QED
      BY <2>1, <2>2 DEF IndexInv, Typed, Records, Current, Present
  <1> QED
    BY <1>1, Invariance, PTL

\* A search that began when the index had been told of every change misses no file that
\* matched all along (index.rs 21-63, in_process.rs 16-90).
THEOREM ToldSearchesMissNothing == Spec => []MissesNothingTold
  <1>1. IndexInv => MissesNothingTold
    BY DEF IndexInv, SteadyInv, MissesNothingTold, Missed
  <1> QED
    BY <1>1, Invariance, PTL
=============================================================================
