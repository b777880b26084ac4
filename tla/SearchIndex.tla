---------------------------- MODULE SearchIndex ----------------------------
(***************************************************************************)
(* search_text_files over the trigram index (src/workspace/search/): one   *)
(* entry of the index cache, the watcher that marks it dirty, and the      *)
(* searches that refresh it, pick candidate files from it and then match   *)
(* the candidates' text.                                                   *)
(*                                                                         *)
(* The cache's mutex is held from the look at the dirty flag until the     *)
(* candidates are picked; files change at any time, and an event reaches   *)
(* the flag some time after its change.  A text stands for what a file's   *)
(* first max_read_bytes hold; a stamp for its length and modification      *)
(* time.  Limits on matches and output are left out.                       *)
(***************************************************************************)
EXTENDS Naturals

CONSTANTS
    Searches, Files,
    Texts,          \* what a file may hold
    Match, Grams,   \* texts with a match; texts with every trigram of the pattern
    StampsTell,     \* whether a change always changes the stamp
    MaxWrites,      \* bound on the changes to files
    Absent, Nobody  \* no text; no search

ASSUME SearchAssumption ==
    /\ Match \subseteq Grams /\ Grams \subseteq Texts /\ Absent \notin Texts
    /\ Nobody \notin Searches
    /\ StampsTell \in BOOLEAN /\ MaxWrites \in Nat

VARIABLES
    \* the file system, and the events the watcher has not yet handled
    text, stamp, writes, events,
    \* SearchIndex: its records, the postings built from them, the flag, the watcher
    record, posted, dirty, watched, initialized,
    \* the cache's mutex and the refresh of its holder: paths to visit, the one being
    \* read, the records gathered
    lock, todo, visiting, next,
    \* the searches: what is left to scan, what was found
    pc, cand, found,
    \* history: the files that matched since the search began; whether every change was
    \* known to the index by then
    steady, heard

files    == <<text, stamp, writes>>
index    == <<record, posted, initialized>>
refresh  == <<todo, visiting, next>>
searches == <<pc, cand, found, steady, heard>>
vars     == <<files, events, index, dirty, watched, lock, refresh, searches>>

Present  == {f \in Files : text[f] # Absent}
Matching == {f \in Files : text[f] \in Match}

Records   == [stamp : Nat, text : Texts \cup {Absent}]
NoRecord  == [stamp |-> 0, text |-> Absent]
NoRecords == [f \in Files |-> NoRecord]
NoPosting == [f \in Files |-> Absent]

Init ==
    /\ text \in [Files -> Texts \cup {Absent}]
    /\ stamp = [f \in Files |-> 0] /\ writes = 0 /\ events = 0
    /\ record = NoRecords /\ posted = NoPosting /\ initialized = FALSE
    /\ dirty = TRUE /\ watched = FALSE
    /\ lock = Nobody /\ todo = {} /\ visiting = Absent /\ next = NoRecords
    /\ pc = [s \in Searches |-> "idle"]
    /\ cand = [s \in Searches |-> {}] /\ found = [s \in Searches |-> {}]
    /\ steady = [s \in Searches |-> {}] /\ heard = [s \in Searches |-> FALSE]

-----------------------------------------------------------------------------
\* Files and their watcher

\* Somebody creates, rewrites or deletes a file.
Change(f) ==
    /\ writes < MaxWrites
    /\ writes' = writes + 1
    /\ \E t \in (Texts \cup {Absent}) \ {text[f]} :
         /\ text' = [text EXCEPT ![f] = t]
         /\ steady' = [s \in Searches |-> IF t \in Match THEN steady[s] ELSE steady[s] \ {f}]
    /\ \E n \in {writes + 1} \cup (IF StampsTell THEN {} ELSE {stamp[f]}) :
         stamp' = [stamp EXCEPT ![f] = n]
    /\ events' = IF watched THEN events + 1 ELSE events
    /\ UNCHANGED <<index, dirty, watched, lock, refresh, pc, cand, found, heard>>

Deliver ==
    /\ events > 0
    /\ dirty' = TRUE
    /\ events' = events - 1
    /\ UNCHANGED <<files, index, watched, lock, refresh, searches>>

\* An event that reports no change of a text, such as the opening of a file.
Stir ==
    /\ watched
    /\ dirty' = TRUE
    /\ UNCHANGED <<files, events, index, watched, lock, refresh, searches>>

\* INDEXES.lock()
MutexIgnored == TRUE
MutexFree == lock = Nobody

\* Another search needs the place of this entry: its index and watcher are dropped, and
\* the next search starts from SearchIndex::default().
Evict ==
    /\ MutexFree
    /\ record' = NoRecords /\ posted' = NoPosting /\ initialized' = FALSE
    /\ dirty' = TRUE /\ watched' = FALSE /\ events' = 0
    /\ UNCHANGED <<files, lock, refresh, searches>>

-----------------------------------------------------------------------------
\* candidate_files: refresh under the mutex, then the candidates

Candidates(postings) == {f \in Files : postings[f] \in Grams}

Begin(s) ==
    /\ pc[s] \in {"idle", "done"}
    /\ found' = [found EXCEPT ![s] = {}]
    /\ steady' = [steady EXCEPT ![s] = Matching]

\* ensure_watcher; it may fail, and is then tried again by the next search.
EnsureWatcher == watched' \in {watched, TRUE}

Trusted == initialized /\ watched' /\ ~dirty

\* The flag is down: the index answers as it stands.
UseIndex(s) ==
    /\ Begin(s) /\ MutexFree
    /\ EnsureWatcher /\ Trusted
    /\ cand' = [cand EXCEPT ![s] = Candidates(posted)]
    /\ heard' = [heard EXCEPT ![s] = events = 0]
    /\ pc' = [pc EXCEPT ![s] = "scan"]
    /\ UNCHANGED <<files, events, index, dirty, lock, refresh>>

\* The swap takes the flag down before the walk, and is not reached while the index has
\* not been filled or is not watched.
Refresh(s) ==
    /\ Begin(s) /\ MutexFree
    /\ EnsureWatcher /\ ~Trusted
    /\ lock' = s
    /\ dirty' = (dirty /\ ~(initialized /\ watched'))
    /\ heard' = [heard EXCEPT ![s] = events = 0]
    /\ pc' = [pc EXCEPT ![s] = "list"]
    /\ UNCHANGED <<files, events, index, refresh, cand>>

\* collect_files.
List(s) ==
    /\ pc[s] = "list"
    /\ todo' = Present
    /\ next' = NoRecords
    /\ pc' = [pc EXCEPT ![s] = "walk"]
    /\ UNCHANGED <<files, events, index, dirty, watched, lock, visiting, cand, found, steady,
                   heard>>

\* fs::metadata, and the record kept when the stamp is the one it was read under.
CanReuseAny(f) == record[f].text # Absent
CanReuse(f) == record[f].text # Absent /\ record[f].stamp = stamp[f]

Stat(s, f) ==
    /\ pc[s] = "walk" /\ f \in todo
    /\ todo' = todo \ {f}
    /\ \/ text[f] = Absent /\ UNCHANGED <<next, visiting, pc>>
       \/ /\ text[f] # Absent /\ CanReuse(f)
          /\ next' = [next EXCEPT ![f] = record[f]]
          /\ UNCHANGED <<visiting, pc>>
       \/ /\ text[f] # Absent /\ ~CanReuse(f)
          /\ next' = [next EXCEPT ![f] = [stamp |-> stamp[f], text |-> Absent]]
          /\ visiting' = f
          /\ pc' = [pc EXCEPT ![s] = "read"]
    /\ UNCHANGED <<files, events, index, dirty, watched, lock, cand, found, steady, heard>>

\* FileRecord::read, some time after the stamp was taken.
Read(s) ==
    /\ pc[s] = "read"
    /\ next' = [next EXCEPT ![visiting] =
                   IF text[visiting] = Absent THEN NoRecord
                   ELSE [stamp |-> @.stamp, text |-> text[visiting]]]
    /\ visiting' = Absent
    /\ pc' = [pc EXCEPT ![s] = "walk"]
    /\ UNCHANGED <<files, events, index, dirty, watched, lock, todo, cand, found, steady,
                   heard>>

\* Whether the postings must be built anew.
Held(rs) == {f \in Files : rs[f].text # Absent}
OtherFiles == Held(next) # Held(record)
Changed ==
    \/ Held(next) # Held(record)
    \/ \E f \in Held(next) : next[f].stamp # record[f].stamp

LowerFlag == dirty' = FALSE
KeepFlag  == UNCHANGED dirty

Finish(s) ==
    /\ pc[s] = "walk" /\ todo = {}
    /\ record' = next
    /\ posted' = IF Changed \/ posted = NoPosting THEN [f \in Files |-> next[f].text] ELSE posted
    /\ initialized' = TRUE
    /\ KeepFlag
    /\ lock' = Nobody
    /\ cand' = [cand EXCEPT ![s] = Candidates(posted')]
    /\ pc' = [pc EXCEPT ![s] = "scan"]
    /\ UNCHANGED <<files, events, watched, refresh, found, steady, heard>>

-----------------------------------------------------------------------------
\* search: the candidates' texts are matched as they are found then

\* A pattern that cannot be indexed is looked for in every file.
SearchAll(s) ==
    /\ Begin(s)
    /\ cand' = [cand EXCEPT ![s] = Present]
    /\ heard' = [heard EXCEPT ![s] = TRUE]
    /\ pc' = [pc EXCEPT ![s] = "scan"]
    /\ UNCHANGED <<files, events, index, dirty, watched, lock, refresh>>

Scan(s, f) ==
    /\ pc[s] = "scan" /\ f \in cand[s]
    /\ cand' = [cand EXCEPT ![s] = @ \ {f}]
    /\ found' = [found EXCEPT ![s] = IF text[f] \in Match THEN @ \cup {f} ELSE @]
    /\ UNCHANGED <<files, events, index, dirty, watched, lock, refresh, pc, steady, heard>>

Return(s) ==
    /\ pc[s] = "scan" /\ cand[s] = {}
    /\ pc' = [pc EXCEPT ![s] = "done"]
    /\ UNCHANGED <<files, events, index, dirty, watched, lock, refresh, cand, found, steady,
                   heard>>

-----------------------------------------------------------------------------

Step(s) ==
    \/ UseIndex(s) \/ Refresh(s) \/ List(s) \/ Read(s) \/ Finish(s) \/ SearchAll(s) \/ Return(s)
    \/ \E f \in Files : Stat(s, f) \/ Scan(s, f)

Next ==
    \/ \E f \in Files : Change(f)
    \/ Deliver \/ Stir \/ Evict
    \/ \E s \in Searches : Step(s)

Spec == Init /\ [][Next]_vars

-----------------------------------------------------------------------------
\* Properties

Typed ==
    /\ text \in [Files -> Texts \cup {Absent}] /\ stamp \in [Files -> Nat]
    /\ writes \in Nat /\ events \in Nat
    /\ record \in [Files -> Records] /\ next \in [Files -> Records]
    /\ posted \in [Files -> Texts \cup {Absent}]
    /\ dirty \in BOOLEAN /\ watched \in BOOLEAN /\ initialized \in BOOLEAN
    /\ lock \in Searches \cup {Nobody} /\ todo \subseteq Files
    /\ visiting \in Files \cup {Absent}
    /\ pc \in [Searches -> {"idle", "list", "walk", "read", "scan", "done"}]
    /\ cand \in [Searches -> SUBSET Files] /\ found \in [Searches -> SUBSET Files]
    /\ steady \in [Searches -> SUBSET Files] /\ heard \in [Searches -> BOOLEAN]

\* Who refreshes holds the mutex, and who holds it refreshes: two searches never fill the
\* shared records at once (index.rs 38-62).
OneRefresher == \A s \in Searches : pc[s] \in {"list", "walk", "read"} <=> lock = s

TypeOK == Typed /\ OneRefresher

\* The postings are those of the records, although they are built anew only when a count
\* or a stamp differs (index.rs 139-148).
PostingsFollowRecords == \A f \in Files : posted[f] = record[f].text

\* A flag that is down can be trusted: when no event is on its way, every file has a
\* record of its present stamp and text.  The flag goes down before the walk, and the
\* files and their events move on during it.
TrustedIndexIsCurrent ==
    StampsTell /\ lock = Nobody /\ initialized /\ watched /\ ~dirty /\ events = 0 =>
        \A f \in Present : record[f] = [stamp |-> stamp[f], text |-> text[f]]

Missed(s) == pc[s] = "done" /\ ~(steady[s] \subseteq found[s])

\* A search that begins when the index has been told of every change finds every file
\* that matches all along, however files change, events come in and other searches
\* refresh the index meanwhile; a search without the index does so at any time.
MissesNothingTold == StampsTell => \A s \in Searches : Missed(s) => ~heard[s]
=============================================================================
