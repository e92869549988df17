----------------------------- MODULE SyncProofs ------------------------------
(***************************************************************************)
(* What the threads and processes of MCSync wait for one another with,     *)
(* proved for any number of them.  Four parts, one after the other: the    *)
(* reader/writer lock, the semaphore and its refinement, the arithmetic of *)
(* counters that wrap and the ring of a pipe, the pipe; at the end the     *)
(* theorems of SSpec.  LInv, XInv and PInv are the inductive invariants.   *)
(***************************************************************************)
EXTENDS MCSync, FiniteSetTheorems, SequenceTheorems, TLAPS

(***************************************************************************)
(* The reader/writer lock excludes writers, and implements SharedExclusive. *)
(* The argument: starvlock and racelock have at most one holder each.  The *)
(* holder of racelock is the only one to change the set of counted         *)
(* readers, so while one reader waits for sharelock it is the only counted *)
(* one, and sharelock is always owned by one writer or by all the counted  *)
(* readers together.                                                       *)
(***************************************************************************)

\* The waiting queues as sets: their order does not matter here.
Queues == [s \in Sems |-> {p \in Threads : Waits(p, s)}]

StarvLabels == {"r_race", "r_count", "r_share", "r_unrace", "r_unstarv",
                "w_share", "writing", "x_unstarv"}
RaceLabels == {"r_count", "r_share", "r_unrace", "d_count", "d_unshare", "d_unrace"}
HasStarv(p) == pc[p] \in StarvLabels /\ p \notin Queues["starvlock"]
HasRace(p) == pc[p] \in RaceLabels /\ p \notin Queues["racelock"]

\* A counted reader that does not have sharelock yet, and the readers' joint
\* ownership of it.
Pending(p) == pc[p] = "r_share" \/ (pc[p] = "r_unrace" /\ p \in Queues["sharelock"])
ReadersHave == \/ \E p \in Threads : pc[p] = "d_unshare"
               \/ Counted # {} /\ \A p \in Threads : ~Pending(p)
WriterHas(p) == pc[p] = "writing" /\ p \notin Queues["sharelock"]

QueuedAt ==
  /\ \A p \in Queues["starvlock"] : pc[p] \in {"r_race", "w_share"}
  /\ \A p \in Queues["racelock"] : pc[p] \in {"r_count", "d_count"}
  /\ \A p \in Queues["sharelock"] : pc[p] \in {"r_unrace", "writing"}
EachHolder ==
  /\ \A p, q \in Threads : HasStarv(p) /\ HasStarv(q) => p = q
  /\ \A p, q \in Threads : HasRace(p) /\ HasRace(q) => p = q
Free ==
  /\ permits["starvlock"] = 1 =>
       Queues["starvlock"] = {} /\ \A p \in Threads : ~HasStarv(p)
  /\ permits["racelock"] = 1 =>
       Queues["racelock"] = {} /\ \A p \in Threads : ~HasRace(p)
PendingAlone ==
  /\ \A p \in Threads : Pending(p) => Counted = {p}
  /\ \A p \in Threads : pc[p] = "d_unshare" => Counted = {}
ShareOwner ==
  /\ \A p, q \in Threads : WriterHas(p) /\ WriterHas(q) => p = q
  /\ \A p \in Threads : WriterHas(p) => ~ReadersHave
  /\ permits["sharelock"] = 1 =>
       /\ Queues["sharelock"] = {}
       /\ ~ReadersHave
       /\ \A p \in Threads : ~WriterHas(p)

\* Inductive: WriterExclusion follows from it, and not from itself.
IInv == /\ TypeOK
        /\ QueuedAt
        /\ EachHolder
        /\ Free
        /\ ReaderCount
        /\ PendingAlone
        /\ ShareOwner

------------------------------------------------------------------------------
\* What a call on a semaphore does to the set of its waiters.
LEMMA WaitEffect ==
  ASSUME TypeOK, NEW s \in Sems, NEW p \in Threads, xem_wait(s, p)
  PROVE  /\ permits' \in [Sems -> {0, 1}]
         /\ waiters' \in [Sems -> Seq(Threads)]
         /\ \/ /\ permits[s] = 1
               /\ permits' = [permits EXCEPT ![s] = 0]
               /\ Queues' = Queues
            \/ /\ permits[s] = 0
               /\ permits' = permits
               /\ Queues' = [Queues EXCEPT ![s] = @ \cup {p}]
<1>1. CASE permits[s] = 1 /\ permits' = [permits EXCEPT ![s] = 0] /\ UNCHANGED waiters
  <2>1. Queues' = Queues BY <1>1 DEF Queues, Waits
  <2> QED BY <1>1, <2>1 DEF TypeOK
<1>2. CASE /\ permits[s] = 0
           /\ waiters' = [waiters EXCEPT ![s] = Append(@, p)]
           /\ UNCHANGED permits
  <2>1. waiters[s] \in Seq(Threads) BY DEF TypeOK
  <2>2. Append(waiters[s], p) \in Seq(Threads) BY <2>1
  <2>3. waiters' \in [Sems -> Seq(Threads)] BY <1>2, <2>2 DEF TypeOK
  <2>4. \A q : (\E i \in DOMAIN Append(waiters[s], p) : Append(waiters[s], p)[i] = q)
               <=> Waits(q, s) \/ q = p
    <3>1. /\ DOMAIN Append(waiters[s], p) = 1 .. Len(waiters[s]) + 1
          /\ DOMAIN waiters[s] = 1 .. Len(waiters[s])
          /\ Len(waiters[s]) \in Nat
          /\ \A i \in 1 .. Len(waiters[s]) : Append(waiters[s], p)[i] = waiters[s][i]
          /\ Append(waiters[s], p)[Len(waiters[s]) + 1] = p
      BY <2>1, AppendProperties, LenProperties
    <3> QED BY <3>1 DEF Waits
  <2>5. \A r \in Sems : waiters'[r] = IF r = s THEN Append(waiters[s], p) ELSE waiters[r]
    BY <1>2 DEF TypeOK
  <2>6. ASSUME NEW r \in Sems
        PROVE  Queues'[r] = IF r = s THEN Queues[s] \cup {p} ELSE Queues[r]
    <3>1. Queues'[r] = {q \in Threads : \E i \in DOMAIN waiters'[r] : waiters'[r][i] = q}
      BY DEF Queues, Waits
    <3>2. CASE r = s
      <4>1. \A q \in Threads : q \in Queues'[r] <=> q \in Queues[s] \/ q = p
        BY <2>4, <2>5, <3>1, <3>2 DEF Queues
      <4>2. Queues'[r] \subseteq Threads /\ Queues[s] \subseteq Threads
        BY <3>1 DEF Queues
      <4> QED BY <3>2, <4>1, <4>2
    <3>3. CASE r # s
      BY <2>5, <3>1, <3>3 DEF Queues, Waits
    <3> QED BY <3>2, <3>3
  <2>7. Queues' = [Queues EXCEPT ![s] = @ \cup {p}]
    BY <2>6 DEF Queues
  <2> QED BY <1>2, <2>3, <2>7 DEF TypeOK
<1> QED BY <1>1, <1>2 DEF xem_wait

LEMMA UnlockEffect ==
  ASSUME TypeOK, NEW s \in Sems, xem_unlock(s)
  PROVE  /\ permits' \in [Sems -> {0, 1}]
         /\ waiters' \in [Sems -> Seq(Threads)]
         /\ \/ /\ Queues[s] = {}
               /\ permits' = [permits EXCEPT ![s] = 1]
               /\ Queues' = Queues
            \/ /\ Queues[s] # {}
               /\ permits' = permits
               /\ \E h \in Queues[s] : \E rest \in {Queues[s], Queues[s] \ {h}} :
                    Queues' = [Queues EXCEPT ![s] = rest]
<1>0. /\ waiters[s] \in Seq(Threads)
      /\ DOMAIN waiters[s] = 1 .. Len(waiters[s])
      /\ Len(waiters[s]) \in Nat
      /\ \A i \in DOMAIN waiters[s] : waiters[s][i] \in Threads
  BY LenProperties, ElementOfSeq DEF TypeOK
<1>1. CASE /\ waiters[s] = <<>>
           /\ permits' = [permits EXCEPT ![s] = 1]
           /\ UNCHANGED waiters
  <2>1. Queues' = Queues BY <1>1 DEF Queues, Waits
  <2>2. Queues[s] = {} BY <1>1 DEF Queues, Waits
  <2> QED BY <1>1, <2>1, <2>2 DEF TypeOK
<1>2. CASE /\ waiters[s] # <<>>
           /\ waiters' = [waiters EXCEPT ![s] = Tail(@)]
           /\ UNCHANGED permits
  <2> DEFINE h == waiters[s][1]
             rest == {q \in Threads :
                        \E i \in DOMAIN Tail(waiters[s]) : Tail(waiters[s])[i] = q}
  <2>1. Tail(waiters[s]) \in Seq(Threads) BY <1>0, <1>2
  <2>2. waiters' \in [Sems -> Seq(Threads)] BY <1>2, <2>1 DEF TypeOK
  <2>3. /\ Len(waiters[s]) >= 1
        /\ DOMAIN Tail(waiters[s]) = 1 .. Len(waiters[s]) - 1
        /\ \A i \in 1 .. Len(waiters[s]) - 1 : Tail(waiters[s])[i] = waiters[s][i + 1]
    <3>1. Len(waiters[s]) # 0 BY <1>0, <1>2, EmptySeq
    <3>2. /\ Len(Tail(waiters[s])) = Len(waiters[s]) - 1
          /\ \A i \in 1 .. Len(Tail(waiters[s])) : Tail(waiters[s])[i] = waiters[s][i + 1]
      BY <1>0, <1>2, HeadTailProperties
    <3>3. DOMAIN Tail(waiters[s]) = 1 .. Len(Tail(waiters[s])) BY <2>1, LenProperties
    <3> QED BY <1>0, <3>1, <3>2, <3>3
  <2>4. h \in Queues[s] BY <1>0, <2>3 DEF Queues, Waits
  <2>5. Queues[s] = rest \cup {h}
    <3>1. ASSUME NEW i \in DOMAIN waiters[s]
          PROVE  waiters[s][i] = h \/ waiters[s][i] \in rest
      <4>1. CASE i # 1
        <5>1. i - 1 \in 1 .. Len(waiters[s]) - 1 BY <1>0, <2>3, <4>1
        <5>2. Tail(waiters[s])[i - 1] = waiters[s][i] BY <1>0, <2>3, <5>1
        <5> QED BY <1>0, <2>3, <5>1, <5>2
      <4> QED BY <4>1
    <3>2. ASSUME NEW i \in DOMAIN Tail(waiters[s])
          PROVE  i + 1 \in DOMAIN waiters[s] /\ Tail(waiters[s])[i] = waiters[s][i + 1]
      BY <1>0, <2>3
    <3>3. \A q \in Threads : q \in Queues[s] <=> \E i \in DOMAIN waiters[s] : waiters[s][i] = q
      BY DEF Queues, Waits
    <3>4. \A q \in Threads : q \in Queues[s] <=> q \in rest \/ q = h
      BY <2>4, <3>1, <3>2, <3>3
    <3>5. Queues[s] \subseteq Threads /\ rest \subseteq Threads /\ h \in Threads
      BY <2>4 DEF Queues
    <3> QED BY <3>4, <3>5
  <2>6. \A r \in Sems : waiters'[r] = IF r = s THEN Tail(waiters[s]) ELSE waiters[r]
    BY <1>2 DEF TypeOK
  <2>7. \A r \in Sems : Queues'[r] = IF r = s THEN rest ELSE Queues[r]
    BY <2>6 DEF Queues, Waits
  <2>8. Queues' = [Queues EXCEPT ![s] = rest]
    BY <2>7 DEF Queues
  <2>9. rest \in {Queues[s], Queues[s] \ {h}}
    BY <2>5
  <2> QED BY <1>2, <2>2, <2>4, <2>8, <2>9 DEF TypeOK
<1> QED BY <1>1, <1>2 DEF xem_unlock

LEMMA AtFacts ==
  ASSUME NEW p \in Threads, NEW label, At(p, label)
  PROVE  pc[p] = label /\ \A s \in Sems : p \notin Queues[s]
BY DEF At, Queues

\* The same effects, as a step of the lock uses them.
LEMMA WaitStep ==
  ASSUME TypeOK, NEW p \in Threads, NEW from \in Labels, NEW s \in Sems,
         NEW to \in Labels, Wait(p, from, s, to)
  PROVE  /\ TypeOK'
         /\ pc[p] = from /\ \A r \in Sems : p \notin Queues[r]
         /\ pc' = [pc EXCEPT ![p] = to]
         /\ \A q \in Threads : pc'[q] = IF q = p THEN to ELSE pc[q]
         /\ \A r \in Sems : r # s => permits'[r] = permits[r] /\ Queues'[r] = Queues[r]
         /\ \/ permits[s] = 1 /\ permits'[s] = 0 /\ Queues'[s] = Queues[s]
            \/ permits[s] = 0 /\ permits'[s] = 0 /\ Queues'[s] = Queues[s] \cup {p}
         /\ reader' = reader
<1>1. xem_wait(s, p) /\ Goto(p, to) /\ reader' = reader /\ At(p, from)
  BY DEF Wait
<1>2. pc' = [pc EXCEPT ![p] = to] /\ pc \in [Threads -> Labels] /\ permits \in [Sems -> {0, 1}]
  BY <1>1 DEF Goto, TypeOK
<1>3. TypeOK' BY <1>1, <1>2, WaitEffect DEF TypeOK
<1>4. DOMAIN Queues = Sems BY DEF Queues
<1>5. \/ /\ permits[s] = 1
         /\ permits' = [permits EXCEPT ![s] = 0]
         /\ Queues' = Queues
      \/ /\ permits[s] = 0
         /\ permits' = permits
         /\ Queues' = [Queues EXCEPT ![s] = @ \cup {p}]
  BY <1>1, WaitEffect
<1>6. pc[p] = from /\ \A r \in Sems : p \notin Queues[r] BY <1>1, AtFacts
<1> QED BY <1>1, <1>2, <1>3, <1>4, <1>5, <1>6

LEMMA UnlockStep ==
  ASSUME TypeOK, NEW p \in Threads, NEW from \in Labels, NEW s \in Sems,
         NEW to \in Labels, Unlock(p, from, s, to)
  PROVE  /\ TypeOK'
         /\ pc[p] = from /\ \A r \in Sems : p \notin Queues[r]
         /\ pc' = [pc EXCEPT ![p] = to]
         /\ \A q \in Threads : pc'[q] = IF q = p THEN to ELSE pc[q]
         /\ \A r \in Sems : r # s => permits'[r] = permits[r] /\ Queues'[r] = Queues[r]
         /\ \/ Queues[s] = {} /\ permits'[s] = 1 /\ Queues'[s] = {}
            \/ /\ Queues[s] # {}
               /\ permits'[s] = permits[s]
               /\ \E h \in Queues[s] : Queues'[s] \in {Queues[s], Queues[s] \ {h}}
         /\ reader' = reader
<1>1. xem_unlock(s) /\ Goto(p, to) /\ reader' = reader /\ At(p, from)
  BY DEF Unlock
<1>2. pc' = [pc EXCEPT ![p] = to] /\ pc \in [Threads -> Labels] /\ permits \in [Sems -> {0, 1}]
  BY <1>1 DEF Goto, TypeOK
<1>3. TypeOK' BY <1>1, <1>2, UnlockEffect DEF TypeOK
<1>4. DOMAIN Queues = Sems BY DEF Queues
<1>5. \/ /\ Queues[s] = {}
         /\ permits' = [permits EXCEPT ![s] = 1]
         /\ Queues' = Queues
      \/ /\ Queues[s] # {}
         /\ permits' = permits
         /\ \E h \in Queues[s] : \E rest \in {Queues[s], Queues[s] \ {h}} :
              Queues' = [Queues EXCEPT ![s] = rest]
  BY <1>1, UnlockEffect
<1>6. pc[p] = from /\ \A r \in Sems : p \notin Queues[r] BY <1>1, AtFacts
<1> QED BY <1>1, <1>2, <1>3, <1>4, <1>5, <1>6

LEMMA QueuesOfThreads == \A s \in Sems : Queues[s] \subseteq Threads
BY DEF Queues

\* A step of p that does not touch the counter keeps the set of the counted.
LEMMA SameCounted ==
  ASSUME NEW p \in Threads, NEW to,
         \A q \in Threads : pc'[q] = IF q = p THEN to ELSE pc[q],
         p \in Counted <=> to \in {"r_share", "r_unrace", "r_unstarv", "reading", "d_count"}
  PROVE  Counted' = Counted
BY DEF Counted

LEMMA ReadRequestInv ==
  ASSUME IInv, NEW p \in Threads, ReadRequest(p)
  PROVE  IInv'
<1>1. Wait(p, "out", "starvlock", "r_race") BY DEF ReadRequest
<1>2. TypeOK BY DEF IInv
<1>3. /\ TypeOK'
      /\ pc[p] = "out" /\ \A r \in Sems : p \notin Queues[r]
      /\ \A q \in Threads : pc'[q] = IF q = p THEN "r_race" ELSE pc[q]
      /\ \A r \in Sems : r # "starvlock" => permits'[r] = permits[r] /\ Queues'[r] = Queues[r]
      /\ \/ permits["starvlock"] = 1 /\ permits'["starvlock"] = 0 /\ Queues'["starvlock"] = Queues["starvlock"]
         \/ permits["starvlock"] = 0 /\ permits'["starvlock"] = 0 /\ Queues'["starvlock"] = Queues["starvlock"] \cup {p}
      /\ reader' = reader
  BY <1>1, <1>2, WaitStep DEF Labels, Sems
<1>4. Counted' = Counted BY <1>3, SameCounted DEF Counted
<1>5. ReaderCount' BY <1>3, <1>4 DEF IInv, ReaderCount
<1>6. QueuedAt' BY <1>3, QueuesOfThreads DEF IInv, QueuedAt, Sems
<1>7. EachHolder'
  BY <1>3 DEF IInv, QueuedAt, EachHolder, Free, HasStarv, HasRace, StarvLabels, RaceLabels, Sems
<1>8. Free'
  BY <1>3 DEF IInv, QueuedAt, EachHolder, Free, HasStarv, HasRace, StarvLabels, RaceLabels, Sems
<1>9. PendingAlone' BY <1>3, <1>4 DEF IInv, QueuedAt, PendingAlone, Pending, Sems
<1>10. ShareOwner'
  BY <1>3, <1>4, QueuesOfThreads
  DEF IInv, QueuedAt, PendingAlone, ShareOwner, WriterHas, ReadersHave, Pending, Sems
<1> QED BY <1>3, <1>5, <1>6, <1>7, <1>8, <1>9, <1>10 DEF IInv

LEMMA ReadRaceInv ==
  ASSUME IInv, NEW p \in Threads, ReadRace(p)
  PROVE  IInv'
<1>1. Wait(p, "r_race", "racelock", "r_count") BY DEF ReadRace
<1>2. TypeOK BY DEF IInv
<1>3. /\ TypeOK'
      /\ pc[p] = "r_race" /\ \A r \in Sems : p \notin Queues[r]
      /\ \A q \in Threads : pc'[q] = IF q = p THEN "r_count" ELSE pc[q]
      /\ \A r \in Sems : r # "racelock" => permits'[r] = permits[r] /\ Queues'[r] = Queues[r]
      /\ \/ permits["racelock"] = 1 /\ permits'["racelock"] = 0 /\ Queues'["racelock"] = Queues["racelock"]
         \/ permits["racelock"] = 0 /\ permits'["racelock"] = 0 /\ Queues'["racelock"] = Queues["racelock"] \cup {p}
      /\ reader' = reader
  BY <1>1, <1>2, WaitStep DEF Labels, Sems
<1>4. Counted' = Counted BY <1>3, SameCounted DEF Counted
<1>5. ReaderCount' BY <1>3, <1>4 DEF IInv, ReaderCount
<1>6. QueuedAt' BY <1>3, QueuesOfThreads DEF IInv, QueuedAt, Sems
<1>7. EachHolder'
  BY <1>3 DEF IInv, QueuedAt, EachHolder, Free, HasStarv, HasRace, StarvLabels, RaceLabels, Sems
<1>8. Free'
  BY <1>3 DEF IInv, QueuedAt, EachHolder, Free, HasStarv, HasRace, StarvLabels, RaceLabels, Sems
<1>9. PendingAlone' BY <1>3, <1>4 DEF IInv, QueuedAt, PendingAlone, Pending, Sems
<1>10. ShareOwner'
  BY <1>3, <1>4, QueuesOfThreads
  DEF IInv, QueuedAt, PendingAlone, ShareOwner, WriterHas, ReadersHave, Pending, Sems
<1> QED BY <1>3, <1>5, <1>6, <1>7, <1>8, <1>9, <1>10 DEF IInv

LEMMA ReadShareInv ==
  ASSUME IInv, NEW p \in Threads, ReadShare(p)
  PROVE  IInv'
<1>1. Wait(p, "r_share", "sharelock", "r_unrace") BY DEF ReadShare
<1>2. TypeOK BY DEF IInv
<1>3. /\ TypeOK'
      /\ pc[p] = "r_share" /\ \A r \in Sems : p \notin Queues[r]
      /\ \A q \in Threads : pc'[q] = IF q = p THEN "r_unrace" ELSE pc[q]
      /\ \A r \in Sems : r # "sharelock" => permits'[r] = permits[r] /\ Queues'[r] = Queues[r]
      /\ \/ permits["sharelock"] = 1 /\ permits'["sharelock"] = 0 /\ Queues'["sharelock"] = Queues["sharelock"]
         \/ permits["sharelock"] = 0 /\ permits'["sharelock"] = 0 /\ Queues'["sharelock"] = Queues["sharelock"] \cup {p}
      /\ reader' = reader
  BY <1>1, <1>2, WaitStep DEF Labels, Sems
<1>4. Counted' = Counted BY <1>3, SameCounted DEF Counted
<1>5. ReaderCount' BY <1>3, <1>4 DEF IInv, ReaderCount
<1>6. QueuedAt' BY <1>3, QueuesOfThreads DEF IInv, QueuedAt, Sems
<1>7. EachHolder'
  BY <1>3 DEF IInv, QueuedAt, EachHolder, Free, HasStarv, HasRace, StarvLabels, RaceLabels, Sems
<1>8. Free'
  BY <1>3 DEF IInv, QueuedAt, EachHolder, Free, HasStarv, HasRace, StarvLabels, RaceLabels, Sems
<1>9. PendingAlone' BY <1>3, <1>4 DEF IInv, QueuedAt, PendingAlone, Pending, Sems
<1>10. ShareOwner'
  BY <1>3, <1>4, QueuesOfThreads
  DEF IInv, QueuedAt, PendingAlone, ShareOwner, WriterHas, ReadersHave, Pending, Sems
<1> QED BY <1>3, <1>5, <1>6, <1>7, <1>8, <1>9, <1>10 DEF IInv

LEMMA ReadUnraceInv ==
  ASSUME IInv, NEW p \in Threads, ReadUnrace(p)
  PROVE  IInv'
<1>1. Unlock(p, "r_unrace", "racelock", "r_unstarv") BY DEF ReadUnrace
<1>2. TypeOK BY DEF IInv
<1>3. /\ TypeOK'
      /\ pc[p] = "r_unrace" /\ \A r \in Sems : p \notin Queues[r]
      /\ \A q \in Threads : pc'[q] = IF q = p THEN "r_unstarv" ELSE pc[q]
      /\ \A r \in Sems : r # "racelock" => permits'[r] = permits[r] /\ Queues'[r] = Queues[r]
      /\ \/ Queues["racelock"] = {} /\ permits'["racelock"] = 1 /\ Queues'["racelock"] = {}
         \/ /\ Queues["racelock"] # {}
            /\ permits'["racelock"] = permits["racelock"]
            /\ \E h \in Queues["racelock"] :
                 Queues'["racelock"] \in {Queues["racelock"], Queues["racelock"] \ {h}}
      /\ reader' = reader
  BY <1>1, <1>2, UnlockStep DEF Labels, Sems
<1>4. Counted' = Counted BY <1>3, SameCounted DEF Counted
<1>5. ReaderCount' BY <1>3, <1>4 DEF IInv, ReaderCount
<1>6. QueuedAt' BY <1>3, QueuesOfThreads DEF IInv, QueuedAt, Sems
<1>7. EachHolder'
  BY <1>3 DEF IInv, QueuedAt, EachHolder, Free, HasStarv, HasRace, StarvLabels, RaceLabels, Sems
<1>8. Free'
  BY <1>3 DEF IInv, QueuedAt, EachHolder, Free, HasStarv, HasRace, StarvLabels, RaceLabels, Sems
<1>9. PendingAlone' BY <1>3, <1>4 DEF IInv, QueuedAt, PendingAlone, Pending, Sems
<1>10. ShareOwner'
  BY <1>3, <1>4, QueuesOfThreads
  DEF IInv, QueuedAt, PendingAlone, ShareOwner, WriterHas, ReadersHave, Pending, Sems
<1> QED BY <1>3, <1>5, <1>6, <1>7, <1>8, <1>9, <1>10 DEF IInv

LEMMA ReadUnstarvInv ==
  ASSUME IInv, NEW p \in Threads, ReadUnstarv(p)
  PROVE  IInv'
<1>1. Unlock(p, "r_unstarv", "starvlock", "reading") BY DEF ReadUnstarv
<1>2. TypeOK BY DEF IInv
<1>3. /\ TypeOK'
      /\ pc[p] = "r_unstarv" /\ \A r \in Sems : p \notin Queues[r]
      /\ \A q \in Threads : pc'[q] = IF q = p THEN "reading" ELSE pc[q]
      /\ \A r \in Sems : r # "starvlock" => permits'[r] = permits[r] /\ Queues'[r] = Queues[r]
      /\ \/ Queues["starvlock"] = {} /\ permits'["starvlock"] = 1 /\ Queues'["starvlock"] = {}
         \/ /\ Queues["starvlock"] # {}
            /\ permits'["starvlock"] = permits["starvlock"]
            /\ \E h \in Queues["starvlock"] :
                 Queues'["starvlock"] \in {Queues["starvlock"], Queues["starvlock"] \ {h}}
      /\ reader' = reader
  BY <1>1, <1>2, UnlockStep DEF Labels, Sems
<1>4. Counted' = Counted BY <1>3, SameCounted DEF Counted
<1>5. ReaderCount' BY <1>3, <1>4 DEF IInv, ReaderCount
<1>6. QueuedAt' BY <1>3, QueuesOfThreads DEF IInv, QueuedAt, Sems
<1>7. EachHolder'
  BY <1>3 DEF IInv, QueuedAt, EachHolder, Free, HasStarv, HasRace, StarvLabels, RaceLabels, Sems
<1>8. Free'
  BY <1>3 DEF IInv, QueuedAt, EachHolder, Free, HasStarv, HasRace, StarvLabels, RaceLabels, Sems
<1>9. PendingAlone' BY <1>3, <1>4 DEF IInv, QueuedAt, PendingAlone, Pending, Sems
<1>10. ShareOwner'
  BY <1>3, <1>4, QueuesOfThreads
  DEF IInv, QueuedAt, PendingAlone, ShareOwner, WriterHas, ReadersHave, Pending, Sems
<1> QED BY <1>3, <1>5, <1>6, <1>7, <1>8, <1>9, <1>10 DEF IInv

LEMMA DoneRaceInv ==
  ASSUME IInv, NEW p \in Threads, DoneRace(p)
  PROVE  IInv'
<1>1. Wait(p, "reading", "racelock", "d_count") BY DEF DoneRace
<1>2. TypeOK BY DEF IInv
<1>3. /\ TypeOK'
      /\ pc[p] = "reading" /\ \A r \in Sems : p \notin Queues[r]
      /\ \A q \in Threads : pc'[q] = IF q = p THEN "d_count" ELSE pc[q]
      /\ \A r \in Sems : r # "racelock" => permits'[r] = permits[r] /\ Queues'[r] = Queues[r]
      /\ \/ permits["racelock"] = 1 /\ permits'["racelock"] = 0 /\ Queues'["racelock"] = Queues["racelock"]
         \/ permits["racelock"] = 0 /\ permits'["racelock"] = 0 /\ Queues'["racelock"] = Queues["racelock"] \cup {p}
      /\ reader' = reader
  BY <1>1, <1>2, WaitStep DEF Labels, Sems
<1>4. Counted' = Counted BY <1>3, SameCounted DEF Counted
<1>5. ReaderCount' BY <1>3, <1>4 DEF IInv, ReaderCount
<1>6. QueuedAt' BY <1>3, QueuesOfThreads DEF IInv, QueuedAt, Sems
<1>7. EachHolder'
  BY <1>3 DEF IInv, QueuedAt, EachHolder, Free, HasStarv, HasRace, StarvLabels, RaceLabels, Sems
<1>8. Free'
  BY <1>3 DEF IInv, QueuedAt, EachHolder, Free, HasStarv, HasRace, StarvLabels, RaceLabels, Sems
<1>9. PendingAlone' BY <1>3, <1>4 DEF IInv, QueuedAt, PendingAlone, Pending, Sems
<1>10. ShareOwner'
  BY <1>3, <1>4, QueuesOfThreads
  DEF IInv, QueuedAt, PendingAlone, ShareOwner, WriterHas, ReadersHave, Pending, Sems
<1> QED BY <1>3, <1>5, <1>6, <1>7, <1>8, <1>9, <1>10 DEF IInv

LEMMA DoneUnshareInv ==
  ASSUME IInv, NEW p \in Threads, DoneUnshare(p)
  PROVE  IInv'
<1>1. Unlock(p, "d_unshare", "sharelock", "d_unrace") BY DEF DoneUnshare
<1>2. TypeOK BY DEF IInv
<1>3. /\ TypeOK'
      /\ pc[p] = "d_unshare" /\ \A r \in Sems : p \notin Queues[r]
      /\ \A q \in Threads : pc'[q] = IF q = p THEN "d_unrace" ELSE pc[q]
      /\ \A r \in Sems : r # "sharelock" => permits'[r] = permits[r] /\ Queues'[r] = Queues[r]
      /\ \/ Queues["sharelock"] = {} /\ permits'["sharelock"] = 1 /\ Queues'["sharelock"] = {}
         \/ /\ Queues["sharelock"] # {}
            /\ permits'["sharelock"] = permits["sharelock"]
            /\ \E h \in Queues["sharelock"] :
                 Queues'["sharelock"] \in {Queues["sharelock"], Queues["sharelock"] \ {h}}
      /\ reader' = reader
  BY <1>1, <1>2, UnlockStep DEF Labels, Sems
<1>4. Counted' = Counted BY <1>3, SameCounted DEF Counted
<1>5. ReaderCount' BY <1>3, <1>4 DEF IInv, ReaderCount
<1>6. QueuedAt' BY <1>3, QueuesOfThreads DEF IInv, QueuedAt, Sems
<1>7. EachHolder'
  BY <1>3 DEF IInv, QueuedAt, EachHolder, Free, HasStarv, HasRace, StarvLabels, RaceLabels, Sems
<1>8. Free'
  BY <1>3 DEF IInv, QueuedAt, EachHolder, Free, HasStarv, HasRace, StarvLabels, RaceLabels, Sems
<1>9. PendingAlone' BY <1>3, <1>4 DEF IInv, QueuedAt, PendingAlone, Pending, Sems
<1>10. ~ReadersHave'
  <2>1. HasRace(p) BY <1>3 DEF HasRace, RaceLabels, Sems
  <2>2. \A q \in Threads : pc[q] = "d_unshare" => HasRace(q)
    BY DEF IInv, QueuedAt, HasRace, RaceLabels
  <2>3. \A q \in Threads : pc'[q] # "d_unshare"
    BY <1>3, <2>1, <2>2 DEF IInv, EachHolder
  <2>4. Counted' = {} BY <1>3, <1>4 DEF IInv, PendingAlone
  <2> QED BY <2>3, <2>4 DEF ReadersHave
<1>11. ~\E q \in Threads : WriterHas(q)
  BY <1>3 DEF IInv, ShareOwner, ReadersHave
<1>12. ShareOwner'
  BY <1>3, <1>10, <1>11, QueuesOfThreads DEF IInv, ShareOwner, WriterHas, Sems
<1> QED BY <1>3, <1>5, <1>6, <1>7, <1>8, <1>9, <1>12 DEF IInv

LEMMA DoneUnraceInv ==
  ASSUME IInv, NEW p \in Threads, DoneUnrace(p)
  PROVE  IInv'
<1>1. Unlock(p, "d_unrace", "racelock", "out") BY DEF DoneUnrace
<1>2. TypeOK BY DEF IInv
<1>3. /\ TypeOK'
      /\ pc[p] = "d_unrace" /\ \A r \in Sems : p \notin Queues[r]
      /\ \A q \in Threads : pc'[q] = IF q = p THEN "out" ELSE pc[q]
      /\ \A r \in Sems : r # "racelock" => permits'[r] = permits[r] /\ Queues'[r] = Queues[r]
      /\ \/ Queues["racelock"] = {} /\ permits'["racelock"] = 1 /\ Queues'["racelock"] = {}
         \/ /\ Queues["racelock"] # {}
            /\ permits'["racelock"] = permits["racelock"]
            /\ \E h \in Queues["racelock"] :
                 Queues'["racelock"] \in {Queues["racelock"], Queues["racelock"] \ {h}}
      /\ reader' = reader
  BY <1>1, <1>2, UnlockStep DEF Labels, Sems
<1>4. Counted' = Counted BY <1>3, SameCounted DEF Counted
<1>5. ReaderCount' BY <1>3, <1>4 DEF IInv, ReaderCount
<1>6. QueuedAt' BY <1>3, QueuesOfThreads DEF IInv, QueuedAt, Sems
<1>7. EachHolder'
  BY <1>3 DEF IInv, QueuedAt, EachHolder, Free, HasStarv, HasRace, StarvLabels, RaceLabels, Sems
<1>8. Free'
  BY <1>3 DEF IInv, QueuedAt, EachHolder, Free, HasStarv, HasRace, StarvLabels, RaceLabels, Sems
<1>9. PendingAlone' BY <1>3, <1>4 DEF IInv, QueuedAt, PendingAlone, Pending, Sems
<1>10. ShareOwner'
  BY <1>3, <1>4, QueuesOfThreads
  DEF IInv, QueuedAt, PendingAlone, ShareOwner, WriterHas, ReadersHave, Pending, Sems
<1> QED BY <1>3, <1>5, <1>6, <1>7, <1>8, <1>9, <1>10 DEF IInv

LEMMA WriteRequestInv ==
  ASSUME IInv, NEW p \in Threads, WriteRequest(p)
  PROVE  IInv'
<1>1. Wait(p, "out", "starvlock", "w_share") BY DEF WriteRequest
<1>2. TypeOK BY DEF IInv
<1>3. /\ TypeOK'
      /\ pc[p] = "out" /\ \A r \in Sems : p \notin Queues[r]
      /\ \A q \in Threads : pc'[q] = IF q = p THEN "w_share" ELSE pc[q]
      /\ \A r \in Sems : r # "starvlock" => permits'[r] = permits[r] /\ Queues'[r] = Queues[r]
      /\ \/ permits["starvlock"] = 1 /\ permits'["starvlock"] = 0 /\ Queues'["starvlock"] = Queues["starvlock"]
         \/ permits["starvlock"] = 0 /\ permits'["starvlock"] = 0 /\ Queues'["starvlock"] = Queues["starvlock"] \cup {p}
      /\ reader' = reader
  BY <1>1, <1>2, WaitStep DEF Labels, Sems
<1>4. Counted' = Counted BY <1>3, SameCounted DEF Counted
<1>5. ReaderCount' BY <1>3, <1>4 DEF IInv, ReaderCount
<1>6. QueuedAt' BY <1>3, QueuesOfThreads DEF IInv, QueuedAt, Sems
<1>7. EachHolder'
  BY <1>3 DEF IInv, QueuedAt, EachHolder, Free, HasStarv, HasRace, StarvLabels, RaceLabels, Sems
<1>8. Free'
  BY <1>3 DEF IInv, QueuedAt, EachHolder, Free, HasStarv, HasRace, StarvLabels, RaceLabels, Sems
<1>9. PendingAlone' BY <1>3, <1>4 DEF IInv, QueuedAt, PendingAlone, Pending, Sems
<1>10. ShareOwner'
  BY <1>3, <1>4, QueuesOfThreads
  DEF IInv, QueuedAt, PendingAlone, ShareOwner, WriterHas, ReadersHave, Pending, Sems
<1> QED BY <1>3, <1>5, <1>6, <1>7, <1>8, <1>9, <1>10 DEF IInv

LEMMA WriteShareInv ==
  ASSUME IInv, NEW p \in Threads, WriteShare(p)
  PROVE  IInv'
<1>1. Wait(p, "w_share", "sharelock", "writing") BY DEF WriteShare
<1>2. TypeOK BY DEF IInv
<1>3. /\ TypeOK'
      /\ pc[p] = "w_share" /\ \A r \in Sems : p \notin Queues[r]
      /\ \A q \in Threads : pc'[q] = IF q = p THEN "writing" ELSE pc[q]
      /\ \A r \in Sems : r # "sharelock" => permits'[r] = permits[r] /\ Queues'[r] = Queues[r]
      /\ \/ permits["sharelock"] = 1 /\ permits'["sharelock"] = 0 /\ Queues'["sharelock"] = Queues["sharelock"]
         \/ permits["sharelock"] = 0 /\ permits'["sharelock"] = 0 /\ Queues'["sharelock"] = Queues["sharelock"] \cup {p}
      /\ reader' = reader
  BY <1>1, <1>2, WaitStep DEF Labels, Sems
<1>4. Counted' = Counted BY <1>3, SameCounted DEF Counted
<1>5. ReaderCount' BY <1>3, <1>4 DEF IInv, ReaderCount
<1>6. QueuedAt' BY <1>3, QueuesOfThreads DEF IInv, QueuedAt, Sems
<1>7. EachHolder'
  BY <1>3 DEF IInv, QueuedAt, EachHolder, Free, HasStarv, HasRace, StarvLabels, RaceLabels, Sems
<1>8. Free'
  BY <1>3 DEF IInv, QueuedAt, EachHolder, Free, HasStarv, HasRace, StarvLabels, RaceLabels, Sems
<1>9. PendingAlone' BY <1>3, <1>4 DEF IInv, QueuedAt, PendingAlone, Pending, Sems
<1>10. ShareOwner'
  BY <1>3, <1>4, QueuesOfThreads
  DEF IInv, QueuedAt, PendingAlone, ShareOwner, WriterHas, ReadersHave, Pending, Sems
<1> QED BY <1>3, <1>5, <1>6, <1>7, <1>8, <1>9, <1>10 DEF IInv

LEMMA WriteUnshareInv ==
  ASSUME IInv, NEW p \in Threads, WriteUnshare(p)
  PROVE  IInv'
<1>1. Unlock(p, "writing", "sharelock", "x_unstarv") BY DEF WriteUnshare
<1>2. TypeOK BY DEF IInv
<1>3. /\ TypeOK'
      /\ pc[p] = "writing" /\ \A r \in Sems : p \notin Queues[r]
      /\ \A q \in Threads : pc'[q] = IF q = p THEN "x_unstarv" ELSE pc[q]
      /\ \A r \in Sems : r # "sharelock" => permits'[r] = permits[r] /\ Queues'[r] = Queues[r]
      /\ \/ Queues["sharelock"] = {} /\ permits'["sharelock"] = 1 /\ Queues'["sharelock"] = {}
         \/ /\ Queues["sharelock"] # {}
            /\ permits'["sharelock"] = permits["sharelock"]
            /\ \E h \in Queues["sharelock"] :
                 Queues'["sharelock"] \in {Queues["sharelock"], Queues["sharelock"] \ {h}}
      /\ reader' = reader
  BY <1>1, <1>2, UnlockStep DEF Labels, Sems
<1>4. Counted' = Counted BY <1>3, SameCounted DEF Counted
<1>5. ReaderCount' BY <1>3, <1>4 DEF IInv, ReaderCount
<1>6. QueuedAt' BY <1>3, QueuesOfThreads DEF IInv, QueuedAt, Sems
<1>7. EachHolder'
  BY <1>3 DEF IInv, QueuedAt, EachHolder, Free, HasStarv, HasRace, StarvLabels, RaceLabels, Sems
<1>8. Free'
  BY <1>3 DEF IInv, QueuedAt, EachHolder, Free, HasStarv, HasRace, StarvLabels, RaceLabels, Sems
<1>9. PendingAlone' BY <1>3, <1>4 DEF IInv, QueuedAt, PendingAlone, Pending, Sems
<1>10. ShareOwner'
  BY <1>3, <1>4, QueuesOfThreads
  DEF IInv, QueuedAt, PendingAlone, ShareOwner, WriterHas, ReadersHave, Pending, Sems
<1> QED BY <1>3, <1>5, <1>6, <1>7, <1>8, <1>9, <1>10 DEF IInv

LEMMA WriteUnstarvInv ==
  ASSUME IInv, NEW p \in Threads, WriteUnstarv(p)
  PROVE  IInv'
<1>1. Unlock(p, "x_unstarv", "starvlock", "out") BY DEF WriteUnstarv
<1>2. TypeOK BY DEF IInv
<1>3. /\ TypeOK'
      /\ pc[p] = "x_unstarv" /\ \A r \in Sems : p \notin Queues[r]
      /\ \A q \in Threads : pc'[q] = IF q = p THEN "out" ELSE pc[q]
      /\ \A r \in Sems : r # "starvlock" => permits'[r] = permits[r] /\ Queues'[r] = Queues[r]
      /\ \/ Queues["starvlock"] = {} /\ permits'["starvlock"] = 1 /\ Queues'["starvlock"] = {}
         \/ /\ Queues["starvlock"] # {}
            /\ permits'["starvlock"] = permits["starvlock"]
            /\ \E h \in Queues["starvlock"] :
                 Queues'["starvlock"] \in {Queues["starvlock"], Queues["starvlock"] \ {h}}
      /\ reader' = reader
  BY <1>1, <1>2, UnlockStep DEF Labels, Sems
<1>4. Counted' = Counted BY <1>3, SameCounted DEF Counted
<1>5. ReaderCount' BY <1>3, <1>4 DEF IInv, ReaderCount
<1>6. QueuedAt' BY <1>3, QueuesOfThreads DEF IInv, QueuedAt, Sems
<1>7. EachHolder'
  BY <1>3 DEF IInv, QueuedAt, EachHolder, Free, HasStarv, HasRace, StarvLabels, RaceLabels, Sems
<1>8. Free'
  BY <1>3 DEF IInv, QueuedAt, EachHolder, Free, HasStarv, HasRace, StarvLabels, RaceLabels, Sems
<1>9. PendingAlone' BY <1>3, <1>4 DEF IInv, QueuedAt, PendingAlone, Pending, Sems
<1>10. ShareOwner'
  BY <1>3, <1>4, QueuesOfThreads
  DEF IInv, QueuedAt, PendingAlone, ShareOwner, WriterHas, ReadersHave, Pending, Sems
<1> QED BY <1>3, <1>5, <1>6, <1>7, <1>8, <1>9, <1>10 DEF IInv

------------------------------------------------------------------------------
LEMMA CountedFinite == IsFiniteSet(Counted) /\ Cardinality(Counted) \in Nat
<1>1. Counted \subseteq Threads BY DEF Counted
<1> QED BY <1>1, ThreadsAssumption, FS_Subset, FS_CardinalityType

\* What the holder of racelock can rely on.
LEMMA RaceHolder ==
  ASSUME IInv, NEW p \in Threads, pc[p] \in {"r_count", "d_count"},
         \A s \in Sems : p \notin Queues[s]
  PROVE  /\ \A q \in Threads : ~Pending(q)
         /\ \A q \in Threads : pc[q] # "d_unshare"
<1>1. HasRace(p) BY DEF HasRace, RaceLabels, Sems
<1>2. ASSUME NEW q \in Threads, Pending(q) \/ pc[q] = "d_unshare"
      PROVE  HasRace(q)
  BY <1>2 DEF IInv, QueuedAt, Pending, HasRace, RaceLabels
<1>3. ~Pending(p) BY DEF Pending
<1> QED BY <1>1, <1>2, <1>3 DEF IInv, EachHolder

LEMMA ReadCountInv ==
  ASSUME IInv, NEW p \in Threads, ReadCount(p)
  PROVE  IInv'
<1> DEFINE to == IF reader' = 1 THEN "r_share" ELSE "r_unrace"
<1>1. /\ pc[p] = "r_count"
      /\ \A s \in Sems : p \notin Queues[s]
  BY AtFacts DEF ReadCount
<1>2. /\ reader' = reader + 1
      /\ permits' = permits
      /\ waiters' = waiters
      /\ pc' = [pc EXCEPT ![p] = to]
  BY DEF ReadCount, Goto
<1>3. to \in {"r_share", "r_unrace"} OBVIOUS
<1>4. TypeOK' BY <1>2, <1>3 DEF IInv, TypeOK, Labels
<1>5. Queues' = Queues BY <1>2 DEF Queues, Waits
<1>6. \A q \in Threads : pc'[q] = IF q = p THEN to ELSE pc[q]
  BY <1>2 DEF IInv, TypeOK
<1> HIDE DEF to
<1>7. Counted' = Counted \cup {p} /\ p \notin Counted
  BY <1>1, <1>3, <1>6 DEF Counted
<1>8. Cardinality(Counted') = Cardinality(Counted) + 1
  BY <1>7, CountedFinite, FS_AddElement
<1>9. ReaderCount' BY <1>2, <1>8 DEF IInv, ReaderCount
<1>10. reader' = 1 <=> Counted = {}
  BY <1>2, CountedFinite, FS_EmptySet DEF IInv, ReaderCount
<1>11. /\ \A q \in Threads : ~Pending(q)
       /\ \A q \in Threads : pc[q] # "d_unshare"
  BY <1>1, RaceHolder
<1>12. QueuedAt' BY <1>1, <1>5, <1>6, QueuesOfThreads DEF IInv, QueuedAt, Sems
<1>13. EachHolder'
  BY <1>1, <1>3, <1>5, <1>6 DEF IInv, EachHolder, HasStarv, HasRace, StarvLabels, RaceLabels, Sems
<1>14. Free'
  BY <1>1, <1>3, <1>5, <1>6, <1>2 DEF IInv, Free, HasStarv, HasRace, StarvLabels, RaceLabels, Sems
<1>15. PendingAlone'
  <2>1. CASE reader' = 1
    BY <1>1, <1>3, <1>5, <1>6, <1>7, <1>10, <1>11, <2>1 DEF PendingAlone, Pending, Sems
  <2>2. CASE reader' # 1
    <3>1. to = "r_unrace" BY <2>2 DEF to
    <3> QED BY <1>1, <1>5, <1>6, <1>11, <3>1 DEF PendingAlone, Pending, Sems
  <2> QED BY <2>1, <2>2
<1>16. ReadersHave' => ReadersHave
  <2>1. CASE Counted = {}
    <3>1. to = "r_share" BY <1>10, <2>1 DEF to
    <3> QED BY <1>6, <1>11, <3>1 DEF ReadersHave, Pending
  <2>2. CASE Counted # {}
    BY <1>11, <2>2 DEF ReadersHave
  <2> QED BY <2>1, <2>2
<1>17. \A q \in Threads : WriterHas(q)' => WriterHas(q)
  BY <1>3, <1>5, <1>6 DEF WriterHas
<1>18. ShareOwner'
  BY <1>2, <1>5, <1>16, <1>17 DEF IInv, ShareOwner
<1> QED BY <1>4, <1>9, <1>12, <1>13, <1>14, <1>15, <1>18 DEF IInv

LEMMA DoneCountInv ==
  ASSUME IInv, NEW p \in Threads, DoneCount(p)
  PROVE  IInv'
<1> DEFINE to == IF reader' = 0 THEN "d_unshare" ELSE "d_unrace"
<1>1. /\ pc[p] = "d_count"
      /\ \A s \in Sems : p \notin Queues[s]
  BY AtFacts DEF DoneCount
<1>2. /\ reader' = reader - 1
      /\ permits' = permits
      /\ waiters' = waiters
      /\ pc' = [pc EXCEPT ![p] = to]
  BY DEF DoneCount, Goto
<1>3. to \in {"d_unshare", "d_unrace"} OBVIOUS
<1>4. TypeOK' BY <1>2, <1>3 DEF IInv, TypeOK, Labels
<1>5. Queues' = Queues BY <1>2 DEF Queues, Waits
<1>6. \A q \in Threads : pc'[q] = IF q = p THEN to ELSE pc[q]
  BY <1>2 DEF IInv, TypeOK
<1> HIDE DEF to
<1>7. Counted' = Counted \ {p} /\ p \in Counted
  BY <1>1, <1>3, <1>6 DEF Counted
<1>8. Cardinality(Counted') = Cardinality(Counted) - 1 /\ IsFiniteSet(Counted')
  BY <1>7, CountedFinite, FS_RemoveElement
<1>9. ReaderCount' BY <1>2, <1>8 DEF IInv, ReaderCount
<1>10. reader' = 0 <=> Counted' = {}
  BY <1>8, <1>9, FS_EmptySet DEF ReaderCount
<1>11. /\ \A q \in Threads : ~Pending(q)
       /\ \A q \in Threads : pc[q] # "d_unshare"
  BY <1>1, RaceHolder
<1>12. QueuedAt' BY <1>1, <1>5, <1>6, QueuesOfThreads DEF IInv, QueuedAt, Sems
<1>13. EachHolder'
  BY <1>1, <1>3, <1>5, <1>6 DEF IInv, EachHolder, HasStarv, HasRace, StarvLabels, RaceLabels, Sems
<1>14. Free'
  BY <1>1, <1>3, <1>5, <1>6, <1>2 DEF IInv, Free, HasStarv, HasRace, StarvLabels, RaceLabels, Sems
<1>15. PendingAlone'
  <2>1. \A q \in Threads : ~Pending(q)' BY <1>3, <1>5, <1>6, <1>11 DEF Pending
  <2>2. \A q \in Threads : pc'[q] = "d_unshare" => Counted' = {}
    BY <1>6, <1>10, <1>11 DEF to
  <2> QED BY <2>1, <2>2 DEF PendingAlone
<1>16. ReadersHave BY <1>7, <1>11 DEF ReadersHave
<1>17. \A q \in Threads : WriterHas(q)' => WriterHas(q)
  BY <1>3, <1>5, <1>6 DEF WriterHas
<1>18. ShareOwner'
  BY <1>2, <1>5, <1>16, <1>17 DEF IInv, ShareOwner
<1> QED BY <1>4, <1>9, <1>12, <1>13, <1>14, <1>15, <1>18 DEF IInv

------------------------------------------------------------------------------
LEMMA InitInv == Init => IInv
<1> SUFFICES ASSUME Init PROVE IInv OBVIOUS
<1>1. \A s \in Sems : Queues[s] = {} BY DEF Init, Queues, Waits
<1>2. Counted = {} BY DEF Init, Counted
<1>3. TypeOK BY DEF Init, TypeOK, Labels
<1>4. ReaderCount BY <1>2, FS_EmptySet DEF Init, ReaderCount
<1>5. QueuedAt /\ EachHolder /\ Free
  BY <1>1 DEF Init, QueuedAt, EachHolder, Free, HasStarv, HasRace, StarvLabels, RaceLabels, Sems
<1>6. PendingAlone /\ ShareOwner
  BY <1>1, <1>2 DEF Init, PendingAlone, Pending, ShareOwner, WriterHas, ReadersHave, Sems
<1> QED BY <1>3, <1>4, <1>5, <1>6 DEF IInv

LEMMA StepInv == IInv /\ [Next]_vars => IInv'
<1> SUFFICES ASSUME IInv, [Next]_vars PROVE IInv' OBVIOUS
<1>1. CASE UNCHANGED vars
  <2>1. Queues' = Queues /\ Counted' = Counted
    BY <1>1 DEF vars, Queues, Waits, Counted
  <2> QED
    BY <1>1, <2>1 DEF vars, IInv, TypeOK, ReaderCount, QueuedAt, EachHolder, Free,
       HasStarv, HasRace, PendingAlone, Pending, ShareOwner, WriterHas, ReadersHave
<1>2. ASSUME NEW p \in Threads,
             ReadRequest(p) \/ WriteRequest(p) \/ Reader(p) \/ Writer(p)
      PROVE  IInv'
  BY <1>2, ReadRequestInv, WriteRequestInv, ReadRaceInv, ReadCountInv,
     ReadShareInv, ReadUnraceInv, ReadUnstarvInv, DoneRaceInv, DoneCountInv,
     DoneUnshareInv, DoneUnraceInv, WriteShareInv, WriteUnshareInv, WriteUnstarvInv
  DEF Reader, Writer
<1> QED BY <1>1, <1>2 DEF Next

\* The invariant holds throughout.
LEMMA Invariance == Spec => []IInv
BY InitInv, StepInv, PTL DEF Spec

\* A reader is counted, and nobody waits for sharelock meanwhile: the readers
\* own it.
LEMMA ReadersOwn ==
  ASSUME IInv, NEW p \in Threads, Reads(p)
  PROVE  ReadersHave
<1>1. p \in Counted BY DEF Reads, Counted
<1>2. ASSUME NEW q \in Threads, Pending(q) PROVE FALSE
  <2>1. p = q BY <1>1, <1>2 DEF IInv, PendingAlone
  <2> QED BY <1>2, <2>1 DEF Pending, Reads
<1> QED BY <1>1, <1>2 DEF ReadersHave

LEMMA WritesIsHas == \A p \in Threads : Writes(p) <=> WriterHas(p)
BY DEF Writes, WriterHas, Queues, Sems

LEMMA ExclusionFromInv == IInv => WriterExclusion
BY ReadersOwn, WritesIsHas DEF IInv, ShareOwner, WriterExclusion

\* rwlock_acquire_writelock returns only when nobody reads or writes, and no
\* reader gets in before rwlock_release_writelock (xem.c:154-199).
THEOREM WriterAlone == Spec => []WriterExclusion
BY Invariance, ExclusionFromInv, PTL

\* The counter of rwlock_t counts the readers, so the first one takes
\* sharelock and the last one frees it (xem.c:154-190).
THEOREM CounterExact == Spec => []ReaderCount
<1>1. IInv => ReaderCount BY DEF IInv
<1> QED BY <1>1, Invariance, PTL

------------------------------------------------------------------------------
(***************************************************************************)
(* The refinement.  Reading and writing are what SharedExclusive says they *)
(* are; only who gets sharelock from the last reader starts to write in    *)
(* another's step.                                                         *)
(***************************************************************************)
ReadersNow == {p \in Threads : Reads(p)}
WritersNow == {p \in Threads : Writes(p)}

LEMMA WritersHave == WritersNow = {p \in Threads : WriterHas(p)}
BY WritesIsHas DEF WritersNow

\* A step of p between two labels at which nobody reads or writes.
LEMMA QuietStep ==
  ASSUME NEW p \in Threads, NEW from, NEW to, pc[p] = from,
         \A q \in Threads : pc'[q] = IF q = p THEN to ELSE pc[q],
         Queues'["sharelock"] \ {p} = Queues["sharelock"] \ {p},
         {from, to} \cap {"reading", "writing"} = {}
  PROVE  ReadersNow' = ReadersNow /\ WritersNow' = WritersNow
<1>1. \A q \in Threads : WriterHas(q)' <=> WriterHas(q) BY DEF WriterHas
<1>2. \A q \in Threads : Reads(q)' <=> Reads(q) BY DEF Reads
<1>3. WritersNow' = {q \in Threads : WriterHas(q)'}
  BY DEF WritersNow, Writes, WriterHas, Queues, Sems
<1> QED BY <1>1, <1>2, <1>3, WritersHave DEF ReadersNow

LEMMA QuietWaits ==
  ASSUME IInv, NEW p \in Threads,
         \/ ReadRequest(p) \/ WriteRequest(p) \/ ReadRace(p) \/ ReadShare(p)
  PROVE  ReadersNow' = ReadersNow /\ WritersNow' = WritersNow
<1>1. TypeOK BY DEF IInv
<1>2. CASE ReadRequest(p)
  <2>1. Wait(p, "out", "starvlock", "r_race") BY <1>2 DEF ReadRequest
  <2>2. /\ pc[p] = "out" /\ \A q \in Threads : pc'[q] = IF q = p THEN "r_race" ELSE pc[q]
        /\ Queues'["sharelock"] \ {p} = Queues["sharelock"] \ {p}
    BY <1>1, <2>1, WaitStep DEF Labels, Sems
  <2> QED BY <2>2, QuietStep
<1>3. CASE WriteRequest(p)
  <2>1. Wait(p, "out", "starvlock", "w_share") BY <1>3 DEF WriteRequest
  <2>2. /\ pc[p] = "out" /\ \A q \in Threads : pc'[q] = IF q = p THEN "w_share" ELSE pc[q]
        /\ Queues'["sharelock"] \ {p} = Queues["sharelock"] \ {p}
    BY <1>1, <2>1, WaitStep DEF Labels, Sems
  <2> QED BY <2>2, QuietStep
<1>4. CASE ReadRace(p)
  <2>1. Wait(p, "r_race", "racelock", "r_count") BY <1>4 DEF ReadRace
  <2>2. /\ pc[p] = "r_race" /\ \A q \in Threads : pc'[q] = IF q = p THEN "r_count" ELSE pc[q]
        /\ Queues'["sharelock"] \ {p} = Queues["sharelock"] \ {p}
    BY <1>1, <2>1, WaitStep DEF Labels, Sems
  <2> QED BY <2>2, QuietStep
<1>5. CASE ReadShare(p)
  <2>1. Wait(p, "r_share", "sharelock", "r_unrace") BY <1>5 DEF ReadShare
  <2>2. /\ pc[p] = "r_share" /\ \A q \in Threads : pc'[q] = IF q = p THEN "r_unrace" ELSE pc[q]
        /\ Queues'["sharelock"] \ {p} = Queues["sharelock"] \ {p}
    BY <1>1, <2>1, WaitStep DEF Labels, Sems
  <2> QED BY <2>2, QuietStep
<1> QED BY <1>2, <1>3, <1>4, <1>5

LEMMA QuietUnlocks ==
  ASSUME IInv, NEW p \in Threads,
         \/ ReadUnrace(p) \/ DoneUnrace(p) \/ WriteUnstarv(p)
  PROVE  ReadersNow' = ReadersNow /\ WritersNow' = WritersNow
<1>1. TypeOK BY DEF IInv
<1>2. CASE ReadUnrace(p)
  <2>1. Unlock(p, "r_unrace", "racelock", "r_unstarv") BY <1>2 DEF ReadUnrace
  <2>2. /\ pc[p] = "r_unrace" /\ \A q \in Threads : pc'[q] = IF q = p THEN "r_unstarv" ELSE pc[q]
        /\ Queues'["sharelock"] \ {p} = Queues["sharelock"] \ {p}
    BY <1>1, <2>1, UnlockStep DEF Labels, Sems
  <2> QED BY <2>2, QuietStep
<1>3. CASE DoneUnrace(p)
  <2>1. Unlock(p, "d_unrace", "racelock", "out") BY <1>3 DEF DoneUnrace
  <2>2. /\ pc[p] = "d_unrace" /\ \A q \in Threads : pc'[q] = IF q = p THEN "out" ELSE pc[q]
        /\ Queues'["sharelock"] \ {p} = Queues["sharelock"] \ {p}
    BY <1>1, <2>1, UnlockStep DEF Labels, Sems
  <2> QED BY <2>2, QuietStep
<1>4. CASE WriteUnstarv(p)
  <2>1. Unlock(p, "x_unstarv", "starvlock", "out") BY <1>4 DEF WriteUnstarv
  <2>2. /\ pc[p] = "x_unstarv" /\ \A q \in Threads : pc'[q] = IF q = p THEN "out" ELSE pc[q]
        /\ Queues'["sharelock"] \ {p} = Queues["sharelock"] \ {p}
    BY <1>1, <2>1, UnlockStep DEF Labels, Sems
  <2> QED BY <2>2, QuietStep
<1> QED BY <1>2, <1>3, <1>4

LEMMA QuietCounts ==
  ASSUME IInv, NEW p \in Threads, ReadCount(p) \/ DoneCount(p)
  PROVE  ReadersNow' = ReadersNow /\ WritersNow' = WritersNow
<1>1. pc \in [Threads -> Labels] BY DEF IInv, TypeOK
<1>2. Queues' = Queues BY DEF ReadCount, DoneCount, Queues, Waits
<1>3. PICK from, to : /\ pc[p] = from
                      /\ \A q \in Threads : pc'[q] = IF q = p THEN to ELSE pc[q]
                      /\ {from, to} \cap {"reading", "writing"} = {}
  <2>1. CASE ReadCount(p)
    <3>1. pc' = [pc EXCEPT ![p] = "r_share"] \/ pc' = [pc EXCEPT ![p] = "r_unrace"]
      BY <2>1 DEF ReadCount, Goto
    <3> QED BY <1>1, <2>1, <3>1 DEF ReadCount, At
  <2>2. CASE DoneCount(p)
    <3>1. pc' = [pc EXCEPT ![p] = "d_unshare"] \/ pc' = [pc EXCEPT ![p] = "d_unrace"]
      BY <2>2 DEF DoneCount, Goto
    <3> QED BY <1>1, <2>2, <3>1 DEF DoneCount, At
  <2> QED BY <2>1, <2>2
<1> QED BY <1>2, <1>3, QuietStep

\* Whoever waits for sharelock holds starvlock.
LEMMA ShareWaiter ==
  ASSUME IInv, NEW p \in Queues["sharelock"]
  PROVE  HasStarv(p)
BY QueuesOfThreads DEF IInv, QueuedAt, HasStarv, StarvLabels, Sems

LEMMA StartsReading ==
  ASSUME IInv, NEW p \in Threads, ReadUnstarv(p)
  PROVE  /\ WritersNow = {} /\ WritersNow' = {}
         /\ ReadersNow' = ReadersNow \cup {p}
<1>1. /\ pc[p] = "r_unstarv" /\ p \notin Queues["sharelock"]
      /\ \A q \in Threads : pc'[q] = IF q = p THEN "reading" ELSE pc[q]
      /\ Queues'["sharelock"] = Queues["sharelock"]
  BY UnlockStep DEF ReadUnstarv, Labels, Sems, IInv
<1>2. ReadersHave
  <2>1. p \in Counted BY <1>1 DEF Counted
  <2>2. ASSUME NEW q \in Threads, Pending(q) PROVE FALSE
    <3>1. p = q BY <2>1, <2>2 DEF IInv, PendingAlone
    <3> QED BY <1>1, <2>2, <3>1 DEF Pending
  <2> QED BY <2>1, <2>2 DEF ReadersHave
<1>3. \A q \in Threads : ~WriterHas(q) BY <1>2 DEF IInv, ShareOwner
<1>4. \A q \in Threads : ~WriterHas(q)' BY <1>1, <1>3 DEF WriterHas
<1>5. WritersNow' = {q \in Threads : WriterHas(q)'}
  BY DEF WritersNow, Writes, WriterHas, Queues, Sems
<1> QED BY <1>1, <1>3, <1>4, <1>5, WritersHave DEF ReadersNow, Reads

LEMMA StopsReading ==
  ASSUME IInv, NEW p \in Threads, DoneRace(p)
  PROVE  /\ p \in ReadersNow /\ ReadersNow' = ReadersNow \ {p}
         /\ WritersNow' = WritersNow
<1>1. /\ pc[p] = "reading" /\ p \notin Queues["sharelock"]
      /\ \A q \in Threads : pc'[q] = IF q = p THEN "d_count" ELSE pc[q]
      /\ Queues'["sharelock"] = Queues["sharelock"]
  BY WaitStep DEF DoneRace, Labels, Sems, IInv
<1>2. \A q \in Threads : WriterHas(q)' <=> WriterHas(q) BY <1>1 DEF WriterHas
<1>3. WritersNow' = {q \in Threads : WriterHas(q)'}
  BY DEF WritersNow, Writes, WriterHas, Queues, Sems
<1> QED BY <1>1, <1>2, <1>3, WritersHave DEF ReadersNow, Reads

\* The last reader frees sharelock, or hands it to a writer.
LEMMA HandsOver ==
  ASSUME IInv, NEW p \in Threads, DoneUnshare(p)
  PROVE  /\ ReadersNow = {} /\ ReadersNow' = {} /\ WritersNow = {}
         /\ WritersNow' = {} \/ \E h \in Threads : WritersNow' = {h}
<1>1. /\ pc[p] = "d_unshare"
      /\ \A q \in Threads : pc'[q] = IF q = p THEN "d_unrace" ELSE pc[q]
      /\ \/ Queues["sharelock"] = {} /\ Queues'["sharelock"] = {}
         \/ \E h \in Queues["sharelock"] :
              Queues'["sharelock"] \in {Queues["sharelock"], Queues["sharelock"] \ {h}}
  BY UnlockStep DEF DoneUnshare, Labels, Sems, IInv
<1>2. Counted = {} BY <1>1 DEF IInv, PendingAlone
<1>3. ReadersNow = {} BY <1>2 DEF ReadersNow, Reads, Counted
<1>4. ReadersNow' = {} BY <1>1, <1>3 DEF ReadersNow, Reads
<1>5. \A q \in Threads : ~WriterHas(q) BY <1>1 DEF IInv, ShareOwner, ReadersHave
<1>6. WritersNow' = {q \in Threads : WriterHas(q)'}
  BY DEF WritersNow, Writes, WriterHas, Queues, Sems
<1>7. CASE Queues["sharelock"] = {} /\ Queues'["sharelock"] = {}
  BY <1>1, <1>3, <1>4, <1>5, <1>6, <1>7, WritersHave DEF WriterHas
<1>8. CASE \E h \in Queues["sharelock"] :
             Queues'["sharelock"] \in {Queues["sharelock"], Queues["sharelock"] \ {h}}
  <2>1. PICK h \in Queues["sharelock"] :
          Queues'["sharelock"] \in {Queues["sharelock"], Queues["sharelock"] \ {h}}
    BY <1>8
  <2>2. \A q \in Threads : WriterHas(q)' => q = h BY <1>1, <1>5, <2>1 DEF WriterHas
  <2>3. h \in Threads BY <2>1, QueuesOfThreads DEF Sems
  <2> QED BY <1>3, <1>4, <1>5, <1>6, <2>2, <2>3, WritersHave
<1> QED BY <1>1, <1>7, <1>8

LEMMA StartsWriting ==
  ASSUME IInv, NEW p \in Threads, WriteShare(p)
  PROVE  /\ ReadersNow' = ReadersNow
         /\ \/ WritersNow' = WritersNow
            \/ ReadersNow = {} /\ WritersNow = {} /\ WritersNow' = {p}
<1>1. /\ pc[p] = "w_share" /\ p \notin Queues["sharelock"]
      /\ \A q \in Threads : pc'[q] = IF q = p THEN "writing" ELSE pc[q]
      /\ \/ permits["sharelock"] = 1 /\ Queues'["sharelock"] = Queues["sharelock"]
         \/ Queues'["sharelock"] = Queues["sharelock"] \cup {p}
  BY WaitStep DEF WriteShare, Labels, Sems, IInv
<1>2. ReadersNow' = ReadersNow BY <1>1 DEF ReadersNow, Reads
<1>3. WritersNow' = {q \in Threads : WriterHas(q)'}
  BY DEF WritersNow, Writes, WriterHas, Queues, Sems
<1>4. CASE permits["sharelock"] = 1 /\ Queues'["sharelock"] = Queues["sharelock"]
  <2>1. ~ReadersHave /\ \A q \in Threads : ~WriterHas(q) BY <1>4 DEF IInv, ShareOwner
  <2>2. ReadersNow = {} BY <2>1, ReadersOwn DEF ReadersNow
  <2>3. \A q \in Threads : WriterHas(q)' <=> q = p BY <1>1, <1>4, <2>1 DEF WriterHas
  <2> QED BY <1>2, <1>3, <2>1, <2>2, <2>3, WritersHave
<1>5. CASE Queues'["sharelock"] = Queues["sharelock"] \cup {p}
  <2>1. \A q \in Threads : WriterHas(q)' <=> WriterHas(q) BY <1>1, <1>5 DEF WriterHas
  <2> QED BY <1>2, <1>3, <2>1, WritersHave
<1> QED BY <1>1, <1>4, <1>5

LEMMA StopsWriting ==
  ASSUME IInv, NEW p \in Threads, WriteUnshare(p)
  PROVE  /\ p \in WritersNow /\ WritersNow' = WritersNow \ {p}
         /\ ReadersNow' = ReadersNow
<1>1. /\ pc[p] = "writing" /\ \A r \in Sems : p \notin Queues[r]
      /\ \A q \in Threads : pc'[q] = IF q = p THEN "x_unstarv" ELSE pc[q]
      /\ \/ Queues["sharelock"] = {} /\ Queues'["sharelock"] = {}
         \/ Queues["sharelock"] # {}
  BY UnlockStep DEF WriteUnshare, Labels, Sems, IInv
<1>2. HasStarv(p) BY <1>1 DEF HasStarv, StarvLabels, Sems
<1>3. Queues["sharelock"] = {}
  <2>1. ASSUME NEW h \in Queues["sharelock"] PROVE FALSE
    <3>1. HasStarv(h) /\ h \in Threads BY ShareWaiter, QueuesOfThreads DEF Sems
    <3>2. h = p BY <1>2, <3>1 DEF IInv, EachHolder
    <3> QED BY <1>1, <3>2 DEF Sems
  <2> QED BY <2>1
<1>4. Queues'["sharelock"] = {} BY <1>1, <1>3
<1>5. WritersNow' = {q \in Threads : WriterHas(q)'}
  BY DEF WritersNow, Writes, WriterHas, Queues, Sems
<1>6. \A q \in Threads : WriterHas(q)' <=> WriterHas(q) /\ q # p
  BY <1>1, <1>3, <1>4 DEF WriterHas
<1>7. WriterHas(p) BY <1>1, <1>3 DEF WriterHas
<1> QED BY <1>1, <1>5, <1>6, <1>7, WritersHave DEF ReadersNow, Reads

LEMMA InitShared == Init => Abs!Init
BY DEF Init, Abs!Init, Reads, Writes

LEMMA StepShared == IInv /\ [Next]_vars => [Abs!Next]_(Abs!vars)
<1> SUFFICES ASSUME IInv, [Next]_vars PROVE [Abs!Next]_(Abs!vars)
  OBVIOUS
<1> USE DEF ReadersNow, WritersNow
<1>1. CASE UNCHANGED vars
  BY <1>1 DEF vars, Abs!vars, Reads, Writes, Waits
<1>2. ASSUME NEW p \in Threads,
             ReadRequest(p) \/ WriteRequest(p) \/ Reader(p) \/ Writer(p)
      PROVE  [Abs!Next]_(Abs!vars)
  <2>1. CASE \/ ReadRequest(p) \/ WriteRequest(p) \/ ReadRace(p) \/ ReadShare(p)
             \/ ReadCount(p) \/ DoneCount(p)
             \/ ReadUnrace(p) \/ DoneUnrace(p) \/ WriteUnstarv(p)
    BY <2>1, QuietWaits, QuietCounts, QuietUnlocks DEF Abs!vars
  <2>2. CASE ReadUnstarv(p)
    <3>1. Abs!StartRead(p) BY <2>2, StartsReading DEF Abs!StartRead
    <3> QED BY <3>1 DEF Abs!Next
  <2>3. CASE DoneRace(p)
    <3>1. Abs!EndRead(p) BY <2>3, StopsReading DEF Abs!EndRead
    <3> QED BY <3>1 DEF Abs!Next
  <2>4. CASE DoneUnshare(p)
    <3>1. UNCHANGED Abs!vars \/ \E h \in Threads : Abs!StartWrite(h)
      BY <2>4, HandsOver DEF Abs!vars, Abs!StartWrite
    <3> QED BY <3>1 DEF Abs!Next
  <2>5. CASE WriteShare(p)
    <3>1. UNCHANGED Abs!vars \/ Abs!StartWrite(p)
      BY <2>5, StartsWriting DEF Abs!vars, Abs!StartWrite
    <3> QED BY <3>1 DEF Abs!Next
  <2>6. CASE WriteUnshare(p)
    <3>1. Abs!EndWrite(p) BY <2>6, StopsWriting DEF Abs!EndWrite
    <3> QED BY <3>1 DEF Abs!Next
  <2> QED BY <1>2, <2>1, <2>2, <2>3, <2>4, <2>5, <2>6 DEF Reader, Writer
<1> QED BY <1>1, <1>2 DEF Next

\* The lock of xem.c is a shared/exclusive lock: every step of its callers is one
\* of SharedExclusive, or none.
THEOREM LockRefinement == Spec => ImplementsLock
<1>1. Spec => []IInv BY Invariance
<1> QED BY <1>1, InitShared, StepShared, PTL DEF Spec, ImplementsLock, Abs!Spec

(***************************************************************************)
(* The semaphore.                                                          *)
(***************************************************************************)

QP == INSTANCE CircQueueProofs WITH Capacity <- NTHREAD + 1

\* The waiters of the semaphore, oldest first, and as a set.
Line == X!Q!Contents(waiting)
Elems(s) == {s[k] : k \in DOMAIN s}
Distinct(s) == \A i, j \in DOMAIN s : s[i] = s[j] => i = j

LEMMA AppendElems ==
  ASSUME NEW S, NEW s \in Seq(S), NEW p \in S, Distinct(s), p \notin Elems(s)
  PROVE  /\ Distinct(Append(s, p)) /\ Elems(Append(s, p)) = Elems(s) \cup {p}
         /\ Len(Append(s, p)) = Len(s) + 1
<1> DEFINE n == Len(s)
           t == Append(s, p)
<1>1. /\ n \in Nat /\ DOMAIN s = 1 .. n /\ DOMAIN t = 1 .. n + 1 /\ Len(t) = n + 1
      /\ \A i \in 1 .. n : t[i] = s[i]
      /\ t[n + 1] = p
  BY AppendProperties, LenProperties
<1> HIDE DEF n, t
<1>2. DOMAIN t = DOMAIN s \cup {n + 1} /\ n + 1 \notin DOMAIN s
  BY <1>1
<1>3. Elems(t) = Elems(s) \cup {p}
  BY <1>1, <1>2 DEF Elems
<1>4. Distinct(t)
  BY <1>1, <1>2 DEF Distinct, Elems
<1> QED BY <1>1, <1>3, <1>4 DEF t, n

LEMMA TailElems ==
  ASSUME NEW S, NEW s \in Seq(S), Distinct(s), s # <<>>
  PROVE  /\ Distinct(Tail(s)) /\ Elems(Tail(s)) = Elems(s) \ {Head(s)}
         /\ Head(s) \in Elems(s) /\ Len(Tail(s)) = Len(s) - 1 /\ Len(s) \in Nat \ {0}
<1> DEFINE n == Len(s)
           t == Tail(s)
<1>1. /\ n \in Nat \ {0} /\ DOMAIN s = 1 .. n /\ DOMAIN t = 1 .. n - 1 /\ Len(t) = n - 1
      /\ \A i \in 1 .. n - 1 : t[i] = s[i + 1]
      /\ Head(s) = s[1]
  BY HeadTailProperties, LenProperties, EmptySeq
<1> HIDE DEF n, t
<1>2. Distinct(t)
  <2> SUFFICES ASSUME NEW i \in 1 .. n - 1, NEW j \in 1 .. n - 1, t[i] = t[j] PROVE i = j
    BY <1>1 DEF Distinct
  <2>1. i + 1 \in DOMAIN s /\ j + 1 \in DOMAIN s /\ s[i + 1] = s[j + 1]
    BY <1>1
  <2>2. i + 1 = j + 1
    BY <2>1 DEF Distinct
  <2> QED BY <2>2
<1>3. 1 \in DOMAIN s
  BY <1>1
<1>4. ASSUME NEW x \in Elems(t) PROVE x \in Elems(s) \ {Head(s)}
  <2>1. PICK i \in 1 .. n - 1 : x = t[i]
    BY <1>1 DEF Elems
  <2>2. i + 1 \in DOMAIN s /\ x = s[i + 1] /\ i + 1 # 1
    BY <1>1, <2>1
  <2>3. s[i + 1] # s[1]
    BY <1>3, <2>2 DEF Distinct
  <2> QED BY <1>1, <2>2, <2>3 DEF Elems
<1>5. ASSUME NEW x \in Elems(s), x # Head(s) PROVE x \in Elems(t)
  <2>1. PICK i \in 1 .. n : x = s[i]
    BY <1>1 DEF Elems
  <2>2. i - 1 \in 1 .. n - 1 /\ (i - 1) + 1 = i
    BY <1>1, <1>5, <2>1
  <2>3. t[i - 1] = s[(i - 1) + 1]
    BY <1>1, <2>2
  <2> QED BY <1>1, <2>1, <2>2, <2>3 DEF Elems
<1>6. Head(s) \in Elems(s)
  BY <1>1, <1>3 DEF Elems
<1> QED BY <1>1, <1>2, <1>4, <1>5, <1>6 DEF t, n

\* Distinct members of a finite set are no more than it has.
LEMMA DistinctFew ==
  ASSUME NEW S, IsFiniteSet(S), NEW s \in Seq(S), Distinct(s)
  PROVE  Len(s) <= Cardinality(S)
<1>1. Len(s) \in Nat /\ DOMAIN s = 1 .. Len(s) /\ s \in [1 .. Len(s) -> S]
  BY LenProperties
<1>2. s \in Injection(1 .. Len(s), S)
  BY <1>1 DEF Distinct, Injection, IsInjective
<1>3. Cardinality(1 .. Len(s)) <= Cardinality(S)
  BY <1>2, FS_Injection
<1>4. Cardinality(1 .. Len(s)) = Len(s)
  BY <1>1, FS_Interval
<1> QED BY <1>3, <1>4

------------------------------------------------------------------------------
(* The queue of the waiters: what CircQueueProofs says, under the names of Xem. *)
LEMMA SaneLine == QP!Sane
  BY SemaphoreAssumption DEF QP!Sane

LEMMA SameQueue ==
  /\ X!Q!CQueue = QP!CQueue /\ X!Q!Empty = QP!Empty /\ X!Q!Positions = QP!Positions
  /\ X!Q!NewQueue(X!Q!Empty) = QP!NewQueue(QP!Empty)
  BY DEF X!Q!CQueue, QP!CQueue, X!Q!Positions, QP!Positions, X!Q!Empty, QP!Empty,
         X!Q!NewQueue, QP!NewQueue

LEMMA SameLine ==
  ASSUME NEW q
  PROVE  X!Q!Length(q) = QP!Length(q) /\ X!Q!Contents(q) = QP!Contents(q)
  BY DEF X!Q!Length, QP!Length, X!Q!Contents, QP!Contents

LEMMA SameQueueTests ==
  ASSUME NEW q
  PROVE  (X!Q!IsEmpty(q) <=> QP!IsEmpty(q)) /\ (X!Q!IsFull(q) <=> QP!IsFull(q))
  BY DEF X!Q!IsEmpty, QP!IsEmpty, X!Q!IsFull, QP!IsFull

LEMMA SameQueueDequeue ==
  ASSUME NEW q
  PROVE  X!Q!Dequeue(q) = QP!Dequeue(q) /\ X!Q!DequeueReply(q) = QP!DequeueReply(q)
  BY SameQueue, SameQueueTests
     DEF X!Q!Dequeue, QP!Dequeue, X!Q!DequeueReply, QP!DequeueReply

LEMMA SameQueueEnqueue ==
  ASSUME NEW q, NEW idx
  PROVE  X!Q!Enqueue(q, idx) = QP!Enqueue(q, idx)
<1>1. X!Q!Scanned(q) = QP!Scanned(q)
  BY SameQueue, SameLine DEF X!Q!Scanned, QP!Scanned
<1>2. \A i : X!Q!Read(q, i) = QP!Read(q, i)
  BY DEF X!Q!Read, QP!Read
<1>3. X!Q!Accepts(q, idx) <=> QP!Accepts(q, idx)
  BY SameQueueTests, <1>1, <1>2 DEF X!Q!Accepts, QP!Accepts, X!Q!Seen, QP!Seen
<1> QED BY <1>3 DEF X!Q!Enqueue, QP!Enqueue

LEMMA LineFacts ==
  ASSUME NEW q, QP!WellFormed(q)
  PROVE  /\ q \in X!Q!CQueue
         /\ X!Q!Contents(q) \in Seq(Idx)
         /\ X!Q!IsEmpty(q) <=> X!Q!Contents(q) = <<>>
<1>1. q \in X!Q!CQueue
  BY SameQueue DEF QP!WellFormed
<1>2. X!Q!Contents(q) \in Seq(Idx)
  BY SaneLine, SameLine, QP!ContentsValue
<1>3. X!Q!IsEmpty(q) <=> X!Q!Contents(q) = <<>>
  BY SaneLine, SameLine, SameQueueTests, QP!EmptyContents
<1> QED BY <1>1, <1>2, <1>3

LEMMA LineTakes ==
  ASSUME NEW q, QP!WellFormed(q), ~X!Q!IsEmpty(q)
  PROVE  /\ QP!WellFormed(X!Q!Dequeue(q))
         /\ X!Q!DequeueReply(q) = Head(X!Q!Contents(q))
         /\ X!Q!DequeueReply(q) \in Idx
         /\ X!Q!Contents(X!Q!Dequeue(q)) = Tail(X!Q!Contents(q))
  BY SaneLine, SameLine, SameQueueTests, SameQueueDequeue, QP!DequeueTakesHead

\* A thread that does not wait yet is taken into the queue, but for the one that the
\* scan for duplicates can take for queued.
LEMMA LineAccepts ==
  ASSUME NEW q, QP!WellFormed(q), NEW p \in Idx, p \notin Elems(X!Q!Contents(q)),
         Distinct(X!Q!Contents(q))
  PROVE  \/ /\ QP!WellFormed(X!Q!Enqueue(q, p))
            /\ X!Q!Contents(X!Q!Enqueue(q, p)) = Append(X!Q!Contents(q), p)
         \/ p = NTHREAD /\ X!Q!Enqueue(q, p) = q
<1> DEFINE s == X!Q!Contents(q)
<1>1. s \in Seq(Idx) /\ Len(s) = QP!Length(q) /\ s = QP!Contents(q)
  BY SaneLine, SameLine, QP!ContentsValue
<1>2. Len(s) < NTHREAD
  <2> HIDE DEF s
  <2>1. Distinct(Append(s, p)) /\ Append(s, p) \in Seq(Idx) /\ Len(Append(s, p)) = Len(s) + 1
    BY <1>1, AppendElems, AppendProperties DEF s
  <2>2. Len(s) + 1 <= Cardinality(Idx)
    BY <2>1, DistinctFew, SemaphoreAssumption
  <2>3. Len(s) \in Nat /\ Cardinality(Idx) \in Nat /\ Cardinality(Idx) <= NTHREAD /\ NTHREAD \in Nat
    BY <1>1, LenProperties, FS_CardinalityType, SemaphoreAssumption
  <2> QED BY <2>2, <2>3
<1>3. QP!Accepts(q, p) \/ p = NTHREAD
  <2> SUFFICES ASSUME ~QP!Accepts(q, p), p # NTHREAD PROVE FALSE
    OBVIOUS
  <2>0. p # (NTHREAD + 1) - 1
    BY SemaphoreAssumption
  <2>1. \/ QP!Length(q) = (NTHREAD + 1) - 1
        \/ \E k \in 1 .. QP!Length(q) : QP!Contents(q)[k] = p
    BY <2>0, SaneLine, QP!RefusalJustified
  <2>2. QP!Length(q) # (NTHREAD + 1) - 1
    BY <1>1, <1>2, SemaphoreAssumption
  <2>3. DOMAIN s = 1 .. QP!Length(q)
    BY <1>1, LenProperties
  <2> QED BY <1>1, <2>1, <2>2, <2>3 DEF Elems
<1>4. CASE QP!Accepts(q, p)
  BY <1>4, SaneLine, SameLine, SameQueueEnqueue, QP!EnqueueAppends
<1>5. CASE ~QP!Accepts(q, p)
  <2>1. X!Q!Enqueue(q, p) = q
    BY <1>5, SameQueueEnqueue DEF QP!Enqueue
  <2> QED BY <1>3, <1>5, <2>1
<1> QED BY <1>4, <1>5

------------------------------------------------------------------------------
(* The semaphore: an inductive invariant. *)
Waiting == Elems(Line)
\* Who was refused by the queue, and who has the permit, or has been given it and does
\* not know yet.
Refused ==
  {p \in Idx : /\ xpc[p] \in {"tosleep", "falling", "asleep"} /\ p \notin Waiting
               /\ \A q \in Idx : ~(xpc[q] = "wake" /\ next[q] = p)}
Inside ==
  {p \in Idx : xpc[p] = "in" \/ (xpc[p] \in X!Blocked /\ p \notin Waiting)} \ Refused
One(S) == IF S = {} THEN 0 ELSE 1

LineOK == X!TypeOK /\ QP!WellFormed(waiting) /\ Distinct(Line)
\* Where a thread is says which spinlock it holds and whether it may be queued.
PlaceOK(p) ==
  /\ lk = p <=> xpc[p] \in {"tosleep", "wake"}
  /\ plock = p <=> xpc[p] = "falling"
  /\ xpc[p] = "wake" => /\ next[p] \in Idx /\ next[p] \notin Waiting
                        /\ xpc[next[p]] \in {"falling", "asleep"}
  /\ p \in Waiting => xpc[p] \in {"tosleep", "falling", "asleep"}
\* One thread has the permit, or one waits in vain for it, or it is free; the others
\* are in the queue, and count has been taken down for all of them.
PermitOK ==
  /\ \A p, q \in Inside : p = q
  /\ Refused \subseteq {NTHREAD}
  /\ count = 1 - One(Inside) - One(Refused) - Len(Line)
  /\ Inside = {} /\ Refused = {} => Line = <<>>

XInv == LineOK /\ (\A p \in Idx : PlaceOK(p)) /\ PermitOK

LEMMA XInit == X!Init => XInv
<1> SUFFICES ASSUME X!Init PROVE XInv
  OBVIOUS
<1>1. QP!WellFormed(waiting) /\ Line = <<>>
  BY SaneLine, SameQueue, SameLine, QP!NewQueueEmpty DEF X!Init, Line
<1>2. Waiting = {} /\ Distinct(Line) /\ Len(Line) = 0
  BY <1>1 DEF Waiting, Elems, Distinct
<1>3. X!TypeOK
  BY <1>1, LineFacts DEF X!Init, X!TypeOK, X!None, X!PCs
<1>4. \A p \in Idx : PlaceOK(p)
  BY <1>2, SemaphoreAssumption DEF X!Init, X!None, PlaceOK
<1>5. Inside = {} /\ Refused = {}
  BY <1>2 DEF X!Init, Inside, Refused, X!Blocked
<1>6. PermitOK
  BY <1>1, <1>2, <1>5 DEF X!Init, PermitOK, One
<1> QED BY <1>1, <1>2, <1>3, <1>4, <1>6 DEF XInv, LineOK

\* How long the line is.
LEMMA LineLength == LineOK => Len(Line) \in Nat /\ (Len(Line) = 0 <=> Line = <<>>)
<1> SUFFICES ASSUME LineOK PROVE Len(Line) \in Nat /\ (Len(Line) = 0 <=> Line = <<>>)
  OBVIOUS
<1>1. Line \in Seq(Idx)
  BY LineFacts DEF LineOK, Line
<1> QED BY <1>1, LenProperties, EmptySeq

\* What a step that leaves the queue alone leaves alone.
LEMMA SameWaiters ==
  ASSUME LineOK, waiting' = waiting
  PROVE  /\ Line' = Line /\ Waiting' = Waiting
         /\ QP!WellFormed(waiting)' /\ Distinct(Line)'
<1>1. Line' = Line
  BY DEF Line, X!Q!Contents, X!Q!Length
<1>2. QP!WellFormed(waiting)'
  BY DEF LineOK, QP!WellFormed, QP!Window, QP!OnceEach
<1> QED BY <1>1, <1>2 DEF Waiting, Elems, Distinct, LineOK

\* A step of p that keeps the queue, the permit's owner and the wakeups under way.
LEMMA XQuiet ==
  ASSUME XInv, X!TypeOK', waiting' = waiting,
         \A p \in Idx : PlaceOK(p)', Inside' = Inside, Refused' = Refused, count' = count
  PROVE  XInv' /\ Line' = Line
<1>1. /\ Line' = Line /\ QP!WellFormed(waiting)' /\ Distinct(Line)'
  BY SameWaiters DEF XInv
<1>2. PermitOK'
  BY <1>1 DEF XInv, PermitOK, One
<1> QED BY <1>1, <1>2 DEF XInv, LineOK

LEMMA XWaitPass ==
  ASSUME XInv, NEW p \in Idx, X!WaitPass(p)
  PROVE  /\ XInv'
         /\ Line' = Line /\ Inside = {} /\ Inside' = {p} /\ count = 1 /\ count' = 0
         /\ Refused = {} /\ Refused' = {} /\ p \notin Waiting
<1>1. /\ xpc \in [Idx -> X!PCs] /\ xpc[p] = "out" /\ lk = X!None /\ count > 0 /\ count \in Int
      /\ xpc' = [xpc EXCEPT ![p] = "in"] /\ count' = count - 1
      /\ waiting' = waiting /\ lk' = lk /\ plock' = plock /\ next' = next
  BY DEF X!WaitPass, X!Goto, XInv, LineOK, X!TypeOK
<1>2. \A q \in Idx : xpc'[q] = IF q = p THEN "in" ELSE xpc[q]
  BY <1>1
<1>3. /\ Line' = Line /\ Waiting' = Waiting
      /\ QP!WellFormed(waiting)' /\ Distinct(Line)'
  BY <1>1, SameWaiters DEF XInv
<1>4. X!TypeOK'
  BY <1>1 DEF XInv, LineOK, X!TypeOK, X!PCs
<1>5. count = 1 /\ Inside = {} /\ Refused = {} /\ Len(Line) = 0
  <2>1. count = 1 - One(Inside) - One(Refused) - Len(Line) /\ Len(Line) \in Nat
    BY LineLength DEF XInv, PermitOK
  <2> QED BY <1>1, <2>1 DEF One
<1>6. Inside' = {p} /\ Refused' = {}
  BY <1>1, <1>2, <1>3, <1>5 DEF Inside, Refused, X!Blocked
<1>7. PermitOK'
  <2>1. count' = 0 /\ Len(Line') = 0 /\ Inside' # {}
    BY <1>1, <1>3, <1>5, <1>6
  <2>2. count' = 1 - One(Inside') - One(Refused') - Len(Line')
    BY <1>6, <2>1 DEF One
  <2> QED BY <1>6, <2>1, <2>2 DEF PermitOK, One
<1>8. ASSUME NEW q \in Idx PROVE PlaceOK(q)'
  BY <1>1, <1>2, <1>3 DEF XInv, PlaceOK
<1>9. p \notin Waiting
  BY <1>1 DEF XInv, PlaceOK
<1> QED BY <1>1, <1>3, <1>4, <1>5, <1>6, <1>7, <1>8, <1>9 DEF XInv, LineOK

LEMMA XWaitBlock ==
  ASSUME XInv, NEW p \in Idx, X!WaitBlock(p)
  PROVE  /\ XInv'
         /\ Inside' = Inside /\ count <= 0 /\ count' = count - 1
         /\ p \notin Waiting /\ p \notin Inside /\ p \notin Refused
         /\ \/ Line' = Append(Line, p) /\ Refused' = Refused
            \/ p = NTHREAD /\ Line' = Line /\ Refused' = Refused \cup {p}
<1>1. /\ xpc \in [Idx -> X!PCs] /\ xpc[p] = "out" /\ lk = X!None /\ count <= 0 /\ count \in Int
      /\ xpc' = [xpc EXCEPT ![p] = "tosleep"] /\ count' = count - 1
      /\ waiting' = X!Q!Enqueue(waiting, p) /\ lk' = p /\ plock' = plock /\ next' = next
  BY DEF X!WaitBlock, X!Goto, XInv, LineOK, X!TypeOK
<1>2. \A q \in Idx : xpc'[q] = IF q = p THEN "tosleep" ELSE xpc[q]
  BY <1>1
<1>3. /\ p \notin Waiting /\ QP!WellFormed(waiting) /\ Distinct(Line)
      /\ Line \in Seq(Idx) /\ Len(Line) \in Nat
  BY <1>1, LineFacts, LineLength DEF XInv, PlaceOK, LineOK, Line
<1>4. p \notin Inside /\ p \notin Refused
  BY <1>1 DEF Inside, Refused, X!Blocked
<1>5. \A r \in Idx : PlaceOK(r)
  BY DEF XInv
<1>6. \A r \in Idx : xpc[r] # "wake" /\ xpc[r] # "tosleep" /\ r # X!None
  BY <1>1, <1>5, SemaphoreAssumption DEF PlaceOK, X!None
<1>7. /\ \A q, r \in Inside : q = r
      /\ Refused \subseteq {NTHREAD}
      /\ count = 1 - One(Inside) - One(Refused) - Len(Line)
      /\ Inside # {} \/ Refused # {}
  <2>1. /\ count = 1 - One(Inside) - One(Refused) - Len(Line)
        /\ Inside = {} /\ Refused = {} => Len(Line) = 0
    BY DEF XInv, PermitOK
  <2>2. Inside # {} \/ Refused # {}
    <3> SUFFICES ASSUME Inside = {}, Refused = {} PROVE FALSE
      OBVIOUS
    <3>1. One(Inside) = 0 /\ One(Refused) = 0 /\ Len(Line) = 0
      BY <2>1 DEF One
    <3> QED BY <1>1, <2>1, <3>1
  <2> QED BY <2>2 DEF XInv, PermitOK
<1>8. CASE QP!WellFormed(waiting') /\ Line' = Append(Line, p)
  <2>1. /\ Distinct(Line)' /\ Waiting' = Waiting \cup {p}
        /\ Len(Line') = Len(Line) + 1
    BY <1>3, <1>8, AppendElems DEF Waiting, Distinct
  <2>2. X!TypeOK'
    BY <1>1, <1>8, LineFacts DEF XInv, LineOK, X!TypeOK, X!PCs
  <2>3. Refused' = Refused
    BY <1>1, <1>2, <1>4, <1>6, <2>1 DEF Refused
  <2>4. Inside' = Inside
    BY <1>1, <1>2, <2>1, <2>3 DEF Inside, X!Blocked
  <2>5. PermitOK'
    <3>1. count' = 1 - One(Inside') - One(Refused') - Len(Line')
      BY <1>1, <1>3, <1>7, <2>1, <2>3, <2>4 DEF One
    <3> QED BY <1>7, <2>3, <2>4, <3>1 DEF PermitOK, One
  <2>6. ASSUME NEW q \in Idx PROVE PlaceOK(q)'
    BY <1>1, <1>2, <1>5, <1>6, <2>1 DEF PlaceOK
  <2> QED BY <1>1, <1>3, <1>4, <1>8, <2>1, <2>2, <2>3, <2>4, <2>5, <2>6
          DEF XInv, LineOK, QP!WellFormed
<1>9. CASE p = NTHREAD /\ waiting' = waiting
  <2>1. /\ Line' = Line /\ Waiting' = Waiting
        /\ QP!WellFormed(waiting)' /\ Distinct(Line)'
    BY <1>9, SameWaiters DEF XInv
  <2>2. X!TypeOK'
    BY <1>1, <1>9 DEF XInv, LineOK, X!TypeOK, X!PCs
  <2>3. Refused' = Refused \cup {p}
    BY <1>1, <1>2, <1>3, <1>5, <1>6, <2>1 DEF Refused
  <2>4. Inside' = Inside
    BY <1>1, <1>2, <1>4, <2>1, <2>3 DEF Inside, X!Blocked
  <2>5. PermitOK'
    <3>1. Refused = {} /\ Refused' = {NTHREAD}
      BY <1>4, <1>7, <1>9, <2>3
    <3>2. count' = 1 - One(Inside') - One(Refused') - Len(Line')
      BY <1>1, <1>3, <1>7, <2>1, <2>4, <3>1 DEF One
    <3> QED BY <1>7, <2>4, <3>1, <3>2 DEF PermitOK, One
  <2>6. ASSUME NEW q \in Idx PROVE PlaceOK(q)'
    BY <1>1, <1>2, <1>5, <1>6, <2>1 DEF PlaceOK
  <2> QED BY <1>1, <1>3, <1>4, <1>9, <2>1, <2>2, <2>3, <2>4, <2>5, <2>6 DEF XInv, LineOK
<1>10. (QP!WellFormed(waiting') /\ Line' = Append(Line, p)) \/ (p = NTHREAD /\ waiting' = waiting)
  BY <1>1, <1>3, LineAccepts DEF Line, Waiting
<1> QED BY <1>8, <1>9, <1>10

LEMMA XSleepLock ==
  ASSUME XInv, NEW p \in Idx, X!SleepLock(p)
  PROVE  XInv' /\ Line' = Line /\ Inside' = Inside /\ Refused' = Refused /\ count' = count
<1>1. /\ xpc \in [Idx -> X!PCs] /\ xpc[p] = "tosleep" /\ plock = X!None
      /\ xpc' = [xpc EXCEPT ![p] = "falling"] /\ count' = count
      /\ waiting' = waiting /\ lk' = X!None /\ plock' = p /\ next' = next
  BY DEF X!SleepLock, X!Goto, XInv, LineOK, X!TypeOK
<1>2. \A q \in Idx : xpc'[q] = IF q = p THEN "falling" ELSE xpc[q]
  BY <1>1
<1>3. Waiting' = Waiting
  BY <1>1, SameWaiters DEF XInv
<1>4. X!TypeOK'
  BY <1>1 DEF XInv, LineOK, X!TypeOK, X!PCs
<1>5. Inside' = Inside /\ Refused' = Refused
  <2>1. Refused' = Refused
    BY <1>1, <1>2, <1>3 DEF Refused
  <2> QED BY <1>1, <1>2, <1>3, <2>1 DEF Inside, X!Blocked
<1>6. ASSUME NEW q \in Idx PROVE PlaceOK(q)'
  <2>1. \A r \in Idx : r # X!None
    BY SemaphoreAssumption DEF X!None
  <2>2. \A r \in Idx : PlaceOK(r)
    BY DEF XInv
  <2>3. \A r \in Idx : xpc[r] # "wake" /\ xpc[r] # "falling" /\ (xpc[r] = "tosleep" => r = p)
    BY <1>1, <2>1, <2>2 DEF PlaceOK
  <2> QED BY <1>1, <1>2, <1>3, <2>1, <2>2, <2>3 DEF PlaceOK
<1> QED BY <1>1, <1>4, <1>5, <1>6, XQuiet

LEMMA XFallAsleep ==
  ASSUME XInv, NEW p \in Idx, X!FallAsleep(p)
  PROVE  XInv' /\ Line' = Line /\ Inside' = Inside /\ Refused' = Refused /\ count' = count
<1>1. /\ xpc \in [Idx -> X!PCs] /\ xpc[p] = "falling"
      /\ xpc' = [xpc EXCEPT ![p] = "asleep"] /\ count' = count
      /\ waiting' = waiting /\ lk' = lk /\ plock' = X!None /\ next' = next
  BY DEF X!FallAsleep, X!Goto, XInv, LineOK, X!TypeOK
<1>2. \A q \in Idx : xpc'[q] = IF q = p THEN "asleep" ELSE xpc[q]
  BY <1>1
<1>3. Waiting' = Waiting
  BY <1>1, SameWaiters DEF XInv
<1>4. X!TypeOK'
  BY <1>1 DEF XInv, LineOK, X!TypeOK, X!PCs
<1>5. Inside' = Inside /\ Refused' = Refused
  <2>1. Refused' = Refused
    BY <1>1, <1>2, <1>3 DEF Refused
  <2> QED BY <1>1, <1>2, <1>3, <2>1 DEF Inside, X!Blocked
<1>6. ASSUME NEW q \in Idx PROVE PlaceOK(q)'
  <2>1. \A r \in Idx : r # X!None
    BY SemaphoreAssumption DEF X!None
  <2>2. \A r \in Idx : PlaceOK(r)
    BY DEF XInv
  <2>3. \A r \in Idx : xpc[r] = "falling" => r = p
    BY <1>1, <2>1, <2>2 DEF PlaceOK
  <2> QED BY <1>1, <1>2, <1>3, <2>1, <2>2, <2>3 DEF PlaceOK
<1> QED BY <1>1, <1>4, <1>5, <1>6, XQuiet
LEMMA XResume ==
  ASSUME XInv, NEW p \in Idx, X!Resume(p)
  PROVE  XInv' /\ Line' = Line /\ Inside' = Inside /\ Refused' = Refused /\ count' = count
<1>1. /\ xpc \in [Idx -> X!PCs] /\ xpc[p] = "woken"
      /\ xpc' = [xpc EXCEPT ![p] = "in"] /\ count' = count
      /\ waiting' = waiting /\ lk' = lk /\ plock' = plock /\ next' = next
  BY DEF X!Resume, X!Goto, XInv, LineOK, X!TypeOK
<1>2. \A q \in Idx : xpc'[q] = IF q = p THEN "in" ELSE xpc[q]
  BY <1>1
<1>3. Waiting' = Waiting
  BY <1>1, SameWaiters DEF XInv
<1>4. X!TypeOK'
  BY <1>1 DEF XInv, LineOK, X!TypeOK, X!PCs
<1>5. Inside' = Inside /\ Refused' = Refused
  <2>1. \A r \in Idx : PlaceOK(r)
    BY DEF XInv
  <2>2. Refused' = Refused
    BY <1>1, <1>2, <1>3 DEF Refused
  <2> QED BY <1>1, <1>2, <1>3, <2>1, <2>2 DEF Inside, Refused, X!Blocked, PlaceOK
<1>6. ASSUME NEW q \in Idx PROVE PlaceOK(q)'
  BY <1>1, <1>2, <1>3 DEF XInv, PlaceOK
<1> QED BY <1>1, <1>4, <1>5, <1>6, XQuiet

LEMMA XUnlockFree ==
  ASSUME XInv, NEW p \in Idx, X!UnlockFree(p)
  PROVE  /\ XInv'
         /\ Line' = Line /\ Line = <<>> /\ Inside = {p} /\ Inside' = {} /\ Refused' = Refused
         /\ count = 0 - One(Refused) /\ count' = count + 1
<1>1. /\ xpc \in [Idx -> X!PCs] /\ xpc[p] = "in" /\ lk = X!None /\ count \in Int
      /\ X!Q!IsEmpty(waiting)
      /\ xpc' = [xpc EXCEPT ![p] = "out"] /\ count' = count + 1
      /\ waiting' = waiting /\ lk' = lk /\ plock' = plock /\ next' = next
  BY DEF X!UnlockFree, X!Goto, XInv, LineOK, X!TypeOK
<1>2. \A q \in Idx : xpc'[q] = IF q = p THEN "out" ELSE xpc[q]
  BY <1>1
<1>3. /\ Line' = Line /\ Waiting' = Waiting
      /\ QP!WellFormed(waiting)' /\ Distinct(Line)'
  BY <1>1, SameWaiters DEF XInv
<1>4. X!TypeOK'
  BY <1>1 DEF XInv, LineOK, X!TypeOK, X!PCs
<1>5. p \in Inside /\ Line = <<>>
  BY <1>1, LineFacts DEF Inside, Refused, XInv, LineOK, Line
<1>6. Inside = {p} /\ count = 0 - One(Refused) /\ Len(Line) = 0
  <2>1. Len(Line) = 0 /\ Inside # {}
    BY <1>5
  <2>2. Inside = {p} /\ count = 1 - One(Inside) - One(Refused) - Len(Line)
    BY <1>5 DEF XInv, PermitOK
  <2> QED BY <1>1, <2>1, <2>2 DEF One
<1>7. Refused' = Refused /\ Inside' = {}
  <2>1. Refused' = Refused
    BY <1>1, <1>2, <1>3 DEF Refused
  <2> QED BY <1>1, <1>2, <1>3, <1>6, <2>1 DEF Inside, X!Blocked
<1>8. PermitOK'
  <2>1. count' = 1 - One(Inside') - One(Refused') - Len(Line')
    BY <1>1, <1>3, <1>6, <1>7 DEF One
  <2> QED BY <1>3, <1>5, <1>7, <2>1 DEF PermitOK, XInv, One
<1>9. ASSUME NEW q \in Idx PROVE PlaceOK(q)'
  BY <1>1, <1>2, <1>3 DEF XInv, PlaceOK
<1> QED BY <1>1, <1>3, <1>4, <1>5, <1>6, <1>7, <1>8, <1>9 DEF XInv, LineOK

LEMMA XUnlockPass ==
  ASSUME XInv, NEW p \in Idx, X!UnlockPass(p)
  PROVE  /\ XInv'
         /\ Line' = Tail(Line) /\ Line # <<>> /\ Inside = {p} /\ Inside' = {Head(Line)}
         /\ Refused' = Refused /\ count < 0 /\ count' = count + 1
<1> DEFINE h == X!Q!DequeueReply(waiting)
<1>1. /\ xpc \in [Idx -> X!PCs] /\ xpc[p] = "in" /\ lk = X!None /\ count \in Int
      /\ next \in [Idx -> Idx \cup {X!None}]
      /\ ~X!Q!IsEmpty(waiting)
      /\ xpc' = [xpc EXCEPT ![p] = "wake"] /\ count' = count + 1
      /\ waiting' = X!Q!Dequeue(waiting) /\ lk' = p /\ plock' = plock
      /\ next' = [next EXCEPT ![p] = h]
  BY DEF X!UnlockPass, X!Goto, XInv, LineOK, X!TypeOK
<1>2. /\ QP!WellFormed(waiting) /\ Distinct(Line) /\ Line \in Seq(Idx) /\ Line # <<>>
  BY <1>1, LineFacts DEF XInv, LineOK, Line
<1>3. /\ QP!WellFormed(waiting') /\ Line' = Tail(Line) /\ h = Head(Line) /\ h \in Idx
  BY <1>1, <1>2, LineTakes DEF Line
<1>4. /\ Distinct(Line)' /\ Waiting' = Waiting \ {h} /\ h \in Waiting
      /\ Len(Line') = Len(Line) - 1 /\ Len(Line) \in Nat \ {0}
  BY <1>2, <1>3, TailElems DEF Waiting, Distinct
<1> HIDE DEF h
<1>5. \A q \in Idx : /\ xpc'[q] = IF q = p THEN "wake" ELSE xpc[q]
                     /\ next'[q] = IF q = p THEN h ELSE next[q]
  BY <1>1
<1>6. X!TypeOK'
  BY <1>1, <1>3, LineFacts DEF XInv, LineOK, X!TypeOK, X!PCs
<1>7. \A q \in Idx : PlaceOK(q)
  BY DEF XInv
<1>8. \A q \in Idx : xpc[q] # "wake" /\ xpc[q] # "tosleep"
  BY <1>1, <1>7, SemaphoreAssumption DEF PlaceOK, X!None
<1>9. h # p /\ xpc[h] \in {"falling", "asleep"}
  BY <1>1, <1>3, <1>4, <1>7, <1>8 DEF PlaceOK
<1>10. Inside = {p}
  <2>1. p \in Inside
    BY <1>1 DEF Inside, Refused
  <2> QED BY <2>1 DEF XInv, PermitOK
<1>11. Refused' = Refused /\ Inside' = {h}
  <2>1. h \notin Refused /\ h \notin Refused'
    BY <1>3, <1>4, <1>5 DEF Refused
  <2>2. ASSUME NEW q \in Idx, q # h PROVE q \in Refused <=> q \in Refused'
    <3>1. (\A r \in Idx : ~(xpc[r] = "wake" /\ next[r] = q))
          /\ (\A r \in Idx : ~(xpc'[r] = "wake" /\ next'[r] = q))
      BY <1>5, <1>8, <2>2
    <3>2. (q \in Waiting <=> q \in Waiting')
          /\ (xpc[q] \in {"tosleep", "falling", "asleep"} <=> xpc'[q] \in {"tosleep", "falling", "asleep"})
      BY <1>1, <1>4, <1>5, <2>2
    <3> QED BY <3>1, <3>2 DEF Refused
  <2>3. Refused \subseteq Idx /\ Refused' \subseteq Idx
    BY DEF Refused
  <2>4. Refused' = Refused
    BY <2>1, <2>2, <2>3
  <2> QED BY <1>3, <1>4, <1>5, <1>9, <1>10, <2>1, <2>4 DEF Inside, X!Blocked
<1>12. PermitOK' /\ count < 0
  <2>1. count = 0 - One(Refused) - Len(Line)
    BY <1>4, <1>10 DEF XInv, PermitOK, One
  <2>2. count' = 1 - One(Inside') - One(Refused') - Len(Line') /\ count < 0
    BY <1>1, <1>4, <1>11, <2>1 DEF One
  <2> QED BY <2>2, <1>11 DEF PermitOK, XInv, One
<1>13. ASSUME NEW q \in Idx PROVE PlaceOK(q)'
  <2>1. p # X!None
    BY SemaphoreAssumption DEF X!None
  <2> QED BY <1>1, <1>3, <1>4, <1>5, <1>7, <1>8, <1>9, <2>1 DEF PlaceOK
<1> QED BY <1>1, <1>2, <1>3, <1>4, <1>6, <1>10, <1>11, <1>12, <1>13
        DEF XInv, LineOK, QP!WellFormed

LEMMA XWake ==
  ASSUME XInv, NEW p \in Idx, X!Wake(p)
  PROVE  XInv' /\ Line' = Line /\ Inside' = Inside /\ Refused' = Refused /\ count' = count
<1> DEFINE h == next[p]
<1>1. /\ xpc \in [Idx -> X!PCs] /\ xpc[p] = "wake" /\ plock = X!None
      /\ next \in [Idx -> Idx \cup {X!None}]
      /\ xpc' = [X!Wakened(h) EXCEPT ![p] = "out"] /\ next' = [next EXCEPT ![p] = X!None]
      /\ lk' = X!None /\ count' = count /\ waiting' = waiting /\ plock' = plock
  BY DEF X!Wake, XInv, LineOK, X!TypeOK
<1>2. \A q \in Idx : PlaceOK(q)
  BY DEF XInv
<1>3. h \in Idx /\ h \notin Waiting /\ xpc[h] = "asleep"
  <2>1. h \in Idx /\ h \notin Waiting /\ xpc[h] \in {"falling", "asleep"}
    BY <1>1, <1>2 DEF PlaceOK
  <2>2. h # X!None
    BY <2>1, SemaphoreAssumption DEF X!None
  <2> HIDE DEF h
  <2>3. xpc[h] # "falling"
    BY <1>1, <1>2, <2>1, <2>2 DEF PlaceOK
  <2> QED BY <2>1, <2>3
<1> HIDE DEF h
<1>4. h # p /\ \A q \in Idx : xpc'[q] = IF q = p THEN "out" ELSE IF q = h THEN "woken" ELSE xpc[q]
  BY <1>1, <1>3 DEF X!Wakened
<1>5. \A q \in Idx : next'[q] = IF q = p THEN X!None ELSE next[q]
  BY <1>1
<1>6. Waiting' = Waiting
  BY <1>1, SameWaiters DEF XInv
<1>7. X!TypeOK'
  BY <1>1, <1>3 DEF XInv, LineOK, X!TypeOK, X!PCs, X!Wakened
<1>8. Inside' = Inside /\ Refused' = Refused
  <2>1. \A r \in Idx : xpc[r] = "wake" => r = p
    BY <1>1, <1>2, SemaphoreAssumption DEF PlaceOK, X!None
  <2>2. h \notin Refused /\ h \notin Refused'
    BY <1>1, <1>3, <1>4 DEF Refused, h
  <2>3. Refused' = Refused
    BY <1>1, <1>3, <1>4, <1>6, <2>1, <2>2 DEF Refused, h
  <2> QED BY <1>1, <1>3, <1>4, <1>6, <2>2, <2>3 DEF Inside, X!Blocked
<1>9. ASSUME NEW q \in Idx PROVE PlaceOK(q)'
  <2>1. \A r \in Idx : r # X!None
    BY SemaphoreAssumption DEF X!None
  <2>2. \A r \in Idx : /\ xpc[r] # "falling" /\ xpc[r] # "tosleep"
                       /\ (xpc[r] = "wake" => r = p)
    BY <1>1, <1>2, <2>1 DEF PlaceOK
  <2> QED BY <1>1, <1>2, <1>3, <1>4, <1>5, <1>6, <2>1, <2>2 DEF PlaceOK, h
<1> QED BY <1>1, <1>7, <1>8, <1>9, XQuiet

LEMMA XStutter == XInv /\ UNCHANGED xvars => XInv'
<1> SUFFICES ASSUME XInv, UNCHANGED xvars PROVE XInv'
  OBVIOUS
<1>1. /\ Line' = Line /\ Waiting' = Waiting
      /\ QP!WellFormed(waiting)' /\ Distinct(Line)'
  BY SameWaiters DEF XInv, xvars
<1>2. X!TypeOK' /\ Refused' = Refused /\ Inside' = Inside
  BY <1>1 DEF XInv, LineOK, X!TypeOK, xvars, Inside, Refused
<1>3. ASSUME NEW q \in Idx PROVE PlaceOK(q)'
  BY <1>1 DEF XInv, PlaceOK, xvars
<1> QED BY <1>2, <1>3, XQuiet DEF xvars

LEMMA XStep == XInv /\ X!Next => XInv'
<1> SUFFICES ASSUME XInv, NEW p \in Idx, X!xem_wait(p) \/ X!xem_unlock(p) PROVE XInv'
  BY DEF X!Next
<1> QED BY XWaitPass, XWaitBlock, XSleepLock, XFallAsleep, XResume,
           XUnlockFree, XUnlockPass, XWake DEF X!xem_wait, X!xem_unlock

LEMMA InLine == \A p : X!InQueue(p) <=> p \in Waiting
  BY DEF X!InQueue, Waiting, Elems, Line

LEMMA SameSets == X!Refused = Refused /\ X!Inside = Inside
  BY InLine DEF X!Refused, X!Inside, Refused, Inside

LEMMA SameCount == \A S : X!Cardinality(S) = Cardinality(S)
  BY DEF X!Cardinality, Cardinality

LEMMA CountsOne ==
  ASSUME NEW a
  PROVE  Cardinality({a}) = 1 /\ One({a}) = 1 /\ IsFiniteSet({a}) /\ One({}) = 0
  BY FS_Singleton DEF One

\* What the invariant says of the semaphore.
LEMMA SemaphoreSound == XInv => /\ X!TypeOK /\ X!CountIsBalance
                                /\ X!MutualExclusion /\ X!NoLostWakeup
<1> SUFFICES ASSUME XInv
             PROVE  X!TypeOK /\ X!CountIsBalance /\ X!MutualExclusion /\ X!NoLostWakeup
  OBVIOUS
<1>1. X!TypeOK
  BY DEF XInv, LineOK
<1>2. X!CountIsBalance
  <2>1. /\ count = 1 - One(Inside) - One(Refused) - Len(Line)
        /\ Refused \subseteq {NTHREAD}
        /\ \A p, q \in Inside : p = q
    BY DEF XInv, PermitOK
  <2>a. Inside \cap Refused = {}
    BY DEF Inside
  <2>2. Len(Line) \in Nat
    BY LineLength DEF XInv
  <2>3. Inside = {} \/ \E p : Inside = {p}
    <3>1. ASSUME NEW p \in Inside PROVE Inside = {p}
      BY <2>1
    <3> QED BY <3>1
  <2>4. Refused = {} \/ Refused = {NTHREAD}
    BY <2>1
  <2>5. Cardinality(Inside \cup Refused) = One(Inside) + One(Refused)
    <3>1. CASE Inside = {}
      <4>1. Inside \cup Refused = Refused /\ One(Inside) = 0
        BY <3>1 DEF One
      <4>2. Cardinality(Refused) = One(Refused)
        BY <2>4, CountsOne, FS_EmptySet
      <4> QED BY <4>1, <4>2 DEF One
    <3>2. ASSUME NEW p, Inside = {p}
          PROVE  Cardinality(Inside \cup Refused) = One(Inside) + One(Refused)
      <4>1. One(Inside) = 1 /\ Cardinality(Inside) = 1
        BY <3>2, CountsOne
      <4>2. CASE Refused = {}
        <5>1. Inside \cup Refused = Inside /\ One(Refused) = 0
          BY <4>2 DEF One
        <5> QED BY <4>1, <5>1
      <4>3. CASE Refused = {NTHREAD}
        <5>1. NTHREAD \notin Inside /\ One(Refused) = 1 /\ IsFiniteSet(Inside)
          BY <2>a, <3>2, <4>3, CountsOne
        <5>2. Cardinality(Inside \cup {NTHREAD}) = Cardinality(Inside) + 1
          BY <5>1, FS_AddElement
        <5> QED BY <4>1, <4>3, <5>1, <5>2
      <4> QED BY <2>4, <4>2, <4>3
    <3> QED BY <2>3, <3>1, <3>2
  <2>6. X!Cardinality(Inside \cup Refused) = Cardinality(Inside \cup Refused)
    BY SameCount
  <2> QED BY <2>1, <2>2, <2>5, <2>6, SameSets DEF X!CountIsBalance, Line, One
<1>3. X!MutualExclusion
  BY DEF XInv, PermitOK, Inside, Refused, X!MutualExclusion
<1>4. X!NoLostWakeup
  BY InLine DEF XInv, PermitOK, Refused, X!NoLostWakeup
<1> QED BY <1>1, <1>2, <1>3, <1>4

------------------------------------------------------------------------------
(* The semaphore implements Semaphore. *)
Permits == IF count > 0 THEN count ELSE 0

LEMMA XAbsInit == X!Init => X!Abs!Init
<1> SUFFICES ASSUME X!Init PROVE X!Abs!Init
  OBVIOUS
<1>1. Line = <<>>
  BY SaneLine, SameQueue, SameLine, QP!NewQueueEmpty DEF X!Init, Line
<1>2. Inside = {} /\ Refused = {}
  BY DEF Inside, Refused, X!Init, X!Blocked
<1>3. Permits = 1
  BY DEF X!Init, Permits
<1> QED BY <1>1, <1>2, <1>3, SameSets DEF X!Abs!Init, Line, Permits

LEMMA PrimedSets == X!Refused' = Refused' /\ X!Inside' = Inside'
  BY DEF X!Refused, X!Inside, Refused, Inside, X!InQueue, Waiting, Elems, Line

\* A step that the abstract semaphore does not see.
LEMMA XAbsQuiet ==
  ASSUME Inside' = Inside, Refused' = Refused, count' = count, Line' = Line
  PROVE  UNCHANGED X!Abs!vars
  BY PrimedSets, SameSets DEF X!Abs!vars, Line, Permits

LEMMA XAbsStep == XInv /\ X!Next => [X!Abs!Next]_(X!Abs!vars)
<1> SUFFICES ASSUME XInv, NEW p \in Idx, X!xem_wait(p) \/ X!xem_unlock(p)
             PROVE  X!Abs!Wait(p) \/ X!Abs!Signal(p) \/ UNCHANGED X!Abs!vars
  BY DEF X!Next, X!Abs!Next
<1>a. /\ X!Inside = Inside /\ X!Inside' = Inside'
      /\ X!Refused = Refused /\ X!Refused' = Refused'
  BY SameSets, PrimedSets
<1>b. \A q : X!Abs!Queued(q) <=> q \in Waiting
  BY DEF X!Abs!Queued, Waiting, Elems, Line
<1>1. CASE X!WaitPass(p)
  <2>1. /\ Line' = Line /\ Inside = {} /\ Inside' = {p} /\ count = 1 /\ count' = 0
        /\ Refused = {} /\ Refused' = {} /\ p \notin Waiting
    BY <1>1, XWaitPass
  <2>2. Permits = 1 /\ Permits' = 0 /\ Inside' = Inside \cup {p}
    BY <2>1 DEF Permits
  <2>3. X!Abs!Wait(p)
    BY <1>a, <1>b, <2>1, <2>2 DEF X!Abs!Wait, X!Abs!Pass, Permits, Line
  <2> QED BY <2>3
<1>2. CASE X!WaitBlock(p)
  <2>1. /\ Inside' = Inside /\ count <= 0 /\ count' = count - 1
        /\ p \notin Waiting /\ p \notin Inside /\ p \notin Refused /\ count \in Int
    BY <1>2, XWaitBlock DEF XInv, LineOK, X!TypeOK
  <2>2. Permits = 0 /\ Permits' = 0
    BY <2>1 DEF Permits
  <2>3. CASE Line' = Append(Line, p) /\ Refused' = Refused
    <3>1. X!Abs!Wait(p)
      BY <1>a, <1>b, <2>1, <2>2, <2>3 DEF X!Abs!Wait, X!Abs!Block, Permits, Line
    <3> QED BY <3>1
  <2>4. CASE p = NTHREAD /\ Line' = Line /\ Refused' = Refused \cup {p}
    <3>1. X!Abs!Wait(p)
      BY <1>a, <1>b, <2>1, <2>2, <2>4 DEF X!Abs!Wait, X!Abs!Lose, Permits, Line
    <3> QED BY <3>1
  <2> QED BY <1>2, <2>3, <2>4, XWaitBlock
<1>3. CASE X!SleepLock(p) \/ X!FallAsleep(p) \/ X!Resume(p) \/ X!Wake(p)
  <2>1. Line' = Line /\ Inside' = Inside /\ Refused' = Refused /\ count' = count
    BY <1>3, XSleepLock, XFallAsleep, XResume, XWake
  <2> QED BY <2>1, XAbsQuiet
<1>4. CASE X!UnlockFree(p)
  <2>1. /\ Line' = Line /\ Line = <<>> /\ Inside = {p} /\ Inside' = {} /\ Refused' = Refused
        /\ count = 0 - One(Refused) /\ count' = count + 1
    BY <1>4, XUnlockFree
  <2>2. /\ Permits = 0 /\ Permits' = IF Refused = {} THEN Permits + 1 ELSE Permits
        /\ Inside' = Inside \ {p} /\ p \in Inside
    BY <2>1 DEF Permits, One
  <2>3. X!Abs!Signal(p)
    BY <1>a, <2>1, <2>2 DEF X!Abs!Signal, Permits, Line
  <2> QED BY <2>3
<1>5. CASE X!UnlockPass(p)
  <2>1. /\ Line' = Tail(Line) /\ Line # <<>> /\ Inside = {p} /\ Inside' = {Head(Line)}
        /\ Refused' = Refused /\ count < 0 /\ count' = count + 1 /\ count \in Int
    BY <1>5, XUnlockPass DEF XInv, LineOK, X!TypeOK
  <2>2. /\ Permits = 0 /\ Permits' = 0
        /\ Inside' = (Inside \ {p}) \cup {Head(Line)} /\ p \in Inside
    BY <2>1 DEF Permits
  <2>3. X!Abs!Signal(p)
    BY <1>a, <2>1, <2>2 DEF X!Abs!Signal, Permits, Line
  <2> QED BY <2>3
<1> QED BY <1>1, <1>2, <1>3, <1>4, <1>5 DEF X!xem_wait, X!xem_unlock
------------------------------------------------------------------------------
(* Counters that wrap: division with remainder, where SMT needs a hand. *)
LEMMA Division ==
  ASSUME NEW d \in Nat \ {0}, NEW a \in Int
  PROVE  a = d * (a \div d) + (a % d) /\ a % d \in 0 .. d - 1 /\ a \div d \in Int
  OBVIOUS

LEMMA OneRemainder ==
  ASSUME NEW d \in Nat \ {0}, NEW q \in Int, NEW s \in Int,
         NEW r \in 0 .. d - 1, NEW t \in 0 .. d - 1, d * q + r = d * s + t
  PROVE  r = t
<1> DEFINE e == q - s
<1>1. d * e = t - r /\ e \in Int
  OBVIOUS
<1> HIDE DEF e
<1>2. e >= 1 => d * e >= d
  BY <1>1
<1>3. e <= -1 => d * e <= -d
  BY <1>1
<1>4. e = 0
  BY <1>1, <1>2, <1>3
<1> QED BY <1>1, <1>4

\* Whole turns change no remainder.
LEMMA WholeTurns ==
  ASSUME NEW d \in Nat \ {0}, NEW m \in Int, NEW a \in Int
  PROVE  (a + m * d) % d = a % d
<1> DEFINE b == a + m * d
           x == a \div d
           y == a % d
           u == b \div d
           v == b % d
<1>1. b \in Int
  OBVIOUS
<1>2. b = d * u + v /\ v \in 0 .. d - 1 /\ u \in Int
  BY <1>1, Division
<1>3. a = d * x + y /\ y \in 0 .. d - 1 /\ x \in Int
  BY Division
<1>4. d * (x + m) = d * x + m * d
  BY <1>3
<1> HIDE DEF x, y, u, v
<1>5. d * u + v = d * (x + m) + y
  BY <1>2, <1>3, <1>4
<1> HIDE DEF b
<1>6. v = y
  BY <1>2, <1>3, <1>5, OneRemainder
<1> QED BY <1>6 DEF v, y, b

\* Numbers less than a turn apart are in slots of their own.
LEMMA LessThanATurn ==
  ASSUME NEW d \in Nat \ {0}, NEW a \in Int, NEW b \in Int, a < b, b < a + d
  PROVE  a % d # b % d
<1> SUFFICES ASSUME a % d = b % d PROVE FALSE
  OBVIOUS
<1> DEFINE x == a \div d
           u == b \div d
           e == u - x
<1>1. a = d * x + (a % d) /\ x \in Int /\ b = d * u + (b % d) /\ u \in Int
  BY Division
<1>2. a % d \in Int
  BY Division
<1> HIDE DEF x, u
<1>3. d * e = b - a /\ e \in Int
  BY <1>1, <1>2
<1> HIDE DEF e
<1>4. e >= 1 => d * e >= d
  BY <1>3
<1>5. e <= 0 => d * e <= 0
  BY <1>3
<1> QED BY <1>3, <1>4, <1>5

LEMMA NearZero ==
  ASSUME NEW d \in Nat \ {0}, NEW x \in -d .. 2 * d - 1
  PROVE  x % d = IF x < 0 THEN x + d ELSE IF x < d THEN x ELSE x - d
<1>1. CASE x < 0
  <2>1. x + d \in 0 .. d - 1 /\ x = d * (-1) + (x + d)
    BY <1>1
  <2>2. x = d * (x \div d) + (x % d) /\ x % d \in 0 .. d - 1 /\ x \div d \in Int
    BY Division
  <2> QED BY <1>1, <2>1, <2>2, OneRemainder
<1>2. CASE x >= 0 /\ x < d
  BY <1>2
<1>3. CASE x >= d
  BY <1>3
<1> QED BY <1>1, <1>2, <1>3

------------------------------------------------------------------------------
(* The ring of a pipe. *)
LEMMA PipeSizes ==
  PIPESIZE \in Nat \ {0} /\ UINT \in Nat \ {0} /\ PIPESIZE < UINT
<1>1. PICK m \in 2 .. UINT : m \in Nat /\ m > 1 /\ UINT = m * PIPESIZE
  BY PipeAssumption
<1>2. PIPESIZE \in Nat \ {0}
  BY PipeAssumption
<1>3. m * PIPESIZE \in Nat
  BY <1>1, <1>2
<1>4. (m - 2) * PIPESIZE >= 0 /\ m * PIPESIZE = (m - 2) * PIPESIZE + 2 * PIPESIZE
  BY <1>1, <1>2
<1> QED BY <1>1, <1>2, <1>3, <1>4

LEMMA PipeTurn ==
  ASSUME NEW a \in Int
  PROVE  (a - UINT) % PIPESIZE = a % PIPESIZE
<1>1. PICK m \in 2 .. UINT : m \in Nat /\ m > 1 /\ UINT = m * PIPESIZE
  BY PipeAssumption
<1>2. PIPESIZE \in Nat \ {0}
  BY PipeAssumption
<1>3. -m \in Int /\ a + (-m) * PIPESIZE = a - UINT
  BY <1>1, <1>2
<1> QED BY <1>2, <1>3, WholeTurns

\* The slots from r on hold the bytes f, and w is the counter after them.
Ring(d, r, w, f) ==
  /\ d \in [0 .. PIPESIZE - 1 -> P!Bytes] /\ f \in Seq(P!Bytes)
  /\ r \in 0 .. UINT - 1 /\ w \in 0 .. UINT - 1
  /\ (w - r) % UINT = Len(f) /\ Len(f) <= PIPESIZE
  /\ \A k \in 1 .. Len(f) : d[(r + k - 1) % PIPESIZE] = f[k]

\* Moving on a counter by at most the size of the pipe.
LEMMA MoveOn ==
  ASSUME NEW c \in 0 .. UINT - 1, NEW k \in 0 .. PIPESIZE
  PROVE  /\ (c + k) % UINT \in 0 .. UINT - 1
         /\ (c + k) % UINT = IF c + k < UINT THEN c + k ELSE c + k - UINT
         /\ \A j \in Int : (((c + k) % UINT) + j) % PIPESIZE = (c + k + j) % PIPESIZE
<1>1. c + k \in -UINT .. 2 * UINT - 1 /\ c + k >= 0
  BY PipeSizes
<1> DEFINE e == c + k
<1>2. e % UINT = IF e < 0 THEN e + UINT ELSE IF e < UINT THEN e ELSE e - UINT
  <2> HIDE DEF e
  <2> QED BY <1>1, NearZero, PipeSizes DEF e
<1>3. e % UINT = IF e < UINT THEN e ELSE e - UINT
  BY <1>1, <1>2
<1>4. ASSUME NEW j \in Int PROVE ((e % UINT) + j) % PIPESIZE = (e + j) % PIPESIZE
  <2>1. CASE e < UINT
    BY <1>3, <2>1
  <2>2. CASE ~(e < UINT)
    <3>1. e % UINT = e - UINT /\ e \in Int /\ UINT \in Int
      BY <1>1, <1>3, <2>2, PipeSizes
    <3> HIDE DEF e
    <3> DEFINE z == e % UINT
    <3> HIDE DEF z
    <3>2. z + j = (e + j) - UINT /\ e + j \in Int
      BY <3>1 DEF z
    <3> QED BY <3>2, PipeTurn DEF z
  <2> QED BY <2>1, <2>2
<1> QED BY <1>1, <1>3, <1>4, PipeSizes

LEMMA RingSize ==
  ASSUME NEW d, NEW r, NEW w, NEW f, Ring(d, r, w, f)
  PROVE  /\ Len(f) \in 0 .. PIPESIZE
         /\ w = (r + Len(f)) % UINT
         /\ (w = r) <=> (Len(f) = 0)
         /\ (w = (r + PIPESIZE) % UINT) <=> (Len(f) = PIPESIZE)
<1>1. Len(f) \in 0 .. PIPESIZE
  BY PipeSizes, LenProperties DEF Ring
<1>2. r \in 0 .. UINT - 1 /\ w \in 0 .. UINT - 1
  BY DEF Ring
<1>3. Len(f) = IF w - r < 0 THEN w - r + UINT ELSE w - r
  <2> DEFINE e == w - r
  <2>1. e \in -UINT .. 2 * UINT - 1 /\ e < UINT
    BY <1>2, PipeSizes
  <2>2. e % UINT = Len(f)
    BY DEF Ring
  <2> HIDE DEF e
  <2>3. Len(f) = IF e < 0 THEN e + UINT ELSE e
    BY <2>1, <2>2, NearZero, PipeSizes
  <2> QED BY <2>3 DEF e
<1>4. (r + Len(f)) % UINT = IF r + Len(f) < UINT THEN r + Len(f) ELSE r + Len(f) - UINT
  BY <1>1, <1>2, MoveOn
<1>5. (r + PIPESIZE) % UINT = IF r + PIPESIZE < UINT THEN r + PIPESIZE ELSE r + PIPESIZE - UINT
  <2>1. PIPESIZE \in 0 .. PIPESIZE
    BY PipeSizes
  <2> QED BY <1>2, <2>1, MoveOn
<1> DEFINE s == Len(f)
           x == (r + s) % UINT
           y == (r + PIPESIZE) % UINT
<1> HIDE DEF s, x, y
<1>6. s \in 0 .. PIPESIZE /\ s = IF w - r < 0 THEN w - r + UINT ELSE w - r
  BY <1>1, <1>3 DEF s
<1>7. /\ x = IF r + s < UINT THEN r + s ELSE r + s - UINT
      /\ y = IF r + PIPESIZE < UINT THEN r + PIPESIZE ELSE r + PIPESIZE - UINT
  BY <1>4, <1>5 DEF s, x, y
<1>8. w = x /\ (w = r <=> s = 0) /\ (w = y <=> s = PIPESIZE)
  BY <1>2, <1>6, <1>7, PipeSizes
<1> QED BY <1>1, <1>8 DEF s, x, y

\* e is d with the bytes g put into the slots from w on.
Puts(d, w, g, e) ==
  /\ e \in [0 .. PIPESIZE - 1 -> P!Bytes]
  /\ \A l \in 0 .. Len(g) - 1 : e[(w + l) % PIPESIZE] = g[l + 1]
  /\ \A i \in 0 .. PIPESIZE - 1 :
       (\A l \in 0 .. Len(g) - 1 : (w + l) % PIPESIZE # i) => e[i] = d[i]

\* Bytes written go behind those that are there.
LEMMA RingWrite ==
  ASSUME NEW d, NEW r, NEW w, NEW f, Ring(d, r, w, f),
         NEW g \in Seq(P!Bytes), Len(g) \in 0 .. PIPESIZE - Len(f),
         NEW e, Puts(d, w, g, e)
  PROVE  Ring(e, r, (w + Len(g)) % UINT, f \o g) /\ Len(f \o g) = Len(f) + Len(g)
<1> DEFINE k == Len(g)
<1>p. /\ e \in [0 .. PIPESIZE - 1 -> P!Bytes]
      /\ \A l \in 0 .. k - 1 : e[(w + l) % PIPESIZE] = g[l + 1]
      /\ \A i \in 0 .. PIPESIZE - 1 :
           (\A l \in 0 .. k - 1 : (w + l) % PIPESIZE # i) => e[i] = d[i]
  BY DEF Puts
<1>q. k \in 0 .. PIPESIZE - Len(f) /\ Len(g) = k
  OBVIOUS
<1> HIDE DEF k
<1> DEFINE s == Len(f)
           n == (w + k) % UINT
<1>1. /\ s \in 0 .. PIPESIZE /\ k \in 0 .. PIPESIZE /\ w = (r + s) % UINT
      /\ r \in 0 .. UINT - 1 /\ w \in 0 .. UINT - 1
      /\ f \in Seq(P!Bytes) /\ s \in Nat
  <2>1. /\ s \in 0 .. PIPESIZE /\ w = (r + s) % UINT
        /\ r \in 0 .. UINT - 1 /\ w \in 0 .. UINT - 1 /\ f \in Seq(P!Bytes)
    <3>1. s \in 0 .. PIPESIZE /\ w = (r + s) % UINT
      BY RingSize
    <3> QED BY <3>1 DEF Ring
  <2>2. k \in 0 .. PIPESIZE - s
    BY <1>q
  <2> HIDE DEF s
  <2>3. k \in 0 .. PIPESIZE /\ s \in Nat
    BY <2>1, <2>2, PipeSizes
  <2> QED BY <2>1, <2>3
<1>0. /\ s \in Nat /\ k \in Nat /\ s + k <= PIPESIZE /\ PIPESIZE < UINT
      /\ PIPESIZE \in Nat \ {0} /\ UINT \in Nat
      /\ r \in 0 .. UINT - 1 /\ w \in 0 .. UINT - 1
  <2>1. s \in 0 .. PIPESIZE /\ k \in 0 .. PIPESIZE - s
    BY <1>1, <1>q
  <2>2. r \in 0 .. UINT - 1 /\ w \in 0 .. UINT - 1
    BY <1>1
  <2> HIDE DEF s
  <2> QED BY <2>1, <2>2, PipeSizes
<1>w. w = IF r + s < UINT THEN r + s ELSE r + s - UINT
  BY <1>1, MoveOn
<1>2. /\ f \o g \in Seq(P!Bytes) /\ Len(f \o g) = s + k
      /\ \A j \in 1 .. s : (f \o g)[j] = f[j]
      /\ \A j \in s + 1 .. s + k : (f \o g)[j] = g[j - s]
  <2>1. /\ f \o g \in Seq(P!Bytes) /\ Len(f \o g) = Len(f) + Len(g)
        /\ \A j \in 1 .. Len(f) + Len(g) :
             (f \o g)[j] = IF j <= Len(f) THEN f[j] ELSE g[j - Len(f)]
    BY <1>1, ConcatProperties
  <2>2. /\ f \o g \in Seq(P!Bytes) /\ Len(f \o g) = s + k
        /\ \A j \in 1 .. s + k : (f \o g)[j] = IF j <= s THEN f[j] ELSE g[j - s]
    BY <1>q, <2>1
  <2>3. ASSUME NEW j \in 1 .. s PROVE (f \o g)[j] = f[j]
    <3>1. j \in 1 .. s + k /\ j <= s
      <4> HIDE DEF s
      <4> QED BY <1>0
    <3> QED BY <2>2, <3>1
  <2>4. ASSUME NEW j \in s + 1 .. s + k PROVE (f \o g)[j] = g[j - s]
    <3>1. j \in 1 .. s + k /\ ~(j <= s)
      <4> HIDE DEF s
      <4> QED BY <1>0
    <3> QED BY <2>2, <3>1
  <2> QED BY <2>2, <2>3, <2>4
<1>3. n \in 0 .. UINT - 1 /\ n = IF w + k < UINT THEN w + k ELSE w + k - UINT
  BY <1>1, MoveOn
<1>4. \A j \in Int : (w + j) % PIPESIZE = (r + s + j) % PIPESIZE
  BY <1>1, MoveOn
<1>5. (n - r) % UINT = s + k
  <2> DEFINE x == n - r
  <2>3. x \in -UINT .. 2 * UINT - 1 /\ (x = s + k \/ x = s + k - UINT)
    <3> HIDE DEF n, s
    <3> QED BY <1>0, <1>3, <1>w
  <2>4. x % UINT = IF x < 0 THEN x + UINT ELSE IF x < UINT THEN x ELSE x - UINT
    <3> HIDE DEF x
    <3> QED BY <2>3, NearZero, PipeSizes
  <2>5. x % UINT = s + k
    <3> HIDE DEF x, s
    <3> QED BY <1>0, <2>3, <2>4
  <2> QED BY <2>5
<1>6. ASSUME NEW j \in 1 .. s + k
      PROVE  e[(r + j - 1) % PIPESIZE] = (f \o g)[j]
  <2>0. (r + j - 1) % PIPESIZE \in 0 .. PIPESIZE - 1
    <3>1. r + j - 1 \in Int
      BY <1>0
    <3> QED BY <3>1, Division, PipeSizes
  <2>1. CASE j <= s
    <3>1. ASSUME NEW l \in 0 .. k - 1 PROVE (w + l) % PIPESIZE # (r + j - 1) % PIPESIZE
      <4> DEFINE a == r + j - 1
                 b == r + s + l
      <4>1. (w + l) % PIPESIZE = b % PIPESIZE
        BY <1>4
      <4>2. a \in Int /\ b \in Int /\ a < b /\ b < a + PIPESIZE
        <5> HIDE DEF s
        <5> QED BY <1>0, <2>1
      <4> HIDE DEF a, b
      <4>3. a % PIPESIZE # b % PIPESIZE
        BY <4>2, LessThanATurn, PipeSizes
      <4> QED BY <4>1, <4>3 DEF a
    <3>2. e[(r + j - 1) % PIPESIZE] = d[(r + j - 1) % PIPESIZE]
      BY <2>0, <3>1, <1>p
    <3>3. j \in 1 .. s
      BY <1>1, <2>1
    <3> QED BY <1>2, <3>2, <3>3 DEF Ring
  <2>2. CASE j > s
    <3> DEFINE l == j - s - 1
    <3>1. l \in 0 .. k - 1 /\ l + 1 = j - s /\ j \in s + 1 .. s + k /\ l \in Int
      BY <1>1, <2>2
    <3>2. (w + l) % PIPESIZE = (r + s + l) % PIPESIZE /\ r + s + l = r + j - 1
      BY <1>1, <1>4, <3>1
    <3> HIDE DEF l
    <3>3. e[(w + l) % PIPESIZE] = g[l + 1]
      BY <1>p, <1>q, <3>1
    <3>4. (f \o g)[j] = g[l + 1]
      BY <1>2, <3>1
    <3> DEFINE a == r + j - 1
               b == r + s + l
    <3>5. a = b /\ (w + l) % PIPESIZE = b % PIPESIZE
      BY <3>2
    <3> HIDE DEF a, b
    <3>6. e[a % PIPESIZE] = (f \o g)[j]
      BY <3>3, <3>4, <3>5
    <3> QED BY <3>6 DEF a
  <2>3. j <= s \/ j > s
    <3> HIDE DEF s
    <3> QED BY <1>0
  <2> QED BY <2>1, <2>2, <2>3
<1> HIDE DEF n
<1>7. Ring(e, r, n, f \o g)
  <2>1. Len(f \o g) <= PIPESIZE
    BY <1>0, <1>2
  <2> QED BY <1>1, <1>2, <1>3, <1>5, <1>6, <1>p, <2>1 DEF Ring
<1> QED BY <1>2, <1>7 DEF n, k

\* Bytes read are the oldest.
LEMMA RingRead ==
  ASSUME NEW d, NEW r, NEW w, NEW f, Ring(d, r, w, f), NEW k \in 0 .. Len(f)
  PROVE  Ring(d, (r + k) % UINT, w, SubSeq(f, k + 1, Len(f)))
<1> DEFINE s == Len(f)
           n == (r + k) % UINT
           g == SubSeq(f, k + 1, s)
<1>0. /\ s \in Nat /\ k \in Nat /\ k <= s /\ s <= PIPESIZE /\ PIPESIZE < UINT
      /\ PIPESIZE \in Nat \ {0} /\ UINT \in Nat
      /\ r \in 0 .. UINT - 1 /\ w \in 0 .. UINT - 1
  <2>1. s \in 0 .. PIPESIZE /\ r \in 0 .. UINT - 1 /\ w \in 0 .. UINT - 1
    <3>1. s \in 0 .. PIPESIZE
      BY RingSize
    <3> QED BY <3>1 DEF Ring
  <2> HIDE DEF s
  <2>2. k \in 0 .. s
    BY DEF s
  <2> QED BY <2>1, <2>2, PipeSizes
<1>1. /\ s \in 0 .. PIPESIZE /\ k \in 0 .. PIPESIZE /\ w = (r + s) % UINT
      /\ r \in 0 .. UINT - 1 /\ w \in 0 .. UINT - 1
      /\ f \in Seq(P!Bytes) /\ s \in Nat /\ k <= s
  <2>1. w = (r + s) % UINT /\ f \in Seq(P!Bytes)
    <3>1. w = (r + s) % UINT
      BY RingSize
    <3> QED BY <3>1 DEF Ring
  <2> HIDE DEF s
  <2> QED BY <1>0, <2>1
<1>w. w = IF r + s < UINT THEN r + s ELSE r + s - UINT
  BY <1>1, MoveOn
<1>2. /\ g \in Seq(P!Bytes) /\ Len(g) = s - k
      /\ \A j \in 1 .. s - k : g[j] = f[k + j]
  BY <1>1, SubSeqProperties
<1>3. /\ n \in 0 .. UINT - 1 /\ n = IF r + k < UINT THEN r + k ELSE r + k - UINT
      /\ \A j \in Int : (n + j) % PIPESIZE = (r + k + j) % PIPESIZE
  BY <1>1, MoveOn
<1>5. (w - n) % UINT = s - k
  <2> DEFINE x == w - n
  <2>3. x \in -UINT .. 2 * UINT - 1 /\ (x = s - k \/ x = s - k - UINT)
    <3> HIDE DEF n, s
    <3> QED BY <1>0, <1>3, <1>w
  <2>4. x % UINT = IF x < 0 THEN x + UINT ELSE IF x < UINT THEN x ELSE x - UINT
    <3> HIDE DEF x
    <3> QED BY <2>3, NearZero, PipeSizes
  <2>5. x % UINT = s - k
    <3> HIDE DEF x, s
    <3> QED BY <1>0, <2>3, <2>4
  <2> QED BY <2>5
<1>6. ASSUME NEW j \in 1 .. s - k
      PROVE  d[(n + j - 1) % PIPESIZE] = g[j]
  <2> DEFINE l == k + j
  <2>1. l \in 1 .. s /\ g[j] = f[l] /\ j - 1 \in Int
    BY <1>1, <1>2
  <2>2. (n + (j - 1)) % PIPESIZE = (r + k + (j - 1)) % PIPESIZE
    BY <1>3, <2>1
  <2>3. n + (j - 1) = n + j - 1 /\ r + k + (j - 1) = r + l - 1
    BY <1>1, <1>3
  <2> HIDE DEF l, n, g
  <2> QED BY <2>1, <2>2, <2>3 DEF Ring
<1> HIDE DEF n, g
<1>7. Len(g) <= PIPESIZE /\ d \in [0 .. PIPESIZE - 1 -> P!Bytes]
  BY <1>0, <1>2 DEF Ring
<1>8. Ring(d, n, w, g)
  BY <1>0, <1>2, <1>3, <1>5, <1>6, <1>7 DEF Ring
<1> QED BY <1>8 DEF n, g

------------------------------------------------------------------------------
(* The pipe: an inductive invariant. *)
Places == {"idle", "run", "sleep", "asleep", "closed"}
PipeType ==
  /\ readopen \in BOOLEAN /\ writeopen \in BOOLEAN
  /\ killed \in [P!Procs -> BOOLEAN]
  /\ ppc \in [P!Procs -> [at : Places, left : Nat, calls : Nat]]
  /\ files \in [r : Nat, w : Nat]
\* Each end is open as long as one of its processes has not closed it.
OpenAt(S) == {p \in S : ppc[p].at # "closed"}
EndsOK ==
  /\ files.w = Cardinality(OpenAt(Writers)) /\ files.r = Cardinality(OpenAt(Readers))
  /\ readopen = (files.r > 0) /\ writeopen = (files.w > 0)
\* Who sleeps, or is about to with the lock held, has a reason to.
ReaderOK(p) ==
  /\ ppc[p].at = "sleep" => P!Empty /\ writeopen
  /\ ppc[p].at = "asleep" => (P!Empty \/ \E w \in Writers : killed[w]) /\ writeopen
WriterOK(p) == ppc[p].at \in {"sleep", "asleep"} => P!Full /\ readopen
PInv == /\ PipeType /\ EndsOK /\ Ring(data, nread, nwrite, flight)
        /\ \A p \in Readers : ReaderOK(p)
        /\ \A p \in Writers : WriterOK(p)

LEMMA EndsFinite ==
  ASSUME NEW S, S = Writers \/ S = Readers
  PROVE  IsFiniteSet(OpenAt(S)) /\ Cardinality(OpenAt(S)) \in Nat
<1>1. IsFiniteSet(S)
  BY PipeAssumption
<1>2. OpenAt(S) \in SUBSET S
  BY DEF OpenAt
<1> QED BY <1>1, <1>2, FS_Subset, FS_CardinalityType

LEMMA SizeIs ==
  ASSUME PInv
  PROVE  /\ P!Size = Len(flight) /\ Len(flight) \in 0 .. PIPESIZE
         /\ P!Empty <=> Len(flight) = 0
         /\ P!Full <=> Len(flight) = PIPESIZE
         /\ nread \in 0 .. UINT - 1 /\ nwrite \in 0 .. UINT - 1
         /\ flight \in Seq(P!Bytes)
<1>1. Ring(data, nread, nwrite, flight)
  BY DEF PInv
<1>2. /\ Len(flight) \in 0 .. PIPESIZE
      /\ (nwrite = nread) <=> (Len(flight) = 0)
      /\ (nwrite = (nread + PIPESIZE) % UINT) <=> (Len(flight) = PIPESIZE)
  BY <1>1, RingSize
<1> QED BY <1>1, <1>2 DEF P!Size, P!Empty, P!Full, Ring

LEMMA SameCardinality == \A S : P!Cardinality(S) = Cardinality(S)
  BY DEF P!Cardinality, Cardinality

LEMMA PipeInit == P!Init => PInv
<1> SUFFICES ASSUME P!Init PROVE PInv
  OBVIOUS
<1>1. PipeType /\ EndsOK
  <2>1. \A p \in P!Procs : ppc[p].at = "idle"
    BY DEF P!Init
  <2>2. OpenAt(Writers) = Writers /\ OpenAt(Readers) = Readers
    BY <2>1 DEF OpenAt, P!Procs
  <2>3. Cardinality(Writers) \in Nat \ {0} /\ Cardinality(Readers) \in Nat \ {0}
    BY PipeAssumption, FS_CardinalityType, FS_EmptySet
  <2>5. files = [r |-> Cardinality(Readers), w |-> Cardinality(Writers)]
    BY SameCardinality DEF P!Init
  <2>6. files.r > 0 /\ files.w > 0
    BY <2>3, <2>5
  <2>7. readopen = TRUE /\ writeopen = TRUE
    BY DEF P!Init
  <2>4. readopen = (files.r > 0) /\ writeopen = (files.w > 0)
    BY <2>6, <2>7
  <2> QED BY <2>5, <2>2, <2>3, <2>4 DEF P!Init, PipeType, EndsOK, Places
<1>2. Ring(data, nread, nwrite, flight)
  <2>1. nread \in 0 .. UINT - 1 /\ nwrite = nread
    BY PipeSizes DEF P!Init
  <2>2. (nwrite - nread) % UINT = 0
    BY <2>1, PipeSizes
  <2>3. data \in [0 .. PIPESIZE - 1 -> P!Bytes] /\ flight = <<>>
    BY DEF P!Init, P!Bytes
  <2> QED BY <2>1, <2>2, <2>3, PipeSizes DEF Ring
<1>3. \A p \in P!Procs : ppc[p].at = "idle"
  BY DEF P!Init
<1> QED BY <1>1, <1>2, <1>3 DEF PInv, ReaderOK, WriterOK, P!Procs

\* A step that closes nothing keeps the ends.
LEMMA SameEnds ==
  ASSUME PInv, \A q \in P!Procs : ppc'[q].at = "closed" <=> ppc[q].at = "closed",
         files' = files, readopen' = readopen, writeopen' = writeopen
  PROVE  EndsOK'
<1>1. OpenAt(Writers)' = OpenAt(Writers) /\ OpenAt(Readers)' = OpenAt(Readers)
  BY DEF OpenAt, P!Procs
<1> QED BY <1>1 DEF PInv, EndsOK

\* Where everybody is after a wakeup.
LEMMA AfterWake ==
  ASSUME PipeType, NEW who \in SUBSET P!Procs, NEW p \in P!Procs,
         NEW r \in [at : Places, left : Nat, calls : Nat], P!Wake(who, p, r)
  PROVE  /\ ppc' \in [P!Procs -> [at : Places, left : Nat, calls : Nat]]
         /\ \A q \in P!Procs :
              ppc'[q].at = IF q = p THEN r.at
                           ELSE IF q \in who /\ ppc[q].at = "asleep" THEN "run"
                           ELSE ppc[q].at
  BY DEF P!Wake, P!Sleeping, PipeType, Places

LEMMA AfterSet ==
  ASSUME PipeType, NEW p \in P!Procs,
         NEW r \in [at : Places, left : Nat, calls : Nat], P!Set(p, r)
  PROVE  /\ ppc' \in [P!Procs -> [at : Places, left : Nat, calls : Nat]]
         /\ \A q \in P!Procs : ppc'[q].at = IF q = p THEN r.at ELSE ppc[q].at
  BY DEF P!Set, PipeType

LEMMA PipeCall ==
  ASSUME PInv, NEW p \in P!Procs, P!Call(p)
  PROVE  PInv'
<1>1. PICK n \in LENGTHS : P!Set(p, [at |-> "run", left |-> n, calls |-> ppc[p].calls + 1])
  BY DEF P!Call
<1> DEFINE r == [at |-> "run", left |-> n, calls |-> ppc[p].calls + 1]
<1>2. r \in [at : Places, left : Nat, calls : Nat] /\ r.at = "run"
  BY PipeAssumption DEF PInv, PipeType, Places
<1> HIDE DEF r
<1>3. /\ ppc' \in [P!Procs -> [at : Places, left : Nat, calls : Nat]]
      /\ \A q \in P!Procs : ppc'[q].at = IF q = p THEN "run" ELSE ppc[q].at
  BY <1>1, <1>2, AfterSet DEF PInv, r
<1>4. /\ ppc[p].at = "idle"
      /\ UNCHANGED <<data, nread, nwrite, readopen, writeopen, files, killed, flight>>
  BY DEF P!Call
<1>5. PipeType' /\ EndsOK'
  BY <1>3, <1>4, SameEnds DEF PInv, PipeType
<1> QED BY <1>3, <1>4, <1>5 DEF PInv, ReaderOK, WriterOK, P!Procs, P!Empty, P!Full, Ring

LEMMA PipeFall ==
  ASSUME PInv, NEW p \in P!Procs, P!Fall(p)
  PROVE  PInv'
<1> DEFINE r == [ppc[p] EXCEPT !.at = "asleep"]
<1>1. /\ P!Set(p, r) /\ ppc[p].at = "sleep"
      /\ UNCHANGED <<data, nread, nwrite, readopen, writeopen, files, killed, flight>>
  BY DEF P!Fall
<1>2. r \in [at : Places, left : Nat, calls : Nat] /\ r.at = "asleep"
  BY DEF PInv, PipeType, Places
<1> HIDE DEF r
<1>3. /\ ppc' \in [P!Procs -> [at : Places, left : Nat, calls : Nat]]
      /\ \A q \in P!Procs : ppc'[q].at = IF q = p THEN "asleep" ELSE ppc[q].at
  BY <1>1, <1>2, AfterSet DEF PInv
<1>5. PipeType' /\ EndsOK'
  BY <1>1, <1>3, SameEnds DEF PInv, PipeType
<1> QED BY <1>1, <1>3, <1>5 DEF PInv, ReaderOK, WriterOK, P!Procs, P!Empty, P!Full, Ring

LEMMA PipeKill ==
  ASSUME PInv, NEW p \in P!Procs, P!kill(p)
  PROVE  PInv'
<1> DEFINE r == IF P!Sleeping(p) THEN [ppc[p] EXCEPT !.at = "run"] ELSE ppc[p]
<1>1. /\ P!Set(p, r) /\ killed' = [killed EXCEPT ![p] = TRUE]
      /\ UNCHANGED <<data, nread, nwrite, readopen, writeopen, files, flight>>
  BY DEF P!kill
<1>2. /\ r \in [at : Places, left : Nat, calls : Nat]
      /\ r.at = IF ppc[p].at = "asleep" THEN "run" ELSE ppc[p].at
  BY DEF PInv, PipeType, Places, P!Sleeping
<1> HIDE DEF r
<1>3. /\ ppc' \in [P!Procs -> [at : Places, left : Nat, calls : Nat]]
      /\ \A q \in P!Procs :
           ppc'[q].at = IF q = p /\ ppc[p].at = "asleep" THEN "run" ELSE ppc[q].at
  BY <1>1, <1>2, AfterSet DEF PInv
<1>4. killed' \in [P!Procs -> BOOLEAN] /\ \A q \in P!Procs : killed[q] => killed'[q]
  BY <1>1 DEF PInv, PipeType
<1>5. PipeType' /\ EndsOK'
  BY <1>1, <1>3, <1>4, SameEnds DEF PInv, PipeType
<1>6. ASSUME NEW q \in Readers PROVE ReaderOK(q)'
  BY <1>1, <1>3, <1>4 DEF PInv, ReaderOK, P!Procs, P!Empty
<1> QED BY <1>1, <1>3, <1>5, <1>6 DEF PInv, WriterOK, P!Procs, P!Full, Ring

\* Processes that have not closed an end hold it open.
LEMMA OpenEnds ==
  ASSUME PInv
  PROVE  /\ \A p \in Readers : ppc[p].at # "closed" => readopen
         /\ \A p \in Writers : ppc[p].at # "closed" => writeopen
<1>1. ASSUME NEW S, S = Writers \/ S = Readers, NEW p \in S, ppc[p].at # "closed"
      PROVE  Cardinality(OpenAt(S)) > 0
  <2>1. OpenAt(S) # {}
    BY <1>1 DEF OpenAt
  <2>2. IsFiniteSet(OpenAt(S)) /\ Cardinality(OpenAt(S)) \in Nat
    BY <1>1, EndsFinite
  <2>3. Cardinality(OpenAt(S)) # 0
    BY <2>1, <2>2, FS_EmptySet
  <2> QED BY <2>2, <2>3
<1>2. \A p \in Readers : ppc[p].at # "closed" => files.r > 0
  BY <1>1 DEF PInv, EndsOK
<1>3. \A p \in Writers : ppc[p].at # "closed" => files.w > 0
  BY <1>1 DEF PInv, EndsOK
<1> QED BY <1>2, <1>3 DEF PInv, EndsOK

LEMMA PipeClose ==
  ASSUME PInv, NEW p \in P!Procs, P!pipeclose(p), ~P!Locked
  PROVE  PInv'
<1> DEFINE end == IF p \in Writers THEN "w" ELSE "r"
           who == IF files[end] > 1 THEN {} ELSE IF end = "w" THEN Readers ELSE Writers
           r == [ppc[p] EXCEPT !.at = "closed"]
<1>1. /\ ppc[p].at = "idle" /\ files' = [files EXCEPT ![end] = @ - 1]
      /\ writeopen' = (writeopen /\ ~(end = "w" /\ files.w = 1))
      /\ readopen' = (readopen /\ ~(end = "r" /\ files.r = 1))
      /\ P!Wake(who, p, r)
      /\ UNCHANGED <<data, nread, nwrite, killed, flight>>
  BY DEF P!pipeclose
<1>2. /\ r \in [at : Places, left : Nat, calls : Nat] /\ r.at = "closed"
      /\ who \in SUBSET P!Procs
  BY DEF PInv, PipeType, Places, P!Procs
<1>w. who = IF files[end] > 1 THEN {} ELSE IF end = "w" THEN Readers ELSE Writers
  OBVIOUS
<1> HIDE DEF r, who
<1>3. /\ ppc' \in [P!Procs -> [at : Places, left : Nat, calls : Nat]]
      /\ \A q \in P!Procs :
           ppc'[q].at = IF q = p THEN "closed"
                        ELSE IF q \in who /\ ppc[q].at = "asleep" THEN "run"
                        ELSE ppc[q].at
  BY <1>1, <1>2, AfterWake DEF PInv
<1>4. /\ files \in [r : Nat, w : Nat] /\ Writers \cap Readers = {}
      /\ files.w = Cardinality(OpenAt(Writers)) /\ files.r = Cardinality(OpenAt(Readers))
      /\ readopen = (files.r > 0) /\ writeopen = (files.w > 0)
  BY PipeAssumption DEF PInv, PipeType, EndsOK
<1>5. CASE p \in Writers
  <2>1. end = "w" /\ p \notin Readers
    BY <1>4, <1>5
  <2> HIDE DEF end
  <2>2. OpenAt(Writers)' = OpenAt(Writers) \ {p} /\ OpenAt(Readers)' = OpenAt(Readers)
    BY <1>3, <2>1 DEF OpenAt, P!Procs
  <2>3. p \in OpenAt(Writers) /\ IsFiniteSet(OpenAt(Writers)) /\ Cardinality(OpenAt(Writers)) \in Nat
    BY <1>1, <1>5, EndsFinite DEF OpenAt
  <2>4. Cardinality(OpenAt(Writers)') = files.w - 1 /\ files.w # 0
    BY <1>4, <2>2, <2>3, FS_RemoveElement, FS_EmptySet
  <2>5. files'.w = files.w - 1 /\ files'.r = files.r /\ files' \in [r : Int, w : Int]
    BY <1>1, <1>4, <2>1
  <2>a. files.r \in Nat /\ files.w \in Nat
    BY <1>4
  <2>b. files'.r \in Nat /\ files'.w \in Nat
    BY <2>a, <2>4, <2>5
  <2>c. files' \in [r : Nat, w : Nat]
    BY <2>5, <2>b
  <2>d. readopen' = readopen
    BY <1>1, <2>1 DEF PInv, PipeType
  <2>6. files' \in [r : Nat, w : Nat] /\ readopen' = readopen
    BY <2>c, <2>d
  <2>7. writeopen' = (files'.w > 0)
    <3>1. writeopen <=> files.w > 0
      BY <1>4
    <3>2. writeopen' <=> writeopen /\ files.w # 1
      BY <1>1, <2>1 DEF PInv, PipeType
    <3>3. writeopen' <=> files'.w > 0
      BY <2>a, <2>4, <2>5, <3>1, <3>2
    <3>4. writeopen' \in BOOLEAN
      BY <1>1
    <3> QED BY <3>3, <3>4
  <2>8. PipeType' /\ EndsOK'
    BY <1>1, <1>3, <1>4, <2>2, <2>4, <2>5, <2>6, <2>7 DEF PInv, PipeType, EndsOK
  <2>9. ASSUME NEW q \in Readers PROVE ReaderOK(q)'
    <3>1. q \in P!Procs /\ q # p /\ ReaderOK(q) /\ ppc[q].at # "sleep"
      BY <2>1 DEF PInv, P!Procs, P!Locked
    <3>2. CASE files.w > 1
      <4>1. writeopen' = writeopen
        BY <1>4, <2>4, <2>5, <2>7, <3>2
      <4> QED BY <1>1, <1>3, <3>1, <4>1 DEF ReaderOK, P!Empty
    <3>3. CASE ~(files.w > 1)
      <4>1. q \in who
        BY <1>w, <2>1, <3>3
      <4> QED BY <1>3, <3>1, <4>1 DEF ReaderOK
    <3> QED BY <3>2, <3>3
  <2>10. ASSUME NEW q \in Writers PROVE WriterOK(q)'
    BY <1>1, <1>3, <2>6 DEF PInv, WriterOK, P!Full, P!Procs
  <2> QED BY <1>1, <2>8, <2>9, <2>10 DEF PInv
<1>6. CASE p \in Readers
  <2>1. end = "r" /\ p \notin Writers
    BY <1>4, <1>6
  <2> HIDE DEF end
  <2>2. OpenAt(Readers)' = OpenAt(Readers) \ {p} /\ OpenAt(Writers)' = OpenAt(Writers)
    BY <1>3, <2>1 DEF OpenAt, P!Procs
  <2>3. p \in OpenAt(Readers) /\ IsFiniteSet(OpenAt(Readers)) /\ Cardinality(OpenAt(Readers)) \in Nat
    BY <1>1, <1>6, EndsFinite DEF OpenAt
  <2>4. Cardinality(OpenAt(Readers)') = files.r - 1 /\ files.r # 0
    BY <1>4, <2>2, <2>3, FS_RemoveElement, FS_EmptySet
  <2>5. files'.r = files.r - 1 /\ files'.w = files.w /\ files' \in [r : Int, w : Int]
    BY <1>1, <1>4, <2>1
  <2>a. files.r \in Nat /\ files.w \in Nat
    BY <1>4
  <2>b. files'.r \in Nat /\ files'.w \in Nat
    BY <2>a, <2>4, <2>5
  <2>c. files' \in [r : Nat, w : Nat]
    BY <2>5, <2>b
  <2>d. writeopen' = writeopen
    BY <1>1, <2>1 DEF PInv, PipeType
  <2>6. files' \in [r : Nat, w : Nat] /\ writeopen' = writeopen
    BY <2>c, <2>d
  <2>7. readopen' = (files'.r > 0)
    <3>1. readopen <=> files.r > 0
      BY <1>4
    <3>2. readopen' <=> readopen /\ files.r # 1
      BY <1>1, <2>1 DEF PInv, PipeType
    <3>3. readopen' <=> files'.r > 0
      BY <2>a, <2>4, <2>5, <3>1, <3>2
    <3>4. readopen' \in BOOLEAN
      BY <1>1
    <3> QED BY <3>3, <3>4
  <2>8. PipeType' /\ EndsOK'
    BY <1>1, <1>3, <1>4, <2>2, <2>4, <2>5, <2>6, <2>7 DEF PInv, PipeType, EndsOK
  <2>9. ASSUME NEW q \in Writers PROVE WriterOK(q)'
    <3>1. q \in P!Procs /\ q # p /\ WriterOK(q) /\ ppc[q].at # "sleep"
      BY <2>1 DEF PInv, P!Procs, P!Locked
    <3>2. CASE files.r > 1
      <4>1. readopen' = readopen
        BY <1>4, <2>4, <2>5, <2>7, <3>2
      <4> QED BY <1>1, <1>3, <3>1, <4>1 DEF WriterOK, P!Full
    <3>3. CASE ~(files.r > 1)
      <4>1. q \in who
        BY <1>w, <2>1, <3>3
      <4> QED BY <1>3, <3>1, <4>1 DEF WriterOK
    <3> QED BY <3>2, <3>3
  <2>10. ASSUME NEW q \in Readers PROVE ReaderOK(q)'
    BY <1>1, <1>3, <2>6 DEF PInv, ReaderOK, P!Empty, P!Procs
  <2> QED BY <1>1, <2>8, <2>9, <2>10 DEF PInv
<1> QED BY <1>5, <1>6 DEF P!Procs

\* What pipewrite puts into the ring.
LEMMA PipeWritten ==
  ASSUME PInv, NEW r, r.left \in Nat, P!Written(r), nread' = nread
  PROVE  /\ P!Fits(r.left) \in 0 .. PIPESIZE - Len(flight)
         /\ P!Fits(r.left) = IF r.left <= PIPESIZE - Len(flight) THEN r.left
                             ELSE PIPESIZE - Len(flight)
         /\ Ring(data, nread, nwrite, flight)'
         /\ Len(flight') = Len(flight) + P!Fits(r.left)
<1> DEFINE k == P!Fits(r.left)
           left == r.left
           g == [j \in 1 .. k |-> P!Byte(left - (j - 1))]
           hit(i) == \E j \in 0 .. k - 1 : (nwrite + j) % PIPESIZE = i
           from(i) == CHOOSE j \in 0 .. k - 1 : (nwrite + j) % PIPESIZE = i
           e == [i \in DOMAIN data |-> IF hit(i) THEN P!Byte(left - from(i)) ELSE data[i]]
<1>1. data' = e /\ nwrite' = (nwrite + k) % UINT /\ flight' = flight \o g
  BY DEF P!Written
<1>2. /\ Len(flight) \in 0 .. PIPESIZE /\ P!Size = Len(flight)
      /\ nwrite \in 0 .. UINT - 1 /\ Ring(data, nread, nwrite, flight)
  BY SizeIs DEF PInv
<1>3. /\ k = IF left <= PIPESIZE - Len(flight) THEN left ELSE PIPESIZE - Len(flight)
      /\ k \in 0 .. PIPESIZE - Len(flight) /\ k \in Nat
  BY <1>2, PipeSizes DEF P!Fits
<1> HIDE DEF k, left
<1>4. \A i \in Int : P!Byte(i) \in P!Bytes
  BY DEF P!Byte, P!Bytes
<1>5. g \in Seq(P!Bytes) /\ Len(g) = k /\ \A l \in 0 .. k - 1 : g[l + 1] = P!Byte(left - l)
  <2>1. left \in Nat
    BY DEF left
  <2>2. ASSUME NEW j \in 1 .. k PROVE P!Byte(left - (j - 1)) \in P!Bytes
    BY <1>3, <1>4, <2>1
  <2>3. g \in [1 .. k -> P!Bytes]
    BY <2>2
  <2>4. ASSUME NEW l \in 0 .. k - 1 PROVE g[l + 1] = P!Byte(left - l)
    <3>1. l + 1 \in 1 .. k /\ (l + 1) - 1 = l
      BY <1>3
    <3> QED BY <3>1
  <2> HIDE DEF g
  <2>5. g \in Seq(P!Bytes) /\ Len(g) = k
    BY <1>3, <2>3
  <2> QED BY <2>4, <2>5
<1>6. DOMAIN data = 0 .. PIPESIZE - 1 /\ data \in [0 .. PIPESIZE - 1 -> P!Bytes]
  BY <1>2 DEF Ring
<1>7. ASSUME NEW l \in 0 .. k - 1
      PROVE  LET i == (nwrite + l) % PIPESIZE
             IN  i \in 0 .. PIPESIZE - 1 /\ hit(i) /\ from(i) = l
  <2> DEFINE i == (nwrite + l) % PIPESIZE
  <2>1. nwrite \in Int /\ l \in Int /\ PIPESIZE \in Nat \ {0} /\ k <= PIPESIZE
    BY <1>2, <1>3, PipeSizes
  <2>2. i \in 0 .. PIPESIZE - 1
    BY <2>1
  <2>3. hit(i)
    OBVIOUS
  <2>4. from(i) \in 0 .. k - 1 /\ (nwrite + from(i)) % PIPESIZE = i
    BY <2>3
  <2>5. from(i) = l
    <3> DEFINE m == from(i)
               a == nwrite + l
               b == nwrite + m
    <3>1. a % PIPESIZE = b % PIPESIZE
      BY <2>4
    <3>2. m \in 0 .. k - 1
      BY <2>4
    <3> HIDE DEF m
    <3>3. a \in Int /\ b \in Int /\ a < b + PIPESIZE /\ b < a + PIPESIZE
      BY <1>3, <2>1, <3>2
    <3> HIDE DEF a, b
    <3>4. ~(a < b) /\ ~(b < a)
      BY <2>1, <3>1, <3>3, LessThanATurn
    <3>5. a = b
      BY <3>3, <3>4
    <3> QED BY <2>1, <3>2, <3>5 DEF a, b, m
  <2> QED BY <2>2, <2>3, <2>5
<1>8. e \in [0 .. PIPESIZE - 1 -> P!Bytes]
  <2>1. left \in Nat
    BY DEF left
  <2>2. ASSUME NEW i \in 0 .. PIPESIZE - 1
        PROVE  (IF hit(i) THEN P!Byte(left - from(i)) ELSE data[i]) \in P!Bytes
    <3>1. hit(i) => from(i) \in 0 .. k - 1
      OBVIOUS
    <3> HIDE DEF from, hit
    <3> QED BY <1>3, <1>4, <1>6, <2>1, <3>1
  <2> QED BY <1>6, <2>2
<1>9. \A l \in 0 .. k - 1 : e[(nwrite + l) % PIPESIZE] = g[l + 1]
  <2> SUFFICES ASSUME NEW l \in 0 .. k - 1 PROVE e[(nwrite + l) % PIPESIZE] = g[l + 1]
    OBVIOUS
  <2> DEFINE i == (nwrite + l) % PIPESIZE
  <2>1. i \in 0 .. PIPESIZE - 1 /\ hit(i) /\ from(i) = l
    BY <1>7
  <2> HIDE DEF i, hit, from, g
  <2>2. e[i] = P!Byte(left - l)
    BY <1>6, <2>1
  <2> QED BY <1>5, <2>2 DEF i
<1>10. \A i \in 0 .. PIPESIZE - 1 :
         (\A l \in 0 .. k - 1 : (nwrite + l) % PIPESIZE # i) => e[i] = data[i]
  BY <1>6
<1> HIDE DEF g, e
<1>11. Ring(e, nread, (nwrite + k) % UINT, flight \o g) /\ Len(flight \o g) = Len(flight) + k
  <2>1. Puts(data, nwrite, g, e)
    BY <1>5, <1>8, <1>9, <1>10 DEF Puts
  <2>2. g \in Seq(P!Bytes) /\ Len(g) = k /\ k \in 0 .. PIPESIZE - Len(flight)
    BY <1>3, <1>5
  <2>3. Ring(data, nread, nwrite, flight)
    BY <1>2
  <2>4. /\ Ring(e, nread, (nwrite + Len(g)) % UINT, flight \o g)
        /\ Len(flight \o g) = Len(flight) + Len(g)
    BY <2>1, <2>2, <2>3, RingWrite
  <2> QED BY <2>2, <2>4
<1>12. Ring(data', nread', nwrite', flight')
  BY <1>1, <1>11
<1> QED BY <1>1, <1>3, <1>11, <1>12 DEF k, left, Ring

LEMMA PipeWrite ==
  ASSUME PInv, NEW p \in P!Procs, P!pipewrite(p), ~P!Locked
  PROVE  PInv'
<1> DEFINE r == ppc[p]
           k == P!Fits(r.left)
           left == r.left - k
           now == IF left = 0 THEN P!Return(r)
                  ELSE IF ~readopen \/ killed[p] THEN P!Return(r)
                  ELSE [r EXCEPT !.at = "sleep", !.left = left]
<1>1. /\ p \in Writers /\ ppc[p].at = "run" /\ P!Written(r)
      /\ IF left # 0 /\ now.at = "idle" THEN P!Set(p, now) ELSE P!Wake(Readers, p, now)
      /\ UNCHANGED <<nread, readopen, writeopen, files, killed>>
  BY DEF P!pipewrite
<1>2. /\ r \in [at : Places, left : Nat, calls : Nat] /\ r.left \in Nat
      /\ Len(flight) \in 0 .. PIPESIZE
  BY SizeIs DEF PInv, PipeType
<1>3. /\ k \in 0 .. PIPESIZE - Len(flight)
      /\ k = IF r.left <= PIPESIZE - Len(flight) THEN r.left ELSE PIPESIZE - Len(flight)
      /\ Ring(data, nread, nwrite, flight)'
      /\ Len(flight') = Len(flight) + k
  BY <1>1, <1>2, PipeWritten
<1> HIDE DEF k
<1>4. left \in Nat /\ (left # 0 => Len(flight') = PIPESIZE)
  BY <1>2, <1>3, PipeSizes
<1>5. /\ now \in [at : Places, left : Nat, calls : Nat]
      /\ now.at = IF left = 0 \/ ~readopen \/ killed[p] THEN "idle" ELSE "sleep"
  <2> HIDE DEF left
  <2> QED BY <1>2, <1>4 DEF P!Return, Places
<1> HIDE DEF r, left, now
<1>6. Readers \in SUBSET P!Procs /\ p \notin Readers /\ Writers \cap Readers = {}
  BY <1>1, PipeAssumption DEF P!Procs
<1>7. /\ ppc' \in [P!Procs -> [at : Places, left : Nat, calls : Nat]]
      /\ \/ /\ left # 0 /\ now.at = "idle"
            /\ \A q \in P!Procs : ppc'[q].at = IF q = p THEN now.at ELSE ppc[q].at
         \/ \A q \in P!Procs :
              ppc'[q].at = IF q = p THEN now.at
                           ELSE IF q \in Readers /\ ppc[q].at = "asleep" THEN "run"
                           ELSE ppc[q].at
  <2>1. CASE left # 0 /\ now.at = "idle"
    BY <1>1, <1>5, <2>1, AfterSet DEF PInv
  <2>2. CASE ~(left # 0 /\ now.at = "idle")
    BY <1>1, <1>5, <1>6, <2>2, AfterWake DEF PInv
  <2> QED BY <2>1, <2>2
<1>8. PipeType' /\ EndsOK'
  <2>1. \A q \in P!Procs : ppc'[q].at = "closed" <=> ppc[q].at = "closed"
    BY <1>1, <1>5, <1>7
  <2> QED BY <1>1, <1>7, <2>1, SameEnds DEF PInv, PipeType
<1>9. \A q \in P!Procs : ppc[q].at # "sleep"
  BY DEF P!Locked
<1>10. ASSUME NEW q \in Readers PROVE ReaderOK(q)'
  <2>1. q # p /\ q \in P!Procs /\ ppc[q].at # "sleep" /\ ReaderOK(q)
    BY <1>6, <1>9 DEF PInv
  <2>2. CASE ppc'[q].at # "asleep"
    BY <1>7, <2>1, <2>2 DEF ReaderOK
  <2>3. CASE ppc'[q].at = "asleep"
    <3>1. left # 0 /\ now.at = "idle" /\ ppc[q].at = "asleep"
      BY <1>7, <2>1, <2>3
    <3>2. readopen /\ writeopen
      BY <2>1, <3>1, OpenEnds DEF ReaderOK
    <3>3. killed[p]
      BY <1>5, <3>1, <3>2
    <3> QED BY <1>1, <2>3, <3>2, <3>3 DEF ReaderOK
  <2> QED BY <2>2, <2>3
<1>11. PInv' \/ ~(\A q \in Writers : WriterOK(q)')
  BY <1>3, <1>8, <1>10 DEF PInv
<1>12. ASSUME NEW q \in Writers PROVE WriterOK(q)'
  <2>0. Ring(data, nread, nwrite, flight)' /\ (P!Full' <=> Len(flight') = PIPESIZE)
    <3>1. Ring(data', nread', nwrite', flight')
      BY <1>3 DEF Ring
    <3>2. (nwrite' = (nread' + PIPESIZE) % UINT) <=> (Len(flight') = PIPESIZE)
      BY <3>1, RingSize
    <3> QED BY <1>3, <3>2 DEF P!Full
  <2>1. CASE q = p
    <3>1. ppc'[p].at = now.at
      BY <1>7
    <3>2. now.at = "sleep" => left # 0 /\ readopen
      BY <1>5
    <3>3. now.at # "asleep"
      BY <1>5
    <3> QED BY <1>1, <1>4, <2>0, <2>1, <3>1, <3>2, <3>3 DEF WriterOK
  <2>2. CASE q # p
    <3>1. q \in P!Procs /\ q \notin Readers /\ WriterOK(q)
      BY <1>6 DEF PInv, P!Procs
    <3>2. ppc'[q].at = ppc[q].at
      BY <1>7, <2>2, <3>1
    <3>3. P!Full => Len(flight') = PIPESIZE
      <4>1. P!Full => Len(flight) = PIPESIZE
        BY SizeIs
      <4> QED BY <1>2, <1>3, <4>1, PipeSizes
    <3> QED BY <1>1, <2>0, <3>1, <3>2, <3>3 DEF WriterOK
  <2> QED BY <2>1, <2>2
<1> QED BY <1>11, <1>12

LEMMA PipeRead ==
  ASSUME PInv, NEW p \in P!Procs, P!piperead(p), ~P!Locked
  PROVE  PInv'
<1> DEFINE r == ppc[p]
           k == IF r.left < P!Size THEN r.left ELSE P!Size
           stop == P!Empty /\ writeopen
           now == IF stop /\ ~killed[p] THEN [r EXCEPT !.at = "sleep"] ELSE P!Return(r)
<1>1. /\ p \in Readers /\ ppc[p].at = "run"
      /\ IF stop THEN P!Set(p, now) ELSE P!Wake(Writers, p, now)
      /\ nread' = IF P!Empty THEN nread ELSE (nread + k) % UINT
      /\ flight' = IF P!Empty THEN flight ELSE SubSeq(flight, k + 1, Len(flight))
      /\ UNCHANGED <<data, nwrite, readopen, writeopen, files, killed>>
  BY DEF P!piperead
<1>2. /\ r \in [at : Places, left : Nat, calls : Nat] /\ r.left \in Nat
      /\ P!Size = Len(flight) /\ Len(flight) \in 0 .. PIPESIZE
  BY SizeIs DEF PInv, PipeType
<1>3. k \in 0 .. Len(flight)
  BY <1>2, PipeSizes
<1> HIDE DEF k
<1>4. Ring(data, nread, nwrite, flight)'
  <2>1. Ring(data, nread, nwrite, flight)
    BY DEF PInv
  <2>2. Ring(data, (nread + k) % UINT, nwrite, SubSeq(flight, k + 1, Len(flight)))
    BY <1>3, <2>1, RingRead
  <2>3. Ring(data', nread', nwrite', flight')
    BY <1>1, <2>1, <2>2
  <2> QED BY <2>3 DEF Ring
<1>5. /\ now \in [at : Places, left : Nat, calls : Nat]
      /\ now.at = IF stop /\ ~killed[p] THEN "sleep" ELSE "idle"
  <2> HIDE DEF stop
  <2> QED BY <1>2 DEF P!Return, Places
<1> HIDE DEF r, now
<1>6. Writers \in SUBSET P!Procs /\ p \notin Writers /\ Writers \cap Readers = {}
  BY <1>1, PipeAssumption DEF P!Procs
<1>7. /\ ppc' \in [P!Procs -> [at : Places, left : Nat, calls : Nat]]
      /\ \/ /\ stop
            /\ \A q \in P!Procs : ppc'[q].at = IF q = p THEN now.at ELSE ppc[q].at
         \/ /\ ~stop
            /\ \A q \in P!Procs :
                 ppc'[q].at = IF q = p THEN now.at
                              ELSE IF q \in Writers /\ ppc[q].at = "asleep" THEN "run"
                              ELSE ppc[q].at
  <2>1. CASE stop
    BY <1>1, <1>5, <2>1, AfterSet DEF PInv
  <2>2. CASE ~stop
    BY <1>1, <1>5, <1>6, <2>2, AfterWake DEF PInv
  <2> QED BY <2>1, <2>2
<1>8. PipeType' /\ EndsOK'
  <2>1. \A q \in P!Procs : ppc'[q].at = "closed" <=> ppc[q].at = "closed"
    BY <1>1, <1>5, <1>7
  <2> QED BY <1>1, <1>7, <2>1, SameEnds DEF PInv, PipeType
<1>9. \A q \in P!Procs : ppc[q].at # "sleep"
  BY DEF P!Locked
<1>10. P!Empty => P!Empty'
  BY <1>1 DEF P!Empty
<1>11. ASSUME NEW q \in Readers PROVE ReaderOK(q)'
  <2>1. q \in P!Procs /\ q \notin Writers /\ ppc[q].at # "sleep" /\ ReaderOK(q)
    BY <1>6, <1>9 DEF PInv, P!Procs
  <2>2. CASE q = p
    BY <1>1, <1>5, <1>7, <1>10, <2>1, <2>2 DEF ReaderOK
  <2>3. CASE q # p
    <3>1. ppc'[q].at = ppc[q].at
      BY <1>7, <2>1, <2>3
    <3>2. ppc[q].at = "asleep" => writeopen /\ (P!Empty \/ \E w \in Writers : killed[w])
      BY <2>1 DEF ReaderOK
    <3>3. writeopen' = writeopen /\ killed' = killed
      BY <1>1
    <3> QED BY <1>10, <2>1, <3>1, <3>2, <3>3 DEF ReaderOK
  <2> QED BY <2>2, <2>3
<1>12. ASSUME NEW q \in Writers PROVE WriterOK(q)'
  <2>1. q \in P!Procs /\ q # p /\ ppc[q].at # "sleep" /\ WriterOK(q)
    BY <1>6, <1>9 DEF PInv, P!Procs
  <2>2. CASE stop
    <3>1. ppc'[q].at = ppc[q].at /\ Len(flight) = 0
      BY <1>7, <2>1, <2>2, SizeIs
    <3>2. ~P!Full
      BY <3>1, SizeIs, PipeSizes
    <3> QED BY <2>1, <3>1, <3>2 DEF WriterOK
  <2>3. CASE ~stop
    BY <1>7, <2>1, <2>3 DEF WriterOK
  <2> QED BY <2>2, <2>3
<1> QED BY <1>4, <1>8, <1>11, <1>12 DEF PInv

LEMMA PStutter == PInv /\ UNCHANGED pvars => PInv'
<1> SUFFICES ASSUME PInv, UNCHANGED pvars PROVE PInv'
  OBVIOUS
<1>1. PipeType' /\ EndsOK' /\ Ring(data', nread', nwrite', flight')
  BY DEF PInv, PipeType, EndsOK, OpenAt, pvars
<1>2. (\A p \in Readers : ReaderOK(p)') /\ (\A p \in Writers : WriterOK(p)')
  BY DEF PInv, ReaderOK, WriterOK, P!Empty, P!Full, pvars
<1> QED BY <1>1, <1>2 DEF PInv, Ring

LEMMA PStep == PInv /\ P!Next => PInv'
<1> SUFFICES ASSUME PInv, NEW p \in P!Procs, P!Run(p) \/ P!kill(p) PROVE PInv'
  BY DEF P!Next
<1> QED BY PipeCall, PipeFall, PipeWrite, PipeRead, PipeClose, PipeKill DEF P!Run

LEMMA PipeSound == PInv => PipeExact /\ P!SleepersWaitForOthers
<1> SUFFICES ASSUME PInv PROVE PipeExact /\ P!SleepersWaitForOthers
  OBVIOUS
<1>1. P!Size = Len(flight) /\ Len(flight) \in 0 .. PIPESIZE
  BY SizeIs
<1>2. P!Size <= PIPESIZE
  BY <1>1, PipeSizes
<1>3. \A k \in 1 .. P!Size : data[(nread + k - 1) % PIPESIZE] = flight[k]
  BY <1>1 DEF PInv, Ring
<1>4. P!SleepersWaitForOthers
  BY DEF PInv, ReaderOK, WriterOK, P!SleepersWaitForOthers, P!Sleeping
<1> QED BY <1>1, <1>2, <1>3, <1>4 DEF PipeExact, P!PipeExact

------------------------------------------------------------------------------
(* The three together. *)
SInv == IInv /\ XInv /\ PInv

LEMMA SInitSInv == SInit => SInv
<1> SUFFICES ASSUME SInit PROVE SInv
  OBVIOUS
<1>1. Init /\ X!Init /\ P!Init
  BY DEF SInit
<1> QED BY <1>1, InitInv, XInit, PipeInit DEF SInv

LEMMA SStep == SInv /\ [SNext]_allvars => SInv'
<1> SUFFICES ASSUME SInv, [SNext]_allvars PROVE SInv'
  OBVIOUS
<1>1. \/ Next /\ UNCHANGED xvars /\ UNCHANGED pvars
      \/ X!Next /\ UNCHANGED vars /\ UNCHANGED pvars
      \/ P!Next /\ UNCHANGED vars /\ UNCHANGED xvars
      \/ UNCHANGED vars /\ UNCHANGED xvars /\ UNCHANGED pvars
  BY DEF SNext, Lock, Xem, Pipe, Stopped, allvars
<1>2. [Next]_vars /\ (X!Next \/ UNCHANGED xvars) /\ (P!Next \/ UNCHANGED pvars)
  BY <1>1
<1> QED BY <1>2, StepInv, XStep, XStutter, PStep, PStutter DEF SInv

LEMMA XAbsIdle == UNCHANGED xvars => UNCHANGED X!Abs!vars
<1> SUFFICES ASSUME UNCHANGED xvars PROVE UNCHANGED X!Abs!vars
  OBVIOUS
<1>1. Line' = Line
  BY DEF xvars, Line, X!Q!Contents, X!Q!Length
<1>2. Refused' = Refused /\ Inside' = Inside
  BY <1>1 DEF xvars, Inside, Refused, Waiting
<1> QED BY <1>1, <1>2, XAbsQuiet DEF xvars

LEMMA SInvariance == SSpec => []SInv
  BY SInitSInv, SStep, PTL DEF SSpec

\* The semaphore of xem.c admits one user at a time and its count is the balance of
\* permits and waiters, for up to NTHREAD threads with any indexes.
THEOREM SemaphoreExact == SSpec => []OneHolder
<1>1. SInv => OneHolder
  BY SemaphoreSound DEF SInv, OneHolder, IInv
<1> QED BY <1>1, SInvariance, PTL

\* No wakeup is lost: a thread asleep on the semaphore, other than the one of index
\* NTHREAD, is in its queue or about to be woken, and a process asleep on a pipe waits for what another can still do.
THEOREM WakeupsArrive == SSpec => []NobodyLeftAsleep
<1>1. SInv => NobodyLeftAsleep
  BY SemaphoreSound, PipeSound DEF SInv, NobodyLeftAsleep
<1> QED BY <1>1, SInvariance, PTL

\* A pipe holds what was written to it and not read, in order, whatever its size, the
\* lengths of the calls and the number of the processes, also where its counters wrap.
THEOREM PipeKeepsBytes == SSpec => []PipeExact
<1>1. SInv => PipeExact
  BY PipeSound DEF SInv
<1> QED BY <1>1, SInvariance, PTL

\* The lock of xem.c is a shared/exclusive lock, and its semaphore gives the one permit
\* it has to the waiters in the order in which they came, but for the thread of index
\* NTHREAD, whose request it may miss: then the permit is gone.
THEOREM SyncRefinement == SSpec => ImplementLocks
<1>1. SInit => Abs!Init /\ X!Abs!Init
  BY InitShared, XAbsInit DEF SInit
<1>2. SInv /\ [SNext]_allvars => [Abs!Next]_(Abs!vars) /\ [X!Abs!Next]_(X!Abs!vars)
  <2> SUFFICES ASSUME SInv, [SNext]_allvars
               PROVE  [Abs!Next]_(Abs!vars) /\ [X!Abs!Next]_(X!Abs!vars)
    OBVIOUS
  <2>1. [Next]_vars /\ (X!Next \/ UNCHANGED xvars)
    BY DEF SNext, Lock, Xem, Pipe, Stopped, allvars
  <2>2. UNCHANGED xvars => UNCHANGED X!Abs!vars
    BY XAbsIdle
  <2>3. SInv => IInv /\ XInv
    BY DEF SInv
  <2> QED BY <2>1, <2>2, <2>3, StepShared, XAbsStep
<1> QED BY <1>1, <1>2, SInvariance, PTL
        DEF SSpec, ImplementLocks, ImplementsLock, X!ImplementsSemaphore, Abs!Spec, X!Abs!Spec
===============================================================================
