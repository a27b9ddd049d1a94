-------------------------- MODULE AdmissionProofs --------------------------
(***************************************************************************)
(* Admission for any number of requests, places, bodies and limits: the    *)
(* pool's books, the breakers' books, and what a breaker grants.           *)
(***************************************************************************)
EXTENDS Admission, FiniteSetTheorems, TLAPS

(* Leaves that need arithmetic cite SMT; the others are left to Zenon. *)
USE Zenon

----------------------------------------------------------------------------
(* The pool. *)

(* The pool's variables, and where a search of another node can be. *)
Shape ==
    /\ at \in [Request -> Places]
    /\ \A r \in Remote : at[r] \in {"away", "sharing", "over share", "running"}
    /\ places \in Nat
    /\ line \in Seq(Client)

(* The line of the semaphore holds requests that wait, each of them once. *)
Line ==
    /\ \A i \in 1 .. Len(line) : at[line[i]] = "waiting"
    /\ \A i, j \in 1 .. Len(line) : line[i] = line[j] => i = j

PoolInv == Shape /\ Line /\ PoolAccounted

(* The sets the pool counts are finite. *)
LEMMA Finite ==
    /\ IsFiniteSet(HoldsPlace) /\ Cardinality(HoldsPlace) \in Nat
    /\ IsFiniteSet(Queued) /\ Cardinality(Queued) \in Nat
<1>1. HoldsPlace \in SUBSET Client /\ Queued \in SUBSET Client
  BY DEF HoldsPlace, Queued
<1>2. IsFiniteSet(Client)
  BY AdmissionAssumption
<1> QED
  BY <1>1, <1>2, FS_Subset, FS_CardinalityType

(* A request that goes from one state to another takes itself into or out  *)
(* of the sets the pool counts, and nobody else.                           *)
LEMMA Moved ==
    ASSUME Shape, NEW r \in Client, NEW w \in Places, at' = [at EXCEPT ![r] = w]
    PROVE  /\ HoldsPlace' = IF w \in Inside THEN HoldsPlace \cup {r} ELSE HoldsPlace \ {r}
           /\ Queued' = IF w \in {"waiting", "handed"} THEN Queued \cup {r} ELSE Queued \ {r}
<1>1. \A q \in Client : at'[q] = IF q = r THEN w ELSE at[q]
  BY DEF Shape, Request
<1>2. HoldsPlace' = {q \in Client : at'[q] \in Inside}
  BY DEF HoldsPlace
<1>3. Queued' = {q \in Client : at'[q] \in {"waiting", "handed"}}
  BY DEF Queued
<1>4. HoldsPlace' = IF w \in Inside THEN HoldsPlace \cup {r} ELSE HoldsPlace \ {r}
  BY <1>1, <1>2 DEF HoldsPlace
<1>5. Queued' = IF w \in {"waiting", "handed"} THEN Queued \cup {r} ELSE Queued \ {r}
  BY <1>1, <1>3 DEF Queued
<1> QED
  BY <1>4, <1>5

(* What such a move does to the numbers of both. *)
LEMMA Counted ==
    ASSUME Shape, NEW r \in Client, NEW w \in Places, at' = [at EXCEPT ![r] = w]
    PROVE  /\ Cardinality(HoldsPlace') =
                Cardinality(HoldsPlace) + (IF w \in Inside THEN 1 ELSE 0)
                                        - (IF at[r] \in Inside THEN 1 ELSE 0)
           /\ Cardinality(Queued') =
                Cardinality(Queued) + (IF w \in {"waiting", "handed"} THEN 1 ELSE 0)
                                    - (IF at[r] \in {"waiting", "handed"} THEN 1 ELSE 0)
<1>1. r \in HoldsPlace <=> at[r] \in Inside
  BY DEF HoldsPlace
<1>2. r \in Queued <=> at[r] \in {"waiting", "handed"}
  BY DEF Queued
<1>3. /\ Cardinality(HoldsPlace \cup {r}) =
            IF r \in HoldsPlace THEN Cardinality(HoldsPlace) ELSE Cardinality(HoldsPlace) + 1
      /\ Cardinality(HoldsPlace \ {r}) =
            IF r \in HoldsPlace THEN Cardinality(HoldsPlace) - 1 ELSE Cardinality(HoldsPlace)
  BY Finite, FS_AddElement, FS_RemoveElement
<1>4. /\ Cardinality(Queued \cup {r}) =
            IF r \in Queued THEN Cardinality(Queued) ELSE Cardinality(Queued) + 1
      /\ Cardinality(Queued \ {r}) =
            IF r \in Queued THEN Cardinality(Queued) - 1 ELSE Cardinality(Queued)
  BY Finite, FS_AddElement, FS_RemoveElement
<1>5. /\ HoldsPlace' = IF w \in Inside THEN HoldsPlace \cup {r} ELSE HoldsPlace \ {r}
      /\ Queued' = IF w \in {"waiting", "handed"} THEN Queued \cup {r} ELSE Queued \ {r}
  BY Moved
<1> HIDE DEF HoldsPlace, Queued, Inside, Places
<1>6. Cardinality(HoldsPlace) \in Nat /\ Cardinality(Queued) \in Nat
  BY Finite
<1>7. Cardinality(HoldsPlace') =
                Cardinality(HoldsPlace) + (IF w \in Inside THEN 1 ELSE 0)
                                        - (IF at[r] \in Inside THEN 1 ELSE 0)
  BY <1>1, <1>3, <1>5, <1>6, SMT
<1>8. Cardinality(Queued') =
                Cardinality(Queued) + (IF w \in {"waiting", "handed"} THEN 1 ELSE 0)
                                    - (IF at[r] \in {"waiting", "handed"} THEN 1 ELSE 0)
  BY <1>2, <1>4, <1>5, <1>6, SMT
<1> QED
  BY <1>7, <1>8

----------------------------------------------------------------------------
(* The steps. *)

Outside == {"away", "sharing", "over share", "running"}

(* A request that is not in the line moves, and the line stays as it is. *)
LEMMA LineKept ==
    ASSUME Shape, Line, NEW r \in Request, at[r] # "waiting",
           NEW w \in Places, at' = [at EXCEPT ![r] = w], r \in Remote => w \in Outside,
           places' \in Nat, line' = line
    PROVE  Shape' /\ Line'
<1>1. at' \in [Request -> Places]
  BY DEF Shape
<1>2. \A q \in Remote : at'[q] \in {"away", "sharing", "over share", "running"}
  BY DEF Shape, Request, Outside
<1>3. \A i \in 1 .. Len(line) : line[i] \in Request /\ line[i] # r
  <2>0. line \in Seq(Client)
    BY DEF Shape
  <2>1. \A i \in 1 .. Len(line) : line[i] \in Client
    BY <2>0, SMT
  <2> QED
    BY <2>1 DEF Line, Request
<1>4. \A i \in 1 .. Len(line) : at'[line[i]] = "waiting"
  BY <1>3 DEF Shape, Line
<1>5. Shape'
  BY <1>1, <1>2 DEF Shape
<1>6. Line'
  BY <1>4 DEF Line
<1> QED
  BY <1>5, <1>6

(* A move the pool does not notice. *)
LEMMA Unnoticed ==
    ASSUME PoolInv, NEW r \in Request, at[r] # "waiting",
           NEW w \in Places, at' = [at EXCEPT ![r] = w], r \in Remote => w \in Outside,
           r \in Client => (at[r] \in Inside <=> w \in Inside),
           at[r] # "handed", w \notin {"waiting", "handed"},
           UNCHANGED <<places, line, waiting>>
    PROVE  PoolInv'
<1>1. Shape' /\ Line'
  BY LineKept DEF PoolInv, Shape
<1>2. CASE r \in Client
  <2>1. /\ Cardinality(HoldsPlace') = Cardinality(HoldsPlace)
        /\ Cardinality(Queued') = Cardinality(Queued)
    <3>1. /\ Cardinality(HoldsPlace') =
                  Cardinality(HoldsPlace) + (IF w \in Inside THEN 1 ELSE 0)
                                          - (IF at[r] \in Inside THEN 1 ELSE 0)
          /\ Cardinality(Queued') =
                  Cardinality(Queued) + (IF w \in {"waiting", "handed"} THEN 1 ELSE 0)
                                      - (IF at[r] \in {"waiting", "handed"} THEN 1 ELSE 0)
      BY <1>2, Counted DEF PoolInv
    <3>2. Cardinality(HoldsPlace) \in Nat /\ Cardinality(Queued) \in Nat
      BY Finite
    <3> QED
      BY <1>2, <3>1, <3>2, SMT
  <2> QED
    BY <1>1, <2>1 DEF PoolInv, PoolAccounted
<1>3. CASE r \in Remote
  <2>1. r \notin Client
    BY <1>3, AdmissionAssumption
  <2>2. \A q \in Client : at'[q] = at[q]
    BY <2>1 DEF PoolInv, Shape, Request
  <2>3. HoldsPlace' = HoldsPlace /\ Queued' = Queued
    BY <2>2 DEF HoldsPlace, Queued
  <2> QED
    BY <1>1, <2>3 DEF PoolInv, PoolAccounted
<1> QED
  BY <1>2, <1>3 DEF Request

(* A place goes back to the semaphore, and on to the first in the line. *)
LEMMA Released ==
    ASSUME PoolInv, NEW r \in Client, at[r] \in Inside, Release(r),
           waiting' = waiting - (IF at[r] = "handed" THEN 1 ELSE 0)
    PROVE  PoolInv'
<1>0. /\ Shape /\ Line /\ line \in Seq(Client) /\ places \in Nat /\ r \in Request
      /\ at[r] # "waiting"
  BY DEF PoolInv, Shape, Request, Inside
<1>1. CASE line = <<>>
  <2>1. PICK w \in Places : w = "away"
    BY DEF Places
  <2>2. /\ at' = [at EXCEPT ![r] = w] /\ line' = line /\ places' = places + 1
        /\ w \notin Inside /\ w \notin {"waiting", "handed"} /\ w \in Outside
    BY <1>1, <2>1 DEF Release, Inside, Outside
  <2>3. places' \in Nat
    BY <1>0, <2>2, SMT
  <2>4. Shape' /\ Line'
    BY <1>0, <2>2, <2>3, LineKept
  <2>5. /\ Cardinality(HoldsPlace') = Cardinality(HoldsPlace) - 1
        /\ Cardinality(Queued') = Cardinality(Queued) - (IF at[r] = "handed" THEN 1 ELSE 0)
    <3>1. /\ Cardinality(HoldsPlace') =
                  Cardinality(HoldsPlace) + (IF w \in Inside THEN 1 ELSE 0)
                                          - (IF at[r] \in Inside THEN 1 ELSE 0)
          /\ Cardinality(Queued') =
                  Cardinality(Queued) + (IF w \in {"waiting", "handed"} THEN 1 ELSE 0)
                                      - (IF at[r] \in {"waiting", "handed"} THEN 1 ELSE 0)
      BY <1>0, <2>2, Counted
    <3>2. Cardinality(HoldsPlace) \in Nat /\ Cardinality(Queued) \in Nat
      BY Finite
    <3> QED
      BY <1>0, <2>2, <3>1, <3>2, SMT
  <2> QED
    BY <1>0, <2>2, <2>4, <2>5, Finite, AdmissionAssumption, SMT DEF PoolInv, PoolAccounted
<1>2. CASE line # <<>>
  <2> DEFINE h == Head(line)
  <2>0. h \in Client /\ Len(line) \in Nat /\ Len(line) > 0 /\ line[1] = h
    BY <1>0, <1>2, SMT
  <2>1. /\ h \in Client /\ at[h] = "waiting" /\ h # r
        /\ Len(line) \in Nat /\ Len(line) > 0 /\ line[1] = h
    <3>1. at[line[1]] = "waiting"
      BY <1>0, <2>0, SMT DEF Line
    <3> QED
      BY <1>0, <2>0, <3>1
  <2>2. at' = [[at EXCEPT ![r] = "away"] EXCEPT ![h] = "handed"]
    BY <1>2, <2>1 DEF Release
  <2>3. places' = places /\ line' = Tail(line)
    BY <1>2 DEF Release
  <2> HIDE DEF h
  <2>4. \A q \in Request : at'[q] = IF q = h THEN "handed" ELSE IF q = r THEN "away" ELSE at[q]
    BY <2>1, <2>2 DEF PoolInv, Shape, Request
  <2>5. HoldsPlace' = (HoldsPlace \ {r}) \cup {h}
    BY <2>1, <2>4 DEF HoldsPlace, Request, Inside
  <2>6. Queued' = Queued \ {r}
    BY <2>1, <2>4 DEF Queued, Request
  <2>7. Cardinality(HoldsPlace') = Cardinality(HoldsPlace)
    <3>1. r \in HoldsPlace /\ h \notin HoldsPlace \ {r}
      BY <2>1 DEF HoldsPlace, Inside
    <3>2. IsFiniteSet(HoldsPlace \ {r})
          /\ Cardinality(HoldsPlace \ {r}) = Cardinality(HoldsPlace) - 1
      BY <3>1, Finite, FS_RemoveElement
    <3>3. Cardinality((HoldsPlace \ {r}) \cup {h}) = Cardinality(HoldsPlace \ {r}) + 1
      BY <3>1, <3>2, FS_AddElement
    <3> QED
      BY <2>5, <3>2, <3>3, Finite, SMT
  <2>8. Cardinality(Queued') = Cardinality(Queued) - (IF at[r] = "handed" THEN 1 ELSE 0)
    <3>1. r \in Queued <=> at[r] = "handed"
      BY DEF Queued, Inside
    <3>2. Cardinality(Queued \ {r}) =
            IF r \in Queued THEN Cardinality(Queued) - 1 ELSE Cardinality(Queued)
      BY Finite, FS_RemoveElement
    <3> HIDE DEF Queued
    <3> QED
      BY <2>6, <3>1, <3>2, Finite, SMT
  <2>9. Shape'
    <3>1. at' \in [Request -> Places]
      BY <2>2 DEF PoolInv, Shape, Places, Inside
    <3>2. \A q \in Remote : at'[q] = at[q]
      BY <2>1, <2>4, AdmissionAssumption DEF Request
    <3>3. line' \in Seq(Client)
      BY <1>0, <1>2, <2>3, SMT
    <3> QED
      BY <2>3, <3>1, <3>2, <3>3 DEF PoolInv, Shape
  <2>10. Line'
    <3>1. /\ Len(line') = Len(line) - 1
          /\ \A i \in 1 .. Len(line') : line'[i] = line[i + 1] /\ i + 1 \in 1 .. Len(line)
      BY <1>0, <1>2, <2>1, <2>3, SMT
    <3>2. \A i \in 1 .. Len(line') : line[i + 1] \in Request /\ line[i + 1] # h
                                     /\ line[i + 1] # r /\ at[line[i + 1]] = "waiting"
      <4> SUFFICES ASSUME NEW i \in 1 .. Len(line')
                   PROVE  line[i + 1] \in Request /\ line[i + 1] # h
                          /\ line[i + 1] # r /\ at[line[i + 1]] = "waiting"
        OBVIOUS
      <4>1. i + 1 \in 1 .. Len(line) /\ i + 1 # 1 /\ 1 \in 1 .. Len(line)
        BY <2>1, <3>1, SMT
      <4>2. at[line[i + 1]] = "waiting" /\ line[i + 1] # line[1]
        BY <1>0, <4>1 DEF Line
      <4>3. line[i + 1] \in Client
        BY <1>0, <4>1, SMT
      <4> QED
        BY <1>0, <2>1, <4>2, <4>3 DEF Request
    <3>3. \A i \in 1 .. Len(line') : at'[line'[i]] = "waiting"
      BY <2>4, <3>1, <3>2
    <3>4. \A i, j \in 1 .. Len(line') : line'[i] = line'[j] => i = j
      <4> SUFFICES ASSUME NEW i \in 1 .. Len(line'), NEW j \in 1 .. Len(line'),
                          line'[i] = line'[j]
                   PROVE  i = j
        OBVIOUS
      <4>1. i + 1 \in 1 .. Len(line) /\ j + 1 \in 1 .. Len(line) /\ line[i + 1] = line[j + 1]
        BY <3>1
      <4>2. i + 1 = j + 1
        BY <4>1 DEF PoolInv, Line
      <4> QED BY <4>2, SMT
    <3> QED
      BY <3>3, <3>4 DEF Line
  <2> QED
    BY <2>3, <2>7, <2>8, <2>9, <2>10 DEF PoolInv, PoolAccounted
<1> QED
  BY <1>1, <1>2

(* The pool is free at first. *)
LEMMA Start == Init => PoolInv
<1> SUFFICES ASSUME Init PROVE PoolInv
  OBVIOUS
<1>1. Shape
  BY AdmissionAssumption, SMT DEF Init, Shape, Places, Request
<1>2. Line
  BY SMT DEF Init, Line
<1>3. HoldsPlace = {} /\ Queued = {}
  BY DEF Init, HoldsPlace, Queued, Request, Inside
<1>4. PoolAccounted
  BY <1>3, FS_EmptySet, AdmissionAssumption, SMT DEF Init, PoolAccounted
<1> QED
  BY <1>1, <1>2, <1>4 DEF PoolInv

(* A place is taken, or looked for in vain. *)
LEMMA Arrives ==
    ASSUME PoolInv, NEW r \in Client, NEW size, Arrive(r, size)
    PROVE  PoolInv'
<1>0. /\ Shape /\ Line /\ places \in Nat /\ r \in Request /\ at[r] = "away"
      /\ r \in Remote => FALSE
  BY AdmissionAssumption DEF PoolInv, Shape, Request, Arrive
<1>1. PICK w \in Places : w = IF places > 0 THEN "placed" ELSE "full"
  BY DEF Places, Inside
<1>2. /\ at' = [at EXCEPT ![r] = w] /\ line' = line /\ waiting' = waiting
      /\ places' = IF places > 0 THEN places - 1 ELSE places
  BY <1>1 DEF Arrive
<1>3. Shape' /\ Line'
  <2>1. places' \in Nat
    BY <1>0, <1>2, SMT
  <2> QED
    BY <1>0, <1>2, <2>1, LineKept
<1>4. /\ Cardinality(HoldsPlace') =
            Cardinality(HoldsPlace) + (IF w \in Inside THEN 1 ELSE 0)
                                    - (IF at[r] \in Inside THEN 1 ELSE 0)
      /\ Cardinality(Queued') =
            Cardinality(Queued) + (IF w \in {"waiting", "handed"} THEN 1 ELSE 0)
                                - (IF at[r] \in {"waiting", "handed"} THEN 1 ELSE 0)
  BY <1>0, <1>2, Counted
<1>5. (w \in Inside <=> places > 0) /\ w \notin {"waiting", "handed"}
      /\ at[r] \notin Inside /\ at[r] \notin {"waiting", "handed"}
  BY <1>0, <1>1 DEF Inside
<1>6. Cardinality(HoldsPlace) \in Nat /\ Cardinality(Queued) \in Nat
  BY Finite
<1>7. PoolAccounted'
  BY <1>0, <1>2, <1>4, <1>5, <1>6, AdmissionAssumption, SMT DEF PoolInv, PoolAccounted
<1> QED
  BY <1>3, <1>7 DEF PoolInv

(* A request joins the queue, with a place or behind the others. *)
LEMMA Joins ==
    ASSUME PoolInv, NEW r \in Client, JoinQueue(r)
    PROVE  PoolInv'
<1>0. /\ Shape /\ Line /\ places \in Nat /\ r \in Request /\ at[r] = "queueing"
      /\ line \in Seq(Client) /\ (r \in Remote => FALSE)
  BY AdmissionAssumption DEF PoolInv, Shape, Request, JoinQueue
<1>1. PICK w \in Places : w = IF places > 0 THEN "handed" ELSE "waiting"
  BY DEF Places, Inside
<1>2. /\ at' = [at EXCEPT ![r] = w] /\ waiting' = waiting + 1
      /\ places' = IF places > 0 THEN places - 1 ELSE places
      /\ line' = IF places > 0 THEN line ELSE Append(line, r)
  BY <1>1 DEF JoinQueue
<1>3. Shape' /\ Line'
  <2>1. CASE places > 0
    <3>1. places' \in Nat /\ line' = line
      BY <1>0, <1>2, <2>1, SMT
    <3> QED
      BY <1>0, <1>2, <3>1, LineKept
  <2>2. CASE ~ (places > 0)
    <3>1. line' = Append(line, r) /\ places' = places /\ w = "waiting"
      BY <1>1, <1>2, <2>2
    <3>2. Shape'
      <4>1. at' \in [Request -> Places] /\ \A q \in Remote : at'[q] = at[q]
        BY <1>0, <1>2 DEF Shape, Request
      <4>2. line' \in Seq(Client)
        BY <1>0, <3>1, SMT
      <4> QED
        BY <1>0, <3>1, <4>1, <4>2 DEF Shape
    <3>3. /\ Len(line) \in Nat /\ Len(line') = Len(line) + 1
          /\ \A i \in 1 .. Len(line) : line'[i] = line[i] /\ line[i] \in Client
          /\ line'[Len(line) + 1] = r
      BY <1>0, <3>1, SMT
    <3>4. \A i \in 1 .. Len(line) : line[i] # r /\ at[line[i]] = "waiting"
      BY <1>0 DEF Line
    <3>5. \A q \in Request : at'[q] = IF q = r THEN "waiting" ELSE at[q]
      BY <1>0, <1>2, <3>1 DEF Shape
    <3>6. \A i \in 1 .. Len(line') : at'[line'[i]] = "waiting"
      BY <1>0, <3>3, <3>4, <3>5, SMT DEF Request
    <3>7. \A i, j \in 1 .. Len(line') : line'[i] = line'[j] => i = j
      BY <1>0, <3>3, <3>4, SMT DEF Line
    <3> QED
      BY <3>2, <3>6, <3>7 DEF Line
  <2> QED
    BY <2>1, <2>2
<1>4. /\ Cardinality(HoldsPlace') =
            Cardinality(HoldsPlace) + (IF w \in Inside THEN 1 ELSE 0)
                                    - (IF at[r] \in Inside THEN 1 ELSE 0)
      /\ Cardinality(Queued') =
            Cardinality(Queued) + (IF w \in {"waiting", "handed"} THEN 1 ELSE 0)
                                - (IF at[r] \in {"waiting", "handed"} THEN 1 ELSE 0)
  BY <1>0, <1>2, Counted
<1>5. (w \in Inside <=> places > 0) /\ w \in {"waiting", "handed"}
      /\ at[r] \notin Inside /\ at[r] \notin {"waiting", "handed"}
  BY <1>0, <1>1 DEF Inside
<1>6. Cardinality(HoldsPlace) \in Nat /\ Cardinality(Queued) \in Nat
  BY Finite
<1>7. PoolAccounted'
  BY <1>0, <1>2, <1>4, <1>5, <1>6, AdmissionAssumption, SMT DEF PoolInv, PoolAccounted
<1> QED
  BY <1>3, <1>7 DEF PoolInv

(* A request that was handed a place leaves the queue with it. *)
LEMMA TakesUp ==
    ASSUME PoolInv, NEW r \in Client, LeaveQueue(r)
    PROVE  PoolInv'
<1>0. /\ Shape /\ Line /\ places \in Nat /\ r \in Request /\ at[r] = "handed"
      /\ (r \in Remote => FALSE)
  BY AdmissionAssumption DEF PoolInv, Shape, Request, LeaveQueue
<1>1. PICK w \in Places : w = "placed"
  BY DEF Places, Inside
<1>2. /\ at' = [at EXCEPT ![r] = w] /\ waiting' = waiting - 1
      /\ places' = places /\ line' = line
  BY <1>1 DEF LeaveQueue
<1>3. Shape' /\ Line'
  BY <1>0, <1>2, LineKept
<1>4. /\ Cardinality(HoldsPlace') =
            Cardinality(HoldsPlace) + (IF w \in Inside THEN 1 ELSE 0)
                                    - (IF at[r] \in Inside THEN 1 ELSE 0)
      /\ Cardinality(Queued') =
            Cardinality(Queued) + (IF w \in {"waiting", "handed"} THEN 1 ELSE 0)
                                - (IF at[r] \in {"waiting", "handed"} THEN 1 ELSE 0)
  BY <1>0, <1>2, Counted
<1>5. w \in Inside /\ w \notin {"waiting", "handed"} /\ at[r] \in Inside
  BY <1>0, <1>1 DEF Inside
<1>6. Cardinality(HoldsPlace) \in Nat /\ Cardinality(Queued) \in Nat
  BY Finite
<1>7. PoolAccounted'
  BY <1>0, <1>2, <1>4, <1>5, <1>6, AdmissionAssumption, SMT DEF PoolInv, PoolAccounted
<1> QED
  BY <1>3, <1>7 DEF PoolInv

(* A request that waits gives up, and the ones behind it move up. *)
LEMMA GivesUp ==
    ASSUME PoolInv, NEW r \in Client, at[r] = "waiting", HangUp(r)
    PROVE  PoolInv'
<1>0. /\ Shape /\ Line /\ places \in Nat /\ r \in Request
      /\ line \in Seq(Client) /\ (r \in Remote => FALSE)
  BY AdmissionAssumption DEF PoolInv, Shape, Request
<1>1. PICK w \in Places : w = "away"
  BY DEF Places
<1>2. PICK k \in DOMAIN line :
        /\ line[k] = r
        /\ line' = [j \in 1 .. Len(line) - 1 |-> IF j < k THEN line[j] ELSE line[j + 1]]
  BY DEF HangUp
<1>3. /\ at' = [at EXCEPT ![r] = w] /\ waiting' = waiting - 1 /\ places' = places
  BY <1>1 DEF HangUp
<1>4. k \in 1 .. Len(line) /\ Len(line) \in Nat /\ \A i \in 1 .. Len(line) : line[i] \in Client
  BY <1>0, <1>2, SMT
<1>5. line' \in Seq(Client) /\ Len(line') = Len(line) - 1
  <2>1. Len(line) - 1 \in Nat
    BY <1>4, SMT
  <2>2. \A j \in 1 .. Len(line) - 1 : (IF j < k THEN line[j] ELSE line[j + 1]) \in Client
    BY <1>4, SMT
  <2> QED
    BY <1>2, <2>1, <2>2, SMT
<1>6. \A j \in 1 .. Len(line') : line'[j] = IF j < k THEN line[j] ELSE line[j + 1]
  BY <1>2, <1>5
<1>7. Shape'
  <2>1. at' \in [Request -> Places] /\ \A q \in Remote : at'[q] = at[q]
    BY <1>0, <1>3 DEF Shape, Request
  <2> QED
    BY <1>0, <1>3, <1>5, <2>1 DEF Shape
<1>8. Line'
  <2>1. \A i \in 1 .. Len(line) : i # k => line[i] # r /\ at[line[i]] = "waiting"
    BY <1>0, <1>2, <1>4 DEF Line
  <2>2. \A q \in Request : at'[q] = IF q = r THEN w ELSE at[q]
    BY <1>0, <1>3 DEF Shape
  <2>3. ASSUME NEW j \in 1 .. Len(line')
        PROVE  at'[line'[j]] = "waiting"
    <3>1. PICK i \in 1 .. Len(line) : i # k /\ line'[j] = line[i]
      BY <1>4, <1>5, <1>6, SMT
    <3> QED
      BY <1>4, <2>1, <2>2, <3>1 DEF Request
  <2>4. \A i, j \in 1 .. Len(line') : line'[i] = line'[j] => i = j
    BY <1>0, <1>4, <1>5, <1>6, SMT DEF Line
  <2> QED
    BY <2>3, <2>4 DEF Line
<1>9. /\ Cardinality(HoldsPlace') =
            Cardinality(HoldsPlace) + (IF w \in Inside THEN 1 ELSE 0)
                                    - (IF at[r] \in Inside THEN 1 ELSE 0)
      /\ Cardinality(Queued') =
            Cardinality(Queued) + (IF w \in {"waiting", "handed"} THEN 1 ELSE 0)
                                - (IF at[r] \in {"waiting", "handed"} THEN 1 ELSE 0)
  BY <1>0, <1>3, Counted
<1>10. w \notin Inside /\ w \notin {"waiting", "handed"} /\ at[r] \notin Inside
  BY <1>1 DEF Inside
<1>11. Cardinality(HoldsPlace) \in Nat /\ Cardinality(Queued) \in Nat
  BY Finite
<1>12. PoolAccounted'
  BY <1>3, <1>9, <1>10, <1>11, SMT DEF PoolInv, PoolAccounted
<1> QED
  BY <1>7, <1>8, <1>12 DEF PoolInv

(* Everything between the place a request got and the place it gives back. *)
LEMMA GoesOn ==
    ASSUME PoolInv, NEW r \in Request,
           \/ LookAtQueue(r) \/ ReserveBody(r) \/ RefuseBody(r)
           \/ \E real \in RealMemory : CheckParent(r, real)
           \/ TakeShare(r) \/ ReserveShare(r) \/ SearchOnly(r) \/ DropShare(r) \/ DropBody(r)
           \/ at[r] = "admitted" /\ HangUp(r)
    PROVE  PoolInv'
<1>1. /\ at \in [Request -> Places] /\ UNCHANGED <<places, line, waiting>>
      /\ r \in Remote => at[r] \in Outside
      /\ r \in Remote <=> r \notin Client
  BY AdmissionAssumption DEF PoolInv, Shape, Outside, Request, LookAtQueue, ReserveBody,
     RefuseBody, CheckParent, TakeShare, ReserveShare, SearchOnly, DropShare, DropBody, HangUp
<1>2. /\ at' = [at EXCEPT ![r] = at'[r]] /\ at'[r] \in Places
      /\ r \in Remote => at'[r] \in Outside
      /\ r \in Client => (at[r] \in Inside <=> at'[r] \in Inside)
      /\ at[r] \notin {"waiting", "handed"} /\ at'[r] \notin {"waiting", "handed"}
  <2>1. CASE LookAtQueue(r)
    BY <1>1, <2>1 DEF LookAtQueue, Places, Inside, Outside
  <2>2. CASE ReserveBody(r)
    BY <1>1, <2>2 DEF ReserveBody, Places, Inside, Outside
  <2>3. CASE RefuseBody(r)
    BY <1>1, <2>3 DEF RefuseBody, Places, Inside, Outside
  <2>4. CASE \E real \in RealMemory : CheckParent(r, real)
    BY <1>1, <2>4 DEF CheckParent, Places, Inside, Outside
  <2>5. CASE TakeShare(r)
    BY <1>1, <2>5 DEF TakeShare, Places, Inside, Outside
  <2>6. CASE ReserveShare(r)
    BY <1>1, <2>6 DEF ReserveShare, Places, Inside, Outside
  <2>7. CASE SearchOnly(r)
    BY <1>1, <2>7 DEF SearchOnly, Places, Inside, Outside
  <2>8. CASE DropShare(r)
    BY <1>1, <2>8 DEF DropShare, Over, Places, Inside, Outside
  <2>9. CASE DropBody(r)
    BY <1>1, <2>9 DEF DropBody, Places, Inside, Outside
  <2>10. CASE at[r] = "admitted" /\ HangUp(r)
    BY <1>1, <2>10 DEF HangUp, Places, Inside, Outside
  <2> QED
    BY <2>1, <2>2, <2>3, <2>4, <2>5, <2>6, <2>7, <2>8, <2>9, <2>10
<1>3. PICK w \in Places : w = at'[r]
  BY <1>2
<1> QED
  BY <1>1, <1>2, <1>3, Unnoticed

(* Every step keeps it. *)
LEMMA Step == PoolInv /\ [Next]_vars => PoolInv'
<1> SUFFICES ASSUME PoolInv, [Next]_vars PROVE PoolInv'
  OBVIOUS
<1>0. \A r \in Remote : r \notin Client /\ r \in Request
                       /\ at[r] \notin {"queueing", "handed", "leaving"}
  BY AdmissionAssumption DEF PoolInv, Shape, Request
<1>1. CASE \E r \in Client : \E size \in Bodies[r] : Arrive(r, size)
  BY <1>1, Arrives
<1>2. CASE \E r \in Remote : TakeShare(r)
  BY <1>0, <1>2, GoesOn
<1>3. ASSUME NEW r \in Request, Proceed(r)
      PROVE  PoolInv'
  <2>1. CASE JoinQueue(r)
    <3>1. r \in Client
      BY <1>0, <2>1 DEF JoinQueue, Request
    <3> QED
      BY <2>1, <3>1, Joins
  <2>2. CASE LeaveQueue(r)
    <3>1. r \in Client
      BY <1>0, <2>2 DEF LeaveQueue, Request
    <3> QED
      BY <2>2, <3>1, TakesUp
  <2>3. CASE Leave(r)
    <3>1. r \in Client /\ at[r] \in Inside /\ at[r] # "handed" /\ Release(r)
          /\ waiting' = waiting
      BY <1>0, <2>3 DEF Leave, Request, Inside
    <3>2. waiting' = waiting - (IF at[r] = "handed" THEN 1 ELSE 0)
      BY <3>1, Finite, SMT DEF PoolInv, PoolAccounted
    <3> QED
      BY <3>1, <3>2, Released
  <2>4. CASE ~ (JoinQueue(r) \/ LeaveQueue(r) \/ Leave(r))
    BY <1>3, <2>4, GoesOn DEF Proceed
  <2> QED
    BY <2>1, <2>2, <2>3, <2>4
<1>4. ASSUME NEW r \in Client, HangUp(r)
      PROVE  PoolInv'
  <2>0. r \in Request
    BY DEF Request
  <2>1. CASE at[r] = "waiting"
    BY <1>4, <2>1, GivesUp
  <2>2. CASE at[r] = "handed"
    <3>1. at[r] \in Inside /\ Release(r)
          /\ waiting' = waiting - (IF at[r] = "handed" THEN 1 ELSE 0)
      BY <1>4, <2>2 DEF HangUp, Inside
    <3> QED
      BY <3>1, Released
  <2>3. CASE at[r] = "admitted"
    BY <1>4, <2>0, <2>3, GoesOn
  <2> QED
    BY <1>4, <2>1, <2>2, <2>3 DEF HangUp
<1>5. CASE (\E l \in Limits : SetLimit(l)) \/ UNCHANGED vars
  <2>1. UNCHANGED <<at, places, line, waiting>>
    BY <1>5 DEF SetLimit, vars
  <2> QED
    BY <2>1 DEF PoolInv, Shape, Line, PoolAccounted, HoldsPlace, Queued
<1> QED
  BY <1>1, <1>2, <1>3, <1>4, <1>5 DEF Next

(* The pool's books are right after any number of arrivals, refusals,      *)
(* hang-ups and hand-overs, for any number of requests, places and limits  *)
(* (pools.rs track).                                                       *)
THEOREM PoolCorrect == Spec => []PoolAccounted
<1>1. Init => PoolInv
  BY Start
<1>2. PoolInv /\ [Next]_vars => PoolInv'
  BY Step
<1>3. PoolInv => PoolAccounted
  BY DEF PoolInv
<1> QED
  BY <1>1, <1>2, <1>3, PTL DEF Spec

(* No more requests are inside at once than the pool has places            *)
(* (pools.rs at_once).                                                     *)
THEOREM BoundedAtOnce == Spec => []NeverMoreAtOnce
<1>1. Init => PoolInv
  BY Start
<1>2. PoolInv /\ [Next]_vars => PoolInv'
  BY Step
<1>3. ASSUME PoolInv PROVE NeverMoreAtOnce
  <2>1. places \in Nat /\ places + Cardinality(HoldsPlace) = AtOnce
    BY <1>3 DEF PoolInv, PoolAccounted, Shape
  <2>2. Cardinality(HoldsPlace) \in Nat
    BY Finite
  <2>3. Cardinality(HoldsPlace) <= AtOnce
    BY <2>1, <2>2, SMT
  <2> QED
    BY <2>3 DEF NeverMoreAtOnce
<1> QED
  BY <1>1, <1>2, <1>3, PTL DEF Spec

----------------------------------------------------------------------------
(* What requests hold together, by what is known of finite sets. *)

(* A unit is a number up to the amount of the one that holds it.           *)
LEMMA UnitsAre ==
    ASSUME NEW h, NEW S, NEW u \in Units(h, S)
    PROVE  \E x \in S : \E i \in 1 .. h[x] : u = <<x, i>>
<1>1. PICK x \in S : u \in {x} \X (1 .. h[x])
  BY DEF Units
<1>2. \E i \in 1 .. h[x] : u = <<x, i>>
  BY <1>1, SMT
<1> QED
  BY <1>2

(* Finitely many hold finitely many.                                       *)
LEMMA UnitsFinite ==
    ASSUME NEW h, NEW S, IsFiniteSet(S), \A x \in S : h[x] \in Nat
    PROVE  IsFiniteSet(Units(h, S))
<1> DEFINE F == [x \in S |-> {x} \X (1 .. h[x])]
           R == {{x} \X (1 .. h[x]) : x \in S}
<1>1. F \in Surjection(S, R)
  BY DEF Surjection
<1>2. IsFiniteSet(R)
  BY <1>1, FS_Surjection
<1>3. ASSUME NEW x \in S PROVE IsFiniteSet({x} \X (1 .. h[x]))
  <2>1. 1 \in Int /\ h[x] \in Int
    BY SMT
  <2>2. IsFiniteSet({x}) /\ IsFiniteSet(1 .. h[x])
    BY <2>1, FS_Singleton, FS_Interval
  <2> QED
    BY <2>2, FS_Product
<1>4. \A T \in R : IsFiniteSet(T)
  BY <1>3
<1> QED
  BY <1>2, <1>4, FS_UNION DEF Units

(* Nobody holds nothing.                                                   *)
LEMMA TotalEmpty == ASSUME NEW h PROVE Total(h, {}) = 0
<1>1. Units(h, {}) = {}
  BY DEF Units
<1> QED
  BY <1>1, FS_EmptySet DEF Total

LEMMA TotalNat ==
    ASSUME NEW h, NEW S, IsFiniteSet(S), \A x \in S : h[x] \in Nat
    PROVE  Total(h, S) \in Nat
BY UnitsFinite, FS_CardinalityType DEF Total

(* A part of them holds no more.                                           *)
LEMMA TotalPart ==
    ASSUME NEW h, NEW S, IsFiniteSet(S), \A x \in S : h[x] \in Nat, NEW T \in SUBSET S
    PROVE  Total(h, T) <= Total(h, S)
<1>1. Units(h, T) \in SUBSET Units(h, S)
  BY DEF Units
<1>2. IsFiniteSet(Units(h, S))
  BY UnitsFinite
<1> QED
  BY <1>1, <1>2, FS_Subset DEF Total

(* The amount of one of them is added to the rest.                         *)
LEMMA TotalTake ==
    ASSUME NEW h, NEW S, IsFiniteSet(S), \A x \in S : h[x] \in Nat, NEW z \in S
    PROVE  Total(h, S) = h[z] + Total(h, S \ {z})
<1> DEFINE A == {z} \X (1 .. h[z])
           B == Units(h, S \ {z})
<1>1. IsFiniteSet(S \ {z}) /\ \A x \in S \ {z} : h[x] \in Nat
  BY FS_Subset
<1>2. IsFiniteSet(B) /\ Cardinality(B) \in Nat
  BY <1>1, UnitsFinite, FS_CardinalityType
<1>3. IsFiniteSet(A) /\ Cardinality(A) = h[z]
  <2>1. 1 \in Int /\ h[z] \in Int /\ h[z] \in Nat
    BY SMT
  <2>2. IsFiniteSet(1 .. h[z]) /\ Cardinality(1 .. h[z]) = h[z]
    <3>1. /\ IsFiniteSet(1 .. h[z])
          /\ Cardinality(1 .. h[z]) = IF 1 > h[z] THEN 0 ELSE h[z] - 1 + 1
      BY <2>1, FS_Interval
    <3> QED
      BY <2>1, <3>1, SMT
  <2>3. IsFiniteSet({z}) /\ Cardinality({z}) = 1
    BY FS_Singleton
  <2>4. IsFiniteSet(A) /\ Cardinality(A) = Cardinality({z}) * Cardinality(1 .. h[z])
    BY <2>2, <2>3, FS_Product
  <2> QED
    BY <2>1, <2>2, <2>3, <2>4, SMT
<1>4. Units(h, S) = A \cup B
  BY DEF Units
<1>5. A \cap B = {}
  <2>1. ASSUME NEW u \in A, u \in B PROVE FALSE
    <3>1. PICK x \in S \ {z} : \E i \in 1 .. h[x] : u = <<x, i>>
      BY <2>1, UnitsAre, SMT
    <3>2. u[1] = z /\ u[1] = x
      BY <2>1, <3>1, SMT
    <3> QED
      BY <3>1, <3>2
  <2> QED
    BY <2>1
<1>6. Cardinality(A \cup B) = Cardinality(A) + Cardinality(B) - Cardinality(A \cap B)
  BY <1>2, <1>3, FS_Union
<1>7. Cardinality(A \cap B) = 0
  BY <1>5, FS_EmptySet
<1>8. Total(h, S) = Cardinality(A \cup B) /\ Total(h, S \ {z}) = Cardinality(B)
  BY <1>4 DEF Total
<1> HIDE DEF A, B
<1> QED
  BY <1>2, <1>3, <1>6, <1>7, <1>8, SMT

(* Only the amounts of the members count.                                  *)
LEMMA TotalSame ==
    ASSUME NEW h, NEW k, NEW S, \A x \in S : h[x] = k[x]
    PROVE  Total(h, S) = Total(k, S)
<1>1. Units(h, S) = Units(k, S)
  BY DEF Units
<1> QED
  BY <1>1 DEF Total

(* If only members of C hold something, and each up to c, they hold up to  *)
(* c times as much as there are of them.                                   *)
LEMMA TotalBound ==
    ASSUME NEW h, NEW S, IsFiniteSet(S), NEW C, NEW c \in Nat,
           \A x \in S : h[x] \in Nat /\ h[x] <= c /\ (x \notin C => h[x] = 0)
    PROVE  Total(h, S) <= Cardinality(S \cap C) * c
<1> DEFINE A == (S \cap C) \X (1 .. c)
<1>1. 1 \in Int /\ c \in Int
  BY SMT
<1>2. IsFiniteSet(S \cap C)
  BY FS_Intersection
<1>3. IsFiniteSet(1 .. c) /\ Cardinality(1 .. c) = c
  <2>1. IsFiniteSet(1 .. c) /\ Cardinality(1 .. c) = IF 1 > c THEN 0 ELSE c - 1 + 1
    BY <1>1, FS_Interval
  <2> QED
    BY <2>1, SMT
<1>4. IsFiniteSet(A) /\ Cardinality(A) = Cardinality(S \cap C) * c
  BY <1>2, <1>3, FS_Product
<1>5. Units(h, S) \in SUBSET A
  <2>1. ASSUME NEW x \in S, NEW i \in 1 .. h[x] PROVE x \in C /\ i \in 1 .. c
    BY <2>1, SMT
  <2>2. ASSUME NEW u \in Units(h, S) PROVE u \in A
    <3>1. PICK x \in S : \E i \in 1 .. h[x] : u = <<x, i>>
      BY <2>2, UnitsAre, SMT
    <3>2. PICK i \in 1 .. h[x] : u = <<x, i>>
      BY <3>1
    <3>3. x \in S \cap C /\ i \in 1 .. c
      BY <2>1
    <3> QED
      BY <3>2, <3>3
  <2> QED
    BY <2>2
<1> QED
  BY <1>4, <1>5, FS_Subset DEF Total

----------------------------------------------------------------------------
(* The breakers. *)

(* Where a client's request is counted for its body, and where a search is *)
(* counted for its share.                                                  *)
WithBody == {"over body", "held", "admitted", "sharing", "over share", "running", "answered"}
WithShare == {"over share", "running"}

(* A share is worked out before it is taken, and forgotten when it is      *)
(* given back: elsewhere there is none, so that a search that aggregates   *)
(* nothing holds nothing.                                                  *)
Books ==
    /\ body \in [Request -> Nat]
    /\ share \in [Request -> Nat]
    /\ limit \in Limits
    /\ \A r \in Request : at[r] \notin WithShare \cup {"sharing"} => share[r] = 0
    /\ BreakersAccounted

(* The holders are finitely many. *)
LEMMA Holders ==
    /\ HoldsBody = {r \in Client : at[r] \in WithBody}
    /\ HoldsShare = {r \in Request : at[r] \in WithShare}
    /\ IsFiniteSet(HoldsBody) /\ IsFiniteSet(HoldsShare)
    /\ HoldsBody \in SUBSET Client /\ HoldsShare \in SUBSET Request
<1>1. /\ HoldsBody = {r \in Client : at[r] \in WithBody}
      /\ HoldsShare = {r \in Request : at[r] \in WithShare}
  BY DEF HoldsBody, HoldsShare, WithBody, WithShare
<1>2. HoldsBody \in SUBSET Client /\ HoldsShare \in SUBSET Request
  BY <1>1
<1>3. IsFiniteSet(Client) /\ IsFiniteSet(Request)
  BY AdmissionAssumption, FS_Union DEF Request
<1>4. IsFiniteSet(HoldsBody) /\ IsFiniteSet(HoldsShare)
  BY <1>2, <1>3, FS_Subset
<1> QED
  BY <1>1, <1>2, <1>4

(* Who they are after a step. *)
LEMMA HoldersAfter ==
    /\ HoldsBody' = {r \in Client : at'[r] \in WithBody}
    /\ HoldsShare' = {r \in Request : at'[r] \in WithShare}
BY DEF HoldsBody, HoldsShare, WithBody, WithShare

(* Nobody starts or stops being counted for a body. *)
LEMMA BodiesKept ==
    ASSUME Books, in_flight' = in_flight,
           \A q \in Client : at'[q] \in WithBody <=> at[q] \in WithBody,
           \A q \in Client : at[q] \in WithBody => body'[q] = body[q]
    PROVE  in_flight' = 2 * Total(body', HoldsBody')
<1>1. HoldsBody' = HoldsBody
  <2>1. HoldsBody' = {r \in Client : at'[r] \in WithBody}
    BY HoldersAfter
  <2> QED
    BY <2>1, Holders
<1>2. \A q \in HoldsBody : body[q] = body'[q]
  BY Holders
<1>3. IsFiniteSet(HoldsBody)
  BY Holders
<1>4. Total(body, HoldsBody) = Total(body', HoldsBody)
  BY <1>2, <1>3, TotalSame
<1>5. in_flight = 2 * Total(body, HoldsBody)
  BY DEF Books, BreakersAccounted
<1> QED
  BY <1>1, <1>4, <1>5

(* Nor for a share. *)
LEMMA SharesKept ==
    ASSUME Books, request' = request,
           \A q \in Request : at'[q] \in WithShare <=> at[q] \in WithShare,
           \A q \in Request : at[q] \in WithShare => share'[q] = share[q]
    PROVE  request' = Total(share', HoldsShare')
<1>1. HoldsShare' = HoldsShare
  <2>1. HoldsShare' = {r \in Request : at'[r] \in WithShare}
    BY HoldersAfter
  <2> QED
    BY <2>1, Holders
<1>2. \A q \in HoldsShare : share[q] = share'[q]
  BY Holders
<1>3. IsFiniteSet(HoldsShare)
  BY Holders
<1>4. Total(share, HoldsShare) = Total(share', HoldsShare)
  BY <1>2, <1>3, TotalSame
<1>5. request = Total(share, HoldsShare)
  BY DEF Books, BreakersAccounted
<1> QED
  BY <1>1, <1>4, <1>5

(* The body of r is counted from here on. *)
LEMMA BodyTaken ==
    ASSUME Shape, Books, NEW r \in Client, NEW w \in WithBody, at[r] \notin WithBody,
           at' = [at EXCEPT ![r] = w], body' = body, in_flight' = in_flight + 2 * body[r]
    PROVE  /\ in_flight' = 2 * Total(body', HoldsBody')
           /\ IsFiniteSet(HoldsBody') /\ \A q \in HoldsBody' : body[q] \in Nat
<1>1. \A q \in Client : at'[q] = IF q = r THEN w ELSE at[q]
  BY DEF Shape, Request
<1>2. HoldsBody' = {q \in Client : at'[q] \in WithBody}
  BY HoldersAfter
<1>3. HoldsBody' = HoldsBody \cup {r} /\ r \notin HoldsBody
  BY <1>1, <1>2, Holders
<1>4. IsFiniteSet(HoldsBody \cup {r})
  BY Holders, FS_AddElement
<1>5. \A q \in HoldsBody \cup {r} : body[q] \in Nat
  BY Holders DEF Books, Request
<1>6. (HoldsBody \cup {r}) \ {r} = HoldsBody /\ r \in HoldsBody \cup {r}
  BY <1>3
<1>7. Total(body, HoldsBody \cup {r}) = body[r] + Total(body, (HoldsBody \cup {r}) \ {r})
  BY <1>4, <1>5, <1>6, TotalTake, SMT
<1>8. Total(body, HoldsBody) \in Nat /\ body[r] \in Nat
  BY <1>5, Holders, TotalNat
<1>9. in_flight = 2 * Total(body, HoldsBody)
  BY DEF Books, BreakersAccounted
<1> HIDE DEF HoldsBody
<1>10. in_flight' = 2 * Total(body, HoldsBody \cup {r})
  <2>1. PICK x \in Nat, y \in Nat : x = Total(body, HoldsBody) /\ y = body[r]
    BY <1>8
  <2>2. Total(body, HoldsBody \cup {r}) = y + x
    BY <1>6, <1>7, <2>1
  <2> QED
    BY <1>9, <2>1, <2>2, SMT
<1> QED
  BY <1>3, <1>4, <1>5, <1>10

(* The body of r is not counted any more. *)
LEMMA BodyGivenBack ==
    ASSUME Shape, Books, NEW r \in Client, NEW w \in Places, w \notin WithBody,
           at[r] \in WithBody,
           at' = [at EXCEPT ![r] = w], body' = body, in_flight' = in_flight - 2 * body[r]
    PROVE  in_flight' = 2 * Total(body', HoldsBody')
<1>1. \A q \in Client : at'[q] = IF q = r THEN w ELSE at[q]
  BY DEF Shape, Request
<1>2. HoldsBody' = {q \in Client : at'[q] \in WithBody}
  BY HoldersAfter
<1>3. HoldsBody' = HoldsBody \ {r} /\ r \in HoldsBody
  BY <1>1, <1>2, Holders
<1>4. IsFiniteSet(HoldsBody \ {r}) /\ IsFiniteSet(HoldsBody)
  BY Holders, FS_Subset
<1>5. \A q \in HoldsBody : body[q] \in Nat
  BY Holders DEF Books, Request
<1>6. Total(body, HoldsBody) = body[r] + Total(body, HoldsBody \ {r})
  BY <1>3, <1>4, <1>5, TotalTake, SMT
<1>7. Total(body, HoldsBody \ {r}) \in Nat /\ body[r] \in Nat
  BY <1>3, <1>4, <1>5, TotalNat
<1>8. in_flight = 2 * Total(body, HoldsBody)
  BY DEF Books, BreakersAccounted
<1> HIDE DEF HoldsBody
<1>9. in_flight' = 2 * Total(body, HoldsBody \ {r})
  BY <1>6, <1>7, <1>8, SMT
<1> QED
  BY <1>3, <1>9

(* A share is counted from here on: that of a search that reserves it, or  *)
(* of one that has none.                                                   *)
LEMMA ShareTaken ==
    ASSUME Shape, Books, NEW r \in Request, NEW w \in WithShare, at[r] \notin WithShare,
           at' = [at EXCEPT ![r] = w], share' = share, request' = request + share[r]
    PROVE  /\ request' = Total(share', HoldsShare')
           /\ IsFiniteSet(HoldsShare') /\ \A q \in HoldsShare' : share[q] \in Nat
<1>1. \A q \in Request : at'[q] = IF q = r THEN w ELSE at[q]
  BY DEF Shape
<1>2. HoldsShare' = {q \in Request : at'[q] \in WithShare}
  BY HoldersAfter
<1>3. HoldsShare' = HoldsShare \cup {r} /\ r \notin HoldsShare
  BY <1>1, <1>2, Holders
<1>4. IsFiniteSet(HoldsShare \cup {r})
  BY Holders, FS_AddElement
<1>5. \A q \in HoldsShare \cup {r} : share[q] \in Nat
  BY Holders DEF Books
<1>6. (HoldsShare \cup {r}) \ {r} = HoldsShare /\ r \in HoldsShare \cup {r}
  BY <1>3
<1>7. Total(share, HoldsShare \cup {r}) = share[r] + Total(share, (HoldsShare \cup {r}) \ {r})
  BY <1>4, <1>5, <1>6, TotalTake, SMT
<1>8. Total(share, HoldsShare) \in Nat /\ share[r] \in Nat
  BY <1>5, Holders, TotalNat
<1>9. request = Total(share, HoldsShare)
  BY DEF Books, BreakersAccounted
<1> HIDE DEF HoldsShare
<1>10. request' = Total(share, HoldsShare \cup {r})
  <2>1. PICK x \in Nat, y \in Nat : x = Total(share, HoldsShare) /\ y = share[r]
    BY <1>8
  <2>2. Total(share, HoldsShare \cup {r}) = y + x
    BY <1>6, <1>7, <2>1
  <2> QED
    BY <1>9, <2>1, <2>2, SMT
<1> QED
  BY <1>3, <1>4, <1>5, <1>10

(* A share is not counted any more. *)
LEMMA ShareGivenBack ==
    ASSUME Shape, Books, NEW r \in Request, NEW w \in Places, w \notin WithShare,
           at[r] \in WithShare, at' = [at EXCEPT ![r] = w],
           share' = [share EXCEPT ![r] = 0], request' = request - share[r]
    PROVE  request' = Total(share', HoldsShare')
<1>1. \A q \in Request : at'[q] = IF q = r THEN w ELSE at[q]
  BY DEF Shape
<1>2. HoldsShare' = {q \in Request : at'[q] \in WithShare}
  BY HoldersAfter
<1>3. HoldsShare' = HoldsShare \ {r} /\ r \in HoldsShare
  BY <1>1, <1>2, Holders
<1>4. IsFiniteSet(HoldsShare \ {r}) /\ IsFiniteSet(HoldsShare)
  BY Holders, FS_Subset
<1>5. \A q \in HoldsShare : share[q] \in Nat
  BY Holders DEF Books
<1>6. Total(share, HoldsShare) = share[r] + Total(share, HoldsShare \ {r})
  BY <1>3, <1>4, <1>5, TotalTake, SMT
<1>7. Total(share, HoldsShare \ {r}) \in Nat /\ share[r] \in Nat
  BY <1>3, <1>4, <1>5, TotalNat
<1>8. request = Total(share, HoldsShare)
  BY DEF Books, BreakersAccounted
<1>9. \A q \in HoldsShare \ {r} : share[q] = share'[q]
  BY Holders DEF Books
<1>10. Total(share, HoldsShare \ {r}) = Total(share', HoldsShare \ {r})
  <2> DEFINE S == HoldsShare \ {r}
  <2>1. IsFiniteSet(S) /\ \A q \in S : share[q] = share'[q]
    BY <1>4, <1>9
  <2> HIDE DEF S
  <2>2. ASSUME NEW g, \A q \in S : share[q] = g[q]
        PROVE  Total(share, S) = Total(g, S)
    BY <2>1, <2>2, TotalSame, SMT
  <2>3. Total(share, S) = Total(share', S)
    BY <2>1, <2>2
  <2> QED
    BY <2>3 DEF S
<1> HIDE DEF HoldsShare
<1>11. request' = Total(share', HoldsShare \ {r})
  BY <1>6, <1>7, <1>8, <1>10, SMT
<1> QED
  BY <1>3, <1>11

(* What a step leaves of Books to show when it changes no more of the      *)
(* amounts than that of r.                                                 *)
LEMMA BooksFrom ==
    ASSUME body' \in [Request -> Nat], share' \in [Request -> Nat], limit' \in Limits,
           \A q \in Request : at'[q] \notin WithShare \cup {"sharing"} => share'[q] = 0,
           in_flight' = 2 * Total(body', HoldsBody'), request' = Total(share', HoldsShare')
    PROVE  Books'
BY DEF Books, BreakersAccounted

(* Nothing the breakers count changes hands. *)
LEMMA BooksKept ==
    ASSUME Books, UNCHANGED <<body, share, in_flight, request>>, limit' \in Limits,
           \A q \in Request : at'[q] = at[q] \/
               /\ at[q] \in WithBody <=> at'[q] \in WithBody
               /\ at[q] \notin WithShare \cup {"sharing"}
               /\ at'[q] \notin WithShare \cup {"sharing"}
    PROVE  Books'
<1>1. in_flight' = 2 * Total(body', HoldsBody')
  BY BodiesKept DEF Request
<1>2. request' = Total(share', HoldsShare')
  BY SharesKept
<1>3. \A q \in Request : at'[q] \notin WithShare \cup {"sharing"} => share'[q] = 0
  BY DEF Books
<1>4. body' \in [Request -> Nat] /\ share' \in [Request -> Nat]
  BY DEF Books
<1> QED
  BY <1>1, <1>2, <1>3, <1>4, BooksFrom

(* A request moves on and nothing the breakers count changes hands. *)
LEMMA BooksMoved ==
    ASSUME Shape, Books, NEW r \in Request, NEW w \in Places, at' = [at EXCEPT ![r] = w],
           UNCHANGED <<body, share, in_flight, request>>, limit' = limit,
           at[r] \in WithBody <=> w \in WithBody,
           at[r] \notin WithShare \cup {"sharing"}, w \notin WithShare \cup {"sharing"}
    PROVE  Books'
<1>1. \A q \in Request : at'[q] = IF q = r THEN w ELSE at[q]
  BY DEF Shape
<1>2. limit' \in Limits
  BY DEF Books
<1> QED
  BY <1>1, <1>2, BooksKept

(* A request arrives, with a body nothing counts yet. *)
LEMMA ArriveBooks ==
    ASSUME Shape, Books, NEW r \in Client, NEW size \in Nat, Arrive(r, size)
    PROVE  Books'
<1>1. /\ r \in Request /\ at[r] = "away" /\ body' = [body EXCEPT ![r] = size]
      /\ UNCHANGED <<share, in_flight, request, limit>>
  BY DEF Arrive, Request
<1>2. \A q \in Request : at'[q] = at[q] \/ (q = r /\ at'[q] \in {"placed", "full"})
  BY <1>1 DEF Arrive, Shape
<1>3. \A q \in Request : q # r => body'[q] = body[q]
  BY <1>1 DEF Books
<1>4. in_flight' = 2 * Total(body', HoldsBody')
  <2>1. \A q \in Client : at'[q] \in WithBody <=> at[q] \in WithBody
    BY <1>1, <1>2 DEF Request, WithBody
  <2>2. \A q \in Client : at[q] \in WithBody => body'[q] = body[q]
    BY <1>1, <1>3 DEF Request, WithBody
  <2> QED
    BY <1>1, <2>1, <2>2, BodiesKept
<1>5. request' = Total(share', HoldsShare')
  <2>1. \A q \in Request : at'[q] \in WithShare <=> at[q] \in WithShare
    BY <1>1, <1>2 DEF WithShare
  <2> QED
    BY <1>1, <2>1, SharesKept
<1>6. \A q \in Request : at'[q] \notin WithShare \cup {"sharing"} => share'[q] = 0
  BY <1>1, <1>2 DEF Books, WithShare
<1>7. body' \in [Request -> Nat] /\ share' \in [Request -> Nat] /\ limit' \in Limits
  BY <1>1 DEF Books
<1> QED
  BY <1>4, <1>5, <1>6, <1>7, BooksFrom

(* What an aggregating search may take is a number. *)
LEMMA PerSearchNat == ASSUME Books PROVE PerSearch \in Nat
<1>1. limit \in Nat /\ AtOnce \in Nat /\ AtOnce > 0
  BY AdmissionAssumption, SMT DEF Books
<1> QED
  BY <1>1, SMT DEF PerSearch

(* A share is worked out, and not counted yet. *)
LEMMA TakeShareBooks ==
    ASSUME Shape, Books, NEW r \in Request, TakeShare(r)
    PROVE  Books'
<1>1. /\ at' = [at EXCEPT ![r] = "sharing"] /\ share' = [share EXCEPT ![r] = PerSearch]
      /\ UNCHANGED <<body, in_flight, request, limit>>
      /\ at[r] \notin WithShare /\ (r \in Client => at[r] \in WithBody)
  BY AdmissionAssumption DEF TakeShare, WithShare, WithBody
<1>2. \A q \in Request : at'[q] = IF q = r THEN "sharing" ELSE at[q]
  BY <1>1 DEF Shape
<1>3. \A q \in Request : q # r => share'[q] = share[q]
  BY <1>1 DEF Books
<1>4. in_flight' = 2 * Total(body', HoldsBody')
  <2>1. \A q \in Client : at'[q] \in WithBody <=> at[q] \in WithBody
    BY <1>1, <1>2 DEF Request, WithBody
  <2> QED
    BY <1>1, <2>1, BodiesKept
<1>5. request' = Total(share', HoldsShare')
  <2>0. "sharing" \notin WithShare
    BY DEF WithShare
  <2>1. \A q \in Request : at'[q] \in WithShare <=> at[q] \in WithShare
    BY <1>1, <1>2, <2>0
  <2>2. \A q \in Request : at[q] \in WithShare => share'[q] = share[q]
    BY <1>1, <1>3
  <2>3. request' = request
    BY <1>1
  <2> QED
    BY <2>1, <2>2, <2>3, SharesKept
<1>6. \A q \in Request : at'[q] \notin WithShare \cup {"sharing"} => share'[q] = 0
  BY <1>2, <1>3 DEF Books
<1>7. body' \in [Request -> Nat] /\ share' \in [Request -> Nat] /\ limit' \in Limits
  BY <1>1, PerSearchNat DEF Books
<1> QED
  BY <1>4, <1>5, <1>6, <1>7, BooksFrom

(* A body is counted, refused, or given back. *)
LEMMA BodyBooks ==
    ASSUME Shape, Books, NEW r \in Request, ReserveBody(r) \/ RefuseBody(r) \/ DropBody(r)
    PROVE  Books'
<1>1. /\ r \in Client /\ UNCHANGED <<body, share, request, limit>>
      /\ at[r] \in {"placed", "over body", "answered"}
  BY DEF Shape, Request, ReserveBody, RefuseBody, DropBody
<1>2. PICK w \in Places : at' = [at EXCEPT ![r] = w] /\ w \in {"over body", "held", "leaving"}
  BY DEF ReserveBody, RefuseBody, DropBody, Places, Inside
<1>3. \A q \in Request : at'[q] = IF q = r THEN w ELSE at[q]
  BY <1>2 DEF Shape
<1>4. in_flight' = 2 * Total(body', HoldsBody')
  <2>1. CASE ReserveBody(r)
    <3>1. w \in WithBody /\ at[r] \notin WithBody /\ in_flight' = in_flight + 2 * body[r]
      BY <1>2, <1>3, <2>1 DEF ReserveBody, Want, WithBody, Shape
    <3> QED
      BY <1>1, <1>2, <3>1, BodyTaken
  <2>2. CASE RefuseBody(r) \/ DropBody(r)
    <3>1. w \notin WithBody /\ at[r] \in WithBody /\ in_flight' = in_flight - 2 * body[r]
      BY <1>2, <1>3, <2>2 DEF RefuseBody, DropBody, Want, WithBody, Shape
    <3> QED
      BY <1>1, <1>2, <3>1, BodyGivenBack
  <2> QED
    BY <2>1, <2>2
<1>5. request' = Total(share', HoldsShare')
  <2>1. \A q \in Request : at'[q] \in WithShare <=> at[q] \in WithShare
    BY <1>1, <1>2, <1>3 DEF WithShare
  <2> QED
    BY <1>1, <2>1, SharesKept
<1>6. \A q \in Request : at'[q] \notin WithShare \cup {"sharing"} => share'[q] = 0
  BY <1>1, <1>2, <1>3 DEF Books, WithShare
<1>7. body' \in [Request -> Nat] /\ share' \in [Request -> Nat] /\ limit' \in Limits
  BY <1>1 DEF Books
<1> QED
  BY <1>4, <1>5, <1>6, <1>7, BooksFrom

(* A share is counted; so is the one a search without aggregations has,    *)
(* which is nothing.                                                       *)
LEMMA ShareBooks ==
    ASSUME Shape, Books, NEW r \in Request, ReserveShare(r) \/ SearchOnly(r)
    PROVE  Books'
<1>1. /\ UNCHANGED <<body, share, in_flight, limit>>
      /\ at[r] \in {"sharing", "admitted"}
  BY DEF ReserveShare, SearchOnly
<1>2. PICK w \in WithShare : at' = [at EXCEPT ![r] = w]
  BY DEF ReserveShare, SearchOnly, WithShare
<1>3. \A q \in Request : at'[q] = IF q = r THEN w ELSE at[q]
  BY <1>2 DEF Shape
<1>4. request' = request + share[r]
  <2>1. CASE ReserveShare(r)
    BY <2>1 DEF ReserveShare
  <2>2. CASE SearchOnly(r)
    <3>1. request' = request /\ share[r] = 0
      BY <2>2 DEF SearchOnly, Books, WithShare
    <3>2. request \in Nat
      <4>1. IsFiniteSet(HoldsShare) /\ \A q \in HoldsShare : share[q] \in Nat
        BY Holders DEF Books
      <4>2. Total(share, HoldsShare) \in Nat
        BY <4>1, TotalNat
      <4> QED
        BY <4>2 DEF Books, BreakersAccounted
    <3> QED
      BY <3>1, <3>2, SMT
  <2> QED
    BY <2>1, <2>2
<1>5. request' = Total(share', HoldsShare')
  <2>1. at[r] \notin WithShare
    BY <1>1 DEF WithShare
  <2> QED
    BY <1>1, <1>2, <1>4, <2>1, ShareTaken
<1>6. in_flight' = 2 * Total(body', HoldsBody')
  <2>1. \A q \in Client : at'[q] \in WithBody <=> at[q] \in WithBody
    BY <1>1, <1>3 DEF Request, WithBody, WithShare
  <2> QED
    BY <1>1, <2>1, BodiesKept
<1>7. \A q \in Request : at'[q] \notin WithShare \cup {"sharing"} => share'[q] = 0
  BY <1>1, <1>3 DEF Books
<1>8. body' \in [Request -> Nat] /\ share' \in [Request -> Nat] /\ limit' \in Limits
  BY <1>1 DEF Books
<1> QED
  BY <1>5, <1>6, <1>7, <1>8, BooksFrom

(* A share is given back. *)
LEMMA DropShareBooks ==
    ASSUME Shape, Books, NEW r \in Request, DropShare(r)
    PROVE  Books'
<1>1. /\ UNCHANGED <<body, in_flight, limit>> /\ share' = [share EXCEPT ![r] = 0]
      /\ at[r] \in WithShare /\ request' = request - share[r]
  BY DEF DropShare, WithShare
<1>2. PICK w \in Places : /\ at' = [at EXCEPT ![r] = w] /\ w \notin WithShare
                          /\ r \in Client => w \in WithBody
  <2>1. at' = [at EXCEPT ![r] = Over(r)]
    BY DEF DropShare
  <2>2. /\ Over(r) \in Places /\ Over(r) \notin WithShare
        /\ r \in Client => Over(r) \in WithBody
    BY DEF Over, Places, WithShare, WithBody, Inside
  <2> QED
    BY <2>1, <2>2
<1>3. \A q \in Request : at'[q] = IF q = r THEN w ELSE at[q]
  BY <1>2 DEF Shape
<1>4. \A q \in Request : share'[q] = IF q = r THEN 0 ELSE share[q]
  BY <1>1 DEF Books
<1>5. request' = Total(share', HoldsShare')
  <2>1. /\ at' = [at EXCEPT ![r] = w] /\ w \notin WithShare /\ at[r] \in WithShare
        /\ share' = [share EXCEPT ![r] = 0] /\ request' = request - share[r]
    BY <1>1, <1>2
  <2> QED
    BY <2>1, ShareGivenBack
<1>6. in_flight' = 2 * Total(body', HoldsBody')
  <2>1. \A q \in Client : at'[q] \in WithBody <=> at[q] \in WithBody
    BY <1>1, <1>2, <1>3 DEF Request, WithBody, WithShare
  <2> QED
    BY <1>1, <2>1, BodiesKept
<1>7. \A q \in Request : at'[q] \notin WithShare \cup {"sharing"} => share'[q] = 0
  BY <1>3, <1>4 DEF Books
<1>8. body' \in [Request -> Nat] /\ share' \in [Request -> Nat] /\ limit' \in Limits
  BY <1>1 DEF Books
<1> QED
  BY <1>5, <1>6, <1>7, <1>8, BooksFrom

(* A place given back moves its holder out and the first of the line in. *)
LEMMA ReleaseMoves ==
    ASSUME Shape, Line, NEW r \in Client, at[r] # "waiting", Release(r)
    PROVE  /\ at'[r] = "away"
           /\ \A q \in Request : q # r => at'[q] = at[q]
                                          \/ (at[q] = "waiting" /\ at'[q] = "handed")
<1>1. CASE line = <<>>
  BY <1>1 DEF Release, Shape, Request
<1>2. CASE line # <<>>
  <2>1. line \in Seq(Client) /\ r \in Request
    BY DEF Shape, Request
  <2>2. Head(line) \in Client /\ 1 \in 1 .. Len(line) /\ line[1] = Head(line)
    BY <1>2, <2>1, SMT
  <2>3. PICK h \in Request : h = Head(line) /\ at[h] = "waiting"
    BY <2>2 DEF Line, Request
  <2>4. at' = [[at EXCEPT ![r] = "away"] EXCEPT ![h] = "handed"]
    BY <1>2, <2>3 DEF Release
  <2> QED
    BY <2>1, <2>3, <2>4 DEF Shape
<1> QED
  BY <1>1, <1>2

(* A request leaves, or its client does, with nothing counted any more.    *)
LEMMA LeaveBooks ==
    ASSUME Shape, Line, Books, NEW r \in Client, Leave(r) \/ HangUp(r)
    PROVE  Books'
<1>0. /\ UNCHANGED <<body, share, in_flight, request, limit>> /\ r \in Request
      /\ limit' \in Limits
  BY DEF Leave, HangUp, Request, Books
<1>1. CASE at[r] \in {"leaving", "handed"}
  <2>1. Release(r)
    BY <1>1 DEF Leave, HangUp
  <2>2. /\ at'[r] = "away"
        /\ \A q \in Request : q # r => at'[q] = at[q]
                                       \/ (at[q] = "waiting" /\ at'[q] = "handed")
    BY <1>1, <2>1, ReleaseMoves
  <2>3. \A q \in Request : at'[q] = at[q] \/
               /\ at[q] \in WithBody <=> at'[q] \in WithBody
               /\ at[q] \notin WithShare \cup {"sharing"}
               /\ at'[q] \notin WithShare \cup {"sharing"}
    BY <1>1, <2>2 DEF WithBody, WithShare
  <2> QED
    BY <1>0, <2>3, BooksKept
<1>2. CASE at[r] = "waiting"
  <2>1. PICK w \in Places : w = "away"
    BY DEF Places
  <2>2. /\ at' = [at EXCEPT ![r] = w]
        /\ at[r] \in WithBody <=> w \in WithBody
        /\ at[r] \notin WithShare \cup {"sharing"} /\ w \notin WithShare \cup {"sharing"}
    BY <1>2, <2>1 DEF HangUp, Leave, WithBody, WithShare
  <2> QED
    BY <1>0, <2>2, BooksMoved
<1>3. CASE at[r] = "admitted"
  <2>1. PICK w \in Places : w = "answered"
    BY DEF Places, Inside
  <2>2. /\ at' = [at EXCEPT ![r] = w]
        /\ at[r] \in WithBody <=> w \in WithBody
        /\ at[r] \notin WithShare \cup {"sharing"} /\ w \notin WithShare \cup {"sharing"}
    BY <1>3, <2>1 DEF HangUp, Leave, WithBody, WithShare
  <2> QED
    BY <1>0, <2>2, BooksMoved
<1> QED
  BY <1>1, <1>2, <1>3 DEF Leave, HangUp

(* The steps between a place and the next counter. *)
LEMMA QueueBooks ==
    ASSUME Shape, Books, NEW r \in Request,
           \/ LookAtQueue(r) \/ JoinQueue(r) \/ LeaveQueue(r)
           \/ \E real \in RealMemory : CheckParent(r, real)
    PROVE  Books'
<1>1. UNCHANGED <<body, share, in_flight, request, limit>>
  BY DEF LookAtQueue, JoinQueue, LeaveQueue, CheckParent
<1>2. PICK w \in Places :
        /\ at' = [at EXCEPT ![r] = w]
        /\ at[r] \in WithBody <=> w \in WithBody
        /\ at[r] \notin WithShare \cup {"sharing"} /\ w \notin WithShare \cup {"sharing"}
  <2>1. CASE LookAtQueue(r)
    <3>1. PICK w \in Places : w = IF waiting >= Room THEN "away" ELSE "queueing"
      BY DEF Places
    <3>2. at' = [at EXCEPT ![r] = w] /\ at[r] = "full" /\ w \in {"away", "queueing"}
      BY <2>1, <3>1 DEF LookAtQueue
    <3> QED
      BY <3>2 DEF WithBody, WithShare
  <2>2. CASE JoinQueue(r)
    <3>1. PICK w \in Places : w = IF places > 0 THEN "handed" ELSE "waiting"
      BY DEF Places, Inside
    <3>2. at' = [at EXCEPT ![r] = w] /\ at[r] = "queueing" /\ w \in {"handed", "waiting"}
      BY <2>2, <3>1 DEF JoinQueue
    <3> QED
      BY <3>2 DEF WithBody, WithShare
  <2>3. CASE LeaveQueue(r)
    <3>1. PICK w \in Places : w = "placed"
      BY DEF Places, Inside
    <3>2. at' = [at EXCEPT ![r] = w] /\ at[r] = "handed"
      BY <2>3, <3>1 DEF LeaveQueue
    <3> QED
      BY <3>1, <3>2 DEF WithBody, WithShare
  <2>4. CASE \E real \in RealMemory : CheckParent(r, real)
    <3>0. PICK real \in RealMemory : CheckParent(r, real)
      BY <2>4
    <3>1. PICK w \in Places :
            w = IF ParentUsed(real) > ParentLimit THEN "answered" ELSE "admitted"
      BY DEF Places, Inside
    <3>2. at' = [at EXCEPT ![r] = w] /\ at[r] = "held" /\ w \in {"answered", "admitted"}
      BY <3>0, <3>1 DEF CheckParent
    <3> QED
      BY <3>2 DEF WithBody, WithShare
  <2> QED
    BY <2>1, <2>2, <2>3, <2>4
<1> QED
  BY <1>1, <1>2, BooksMoved

(* Nothing is held at first. *)
LEMMA StartBooks == Init => Books
<1> SUFFICES ASSUME Init PROVE Books
  OBVIOUS
<1>1. HoldsBody = {} /\ HoldsShare = {}
  BY DEF Init, HoldsBody, HoldsShare, Request
<1>2. BreakersAccounted
  BY <1>1, TotalEmpty, SMT DEF Init, BreakersAccounted
<1> QED
  BY <1>2 DEF Init, Books

(* Every step keeps the books. *)
LEMMA StepBooks == PoolInv /\ Books /\ [Next]_vars => Books'
<1> SUFFICES ASSUME PoolInv, Books, [Next]_vars PROVE Books'
  OBVIOUS
<1>0. Shape /\ Line /\ \A r \in Remote : r \in Request /\ at[r] # "leaving"
  BY DEF PoolInv, Shape, Request
<1>1. CASE \E r \in Client : \E size \in Bodies[r] : Arrive(r, size)
  <2>1. PICK r \in Client : \E size \in Bodies[r] : Arrive(r, size)
    BY <1>1
  <2>2. PICK size \in Bodies[r] : Arrive(r, size)
    BY <2>1
  <2>3. size \in Nat
    BY AdmissionAssumption
  <2> QED
    BY <1>0, <2>2, <2>3, ArriveBooks
<1>2. CASE \E r \in Remote : TakeShare(r)
  BY <1>0, <1>2, TakeShareBooks
<1>3. ASSUME NEW r \in Request, Proceed(r)
      PROVE  Books'
  <2>1. CASE Leave(r)
    <3>1. r \in Client
      BY <1>0, <2>1 DEF Leave, Request
    <3> QED
      BY <1>0, <2>1, <3>1, LeaveBooks
  <2>2. CASE LookAtQueue(r) \/ JoinQueue(r) \/ LeaveQueue(r)
             \/ \E real \in RealMemory : CheckParent(r, real)
    BY <1>0, <2>2, QueueBooks
  <2>3. CASE ReserveBody(r) \/ RefuseBody(r) \/ DropBody(r)
    BY <1>0, <2>3, BodyBooks
  <2>4. CASE TakeShare(r)
    BY <1>0, <2>4, TakeShareBooks
  <2>5. CASE ReserveShare(r) \/ SearchOnly(r)
    BY <1>0, <2>5, ShareBooks
  <2>6. CASE DropShare(r)
    BY <1>0, <2>6, DropShareBooks
  <2> QED
    BY <1>3, <2>1, <2>2, <2>3, <2>4, <2>5, <2>6 DEF Proceed
<1>4. CASE \E r \in Client : HangUp(r)
  BY <1>0, <1>4, LeaveBooks
<1>5. CASE (\E l \in Limits : SetLimit(l)) \/ UNCHANGED vars
  <2>1. UNCHANGED <<at, body, share, in_flight, request>> /\ limit' \in Limits
    BY <1>5 DEF SetLimit, vars, Books
  <2> QED
    BY <2>1, BooksKept
<1> QED
  BY <1>1, <1>2, <1>3, <1>4, <1>5 DEF Next

(* No breaker drifts, whatever was taken, refused, given back or hung up   *)
(* on and in which order, for any number of requests and sizes of bodies   *)
(* (breaker.rs reserve, and the Drop of Reservation).                      *)
THEOREM BreakersCorrect == Spec => []BreakersAccounted
<1>1. Init => PoolInv /\ Books
  BY Start, StartBooks
<1>2. PoolInv /\ Books /\ [Next]_vars => PoolInv' /\ Books'
  BY Step, StepBooks
<1>3. Books => BreakersAccounted
  BY DEF Books
<1> QED
  BY <1>1, <1>2, <1>3, PTL DEF Spec

(* Every variable keeps its type: what the breakers and the queue count    *)
(* never goes below zero, and no place is given back twice.                *)
THEOREM TypeCorrect == Spec => []TypeOK
<1>1. Init => PoolInv /\ Books
  BY Start, StartBooks
<1>2. PoolInv /\ Books /\ [Next]_vars => PoolInv' /\ Books'
  BY Step, StepBooks
<1>3. ASSUME PoolInv, Books PROVE TypeOK
  <2>1. places \in 0 .. AtOnce /\ waiting \in Nat
    <3>1. /\ places \in Nat /\ places + Cardinality(HoldsPlace) = AtOnce
          /\ waiting = Cardinality(Queued)
      BY <1>3 DEF PoolInv, PoolAccounted, Shape
    <3>2. Cardinality(HoldsPlace) \in Nat /\ Cardinality(Queued) \in Nat /\ AtOnce \in Nat
      BY Finite, AdmissionAssumption
    <3> QED
      BY <3>1, <3>2, SMT
  <2>2. in_flight \in Nat /\ request \in Nat
    <3>1. /\ IsFiniteSet(HoldsBody) /\ \A q \in HoldsBody : body[q] \in Nat
          /\ IsFiniteSet(HoldsShare) /\ \A q \in HoldsShare : share[q] \in Nat
      BY <1>3, Holders DEF Books, Request
    <3>2. Total(body, HoldsBody) \in Nat /\ Total(share, HoldsShare) \in Nat
      BY <3>1, TotalNat
    <3> QED
      BY <1>3, <3>2, SMT DEF Books, BreakersAccounted
  <2> QED
    BY <1>3, <2>1, <2>2 DEF TypeOK, PoolInv, Shape, Books
<1> QED
  BY <1>1, <1>2, <1>3, PTL DEF Spec

----------------------------------------------------------------------------
(* What is granted. *)

(* A request that has a place and no body counted, or a share worked out,  *)
(* moves by its own reservation only.                                      *)
LEMMA OwnStep ==
    ASSUME PoolInv, [Next]_vars, NEW q \in Request, at'[q] # at[q]
    PROVE  /\ at[q] = "sharing" => ReserveShare(q)
           /\ at[q] = "placed" => ReserveBody(q)
<1>0. Shape /\ Line /\ at \in [Request -> Places]
  BY DEF PoolInv, Shape
<1>1. CASE \E r \in Client : \E size \in Bodies[r] : Arrive(r, size)
  <2>1. PICK r \in Client : \E size \in Bodies[r] : Arrive(r, size)
    BY <1>1
  <2>2. r \in Request /\ at[r] = "away" /\ \A p \in Request : p # r => at'[p] = at[p]
    BY <1>0, <2>1 DEF Arrive, Request
  <2> QED
    BY <2>2
<1>2. CASE \E r \in Remote : TakeShare(r)
  <2>1. PICK r \in Remote : TakeShare(r)
    BY <1>2
  <2>2. at[r] \in {"away", "admitted"} /\ \A p \in Request : p # r => at'[p] = at[p]
    BY <1>0, <2>1 DEF TakeShare, Request
  <2> QED
    BY <2>2
<1>3. ASSUME NEW r \in Client, Release(r), at[r] \in {"leaving", "handed"}
      PROVE  at[q] \notin {"sharing", "placed"}
  <2>1. \A p \in Request : p # r => at'[p] = at[p] \/ at[p] = "waiting"
    BY <1>0, <1>3, ReleaseMoves
  <2> QED
    BY <1>3, <2>1
<1>4. ASSUME NEW r \in Request, Proceed(r)
      PROVE  /\ at[q] = "sharing" => ReserveShare(q)
             /\ at[q] = "placed" => ReserveBody(q)
  <2>1. CASE Leave(r)
    <3>1. r \in Client /\ at[r] = "leaving" /\ Release(r)
      BY <1>0, <2>1 DEF Leave, Shape, Request
    <3> QED
      BY <1>3, <3>1
  <2>2. CASE ~Leave(r)
    <3>1. \A p \in Request : p # r => at'[p] = at[p]
      BY <1>0, <1>4, <2>2 DEF Proceed, LookAtQueue, JoinQueue, LeaveQueue, ReserveBody,
         RefuseBody, CheckParent, TakeShare, ReserveShare, SearchOnly, DropShare, DropBody
    <3>2. \/ at[r] \notin {"sharing", "placed"}
          \/ at[r] = "sharing" /\ ReserveShare(r)
          \/ at[r] = "placed" /\ ReserveBody(r)
      BY <1>4, <2>2 DEF Proceed, LookAtQueue, JoinQueue, LeaveQueue, ReserveBody,
         RefuseBody, CheckParent, TakeShare, ReserveShare, SearchOnly, DropShare, DropBody
    <3> QED
      BY <3>1, <3>2
  <2> QED
    BY <2>1, <2>2
<1>5. CASE \E r \in Client : HangUp(r)
  <2>1. PICK r \in Client : HangUp(r)
    BY <1>5
  <2>2. CASE at[r] = "handed"
    <3>1. Release(r)
      BY <2>1, <2>2 DEF HangUp
    <3> QED
      BY <1>3, <2>2, <3>1
  <2>3. CASE at[r] # "handed"
    <3>1. at[r] \in {"waiting", "admitted"} /\ \A p \in Request : p # r => at'[p] = at[p]
      BY <1>0, <2>1, <2>3 DEF HangUp, Request
    <3> QED
      BY <3>1
  <2> QED
    BY <2>2, <2>3
<1>6. CASE (\E l \in Limits : SetLimit(l)) \/ UNCHANGED vars
  <2>1. at' = at
    BY <1>6 DEF SetLimit, vars
  <2> QED
    BY <2>1
<1> QED
  BY <1>1, <1>2, <1>4, <1>5, <1>6 DEF Next

(* The share r reserves is counted together with the others'. *)
LEMMA SharesTogether ==
    ASSUME Shape, Books, NEW r \in Request, ReserveShare(r)
    PROVE  /\ request' = Total(share, HoldsShare')
           /\ IsFiniteSet(HoldsShare') /\ \A q \in HoldsShare' : share[q] \in Nat
           /\ request' \in Nat
           /\ \A q \in Request : at'[q] = IF q = r THEN at'[r] ELSE at[q]
           /\ at'[r] = IF request' > limit THEN "over share" ELSE "running"
           /\ at[r] = "sharing"
<1>1. /\ share' = share /\ at[r] = "sharing" /\ request' = request + share[r]
      /\ at' = [at EXCEPT ![r] = IF request' > limit THEN "over share" ELSE "running"]
  BY DEF ReserveShare
<1>2. PICK w \in WithShare : w = IF request' > limit THEN "over share" ELSE "running"
  BY DEF WithShare
<1>3. at' = [at EXCEPT ![r] = w] /\ at[r] \notin WithShare
  BY <1>1, <1>2 DEF WithShare
<1>4. /\ request' = Total(share', HoldsShare')
      /\ IsFiniteSet(HoldsShare') /\ \A q \in HoldsShare' : share[q] \in Nat
  BY <1>1, <1>3, ShareTaken
<1>5. Total(share, HoldsShare') \in Nat
  <2>1. PICK S : S = HoldsShare'
    OBVIOUS
  <2> QED
    BY <1>4, <2>1, TotalNat
<1>6. \A q \in Request : at'[q] = IF q = r THEN w ELSE at[q]
  BY <1>3 DEF Shape
<1> QED
  BY <1>1, <1>2, <1>4, <1>5, <1>6

(* The reservations that were granted fit the limit together whenever one  *)
(* more is granted, for any number of requests that reserve at the same    *)
(* time (breaker.rs reserve adds before it compares).                      *)
THEOREM GrantsFit == Spec => GrantedTogether
<1>1. Init => PoolInv /\ Books
  BY Start, StartBooks
<1>2. PoolInv /\ Books /\ [Next]_vars => PoolInv' /\ Books'
  BY Step, StepBooks
<1>3. ASSUME PoolInv, Books, [Next]_vars,
             NEW r \in Request, at[r] = "sharing", at'[r] = "running"
      PROVE  Total(share, {q \in Request : at'[q] = "running"}) <= limit
  <2> DEFINE S == HoldsShare'
             T == {q \in Request : at'[q] = "running"}
  <2>1. ReserveShare(r) /\ Shape
    BY <1>3, OwnStep DEF PoolInv
  <2>2. /\ request' = Total(share, S) /\ IsFiniteSet(S) /\ \A q \in S : share[q] \in Nat
        /\ request' \in Nat /\ ~(request' > limit)
    BY <1>3, <2>1, SharesTogether
  <2>3. T \in SUBSET S
    BY HoldersAfter DEF WithShare
  <2> HIDE DEF S, T
  <2>4. IsFiniteSet(T) /\ \A q \in T : share[q] \in Nat
    BY <2>2, <2>3, FS_Subset
  <2>5. Total(share, T) <= Total(share, S) /\ Total(share, T) \in Nat
    BY <2>2, <2>3, <2>4, TotalPart, TotalNat
  <2>6. limit \in Nat
    BY <1>3, AdmissionAssumption DEF Books
  <2>7. Total(share, T) <= limit
    BY <2>2, <2>5, <2>6, SMT
  <2> QED
    BY <2>7 DEF T
<1>4. ASSUME PoolInv, Books, [Next]_vars,
             NEW r \in Client, at[r] = "placed", at'[r] = "held", body[r] > 0
      PROVE  2 * Total(body, HoldsBody' \ {q \in Client : at'[q] = "over body"})
               <= InFlightLimit
  <2> DEFINE S == HoldsBody'
             T == S \ {q \in Client : at'[q] = "over body"}
  <2>1. ReserveBody(r) /\ Shape /\ r \in Request
    BY <1>4, OwnStep DEF PoolInv, Request
  <2>2. /\ body' = body /\ in_flight' = in_flight + 2 * body[r]
        /\ at' = [at EXCEPT ![r] = "held"] /\ ~(in_flight' > InFlightLimit)
    <3>1. at'[r] = IF body[r] > 0 /\ in_flight' > InFlightLimit THEN "over body" ELSE "held"
      BY <2>1 DEF ReserveBody, Shape
    <3>2. ~(in_flight' > InFlightLimit)
      BY <1>4, <3>1
    <3> QED
      BY <2>1, <3>2 DEF ReserveBody, Want
  <2>3. "held" \in WithBody /\ at[r] \notin WithBody
    BY <1>4 DEF WithBody
  <2>4. in_flight' = 2 * Total(body, S) /\ IsFiniteSet(S) /\ \A q \in S : body[q] \in Nat
    BY <1>4, <2>1, <2>2, <2>3, BodyTaken
  <2>5. T \in SUBSET S
    OBVIOUS
  <2> HIDE DEF S, T
  <2>6. IsFiniteSet(T) /\ \A q \in T : body[q] \in Nat
    BY <2>4, <2>5, FS_Subset
  <2>7. Total(body, T) <= Total(body, S) /\ Total(body, T) \in Nat /\ Total(body, S) \in Nat
    BY <2>4, <2>5, <2>6, TotalPart, TotalNat
  <2>8. InFlightLimit \in Nat
    BY AdmissionAssumption
  <2>9. 2 * Total(body, T) <= InFlightLimit
    BY <2>2, <2>4, <2>7, <2>8, SMT
  <2> QED
    BY <2>9 DEF S, T
<1>5. PoolInv /\ Books /\ [Next]_vars =>
        /\ \A r \in Request : at[r] = "sharing" /\ at'[r] = "running"
             => Total(share, {q \in Request : at'[q] = "running"}) <= limit
        /\ \A r \in Client : at[r] = "placed" /\ at'[r] = "held" /\ body[r] > 0
             => 2 * Total(body, HoldsBody' \ {q \in Client : at'[q] = "over body"})
                  <= InFlightLimit
  BY <1>3, <1>4
<1> QED
  BY <1>1, <1>2, <1>5, PTL DEF Spec, GrantedTogether

(* A limit that leaves every search of a full pool at least one byte. *)
RoomForAll == \A l \in Limits : AtOnce <= l

(* As many shares as the pool has places come to no more than the limit. *)
LEMMA SharesOfPool ==
    ASSUME RoomForAll, Books, NEW n \in Nat, n <= AtOnce
    PROVE  n * PerSearch <= limit
<1>1. limit \in Nat /\ AtOnce \in Nat /\ AtOnce > 0 /\ AtOnce <= limit
  BY AdmissionAssumption, SMT DEF RoomForAll, Books
<1>2. PICK c \in Nat : c = limit \div AtOnce
  BY <1>1, SMT
<1>3. AtOnce * c <= limit /\ c >= 1
  BY <1>1, <1>2, SMT
<1>4. PerSearch = c
  BY <1>2, <1>3, SMT DEF PerSearch
<1>5. PICK d \in Nat : AtOnce = n + d
  <2>1. AtOnce - n \in Nat /\ AtOnce = n + (AtOnce - n)
    BY <1>1, SMT
  <2> QED
    BY <2>1
<1>6. AtOnce * c = n * c + d * c /\ d * c >= 0 /\ n * c \in Nat /\ d * c \in Nat
  BY <1>5, SMT
<1> QED
  BY <1>1, <1>3, <1>4, <1>6, SMT

(* A search the pool let in is not refused its share of the request        *)
(* breaker unless a search of another node, or a share worked out under    *)
(* another limit, has taken it (budget.rs per_search).  The code rounds a  *)
(* share of less than a byte up to one, so the limit has to have a byte    *)
(* for each place.                                                         *)
THEOREM SharesSuffice == ASSUME RoomForAll PROVE Spec => SharesFit
<1>1. Init => PoolInv /\ Books
  BY Start, StartBooks
<1>2. PoolInv /\ Books /\ [Next]_vars => PoolInv' /\ Books'
  BY Step, StepBooks
<1>3. ASSUME PoolInv, Books, [Next]_vars,
             NEW r \in Client, at[r] = "sharing", at'[r] = "over share"
      PROVE  \E q \in Request : share[q] > 0 /\ (q \in Remote \/ share[q] # PerSearch)
  <2> SUFFICES ASSUME \A q \in Request :
                        ~(share[q] > 0 /\ (q \in Remote \/ share[q] # PerSearch))
               PROVE  FALSE
    OBVIOUS
  <2> DEFINE S == HoldsShare'
             c == PerSearch
  <2>1. ReserveShare(r) /\ Shape /\ r \in Request
    BY <1>3, OwnStep DEF PoolInv, Request
  <2>2. /\ request' = Total(share, S) /\ IsFiniteSet(S) /\ \A q \in S : share[q] \in Nat
        /\ request' \in Nat /\ request' > limit
        /\ \A q \in Request : q # r => at'[q] = at[q]
    BY <1>3, <2>1, SharesTogether
  <2>3. c \in Nat
    BY <1>3, PerSearchNat
  <2>4. S \in SUBSET Request /\ S \cap Client \in SUBSET HoldsPlace
    <3>1. S = {q \in Request : at'[q] \in WithShare}
      BY HoldersAfter
    <3> QED
      BY <1>3, <2>2, <3>1 DEF HoldsPlace, WithShare, Inside, Request
  <2> HIDE DEF S, c
  <2>5. \A q \in S : share[q] \in Nat /\ share[q] <= c /\ (q \notin Client => share[q] = 0)
    <3> SUFFICES ASSUME NEW q \in S
                 PROVE  share[q] \in Nat /\ share[q] <= c /\ (q \notin Client => share[q] = 0)
      OBVIOUS
    <3>1. q \in Request /\ share[q] \in Nat
      BY <2>2, <2>4
    <3>2. share[q] = 0 \/ (q \notin Remote /\ share[q] = c)
      BY <3>1, SMT DEF c
    <3> QED
      BY <2>3, <3>1, <3>2, SMT DEF Request
  <2>6. Total(share, S) <= Cardinality(S \cap Client) * c
    BY <2>2, <2>3, <2>5, TotalBound
  <2>7. Cardinality(S \cap Client) \in Nat /\ Cardinality(S \cap Client) <= AtOnce
    <3>1. IsFiniteSet(HoldsPlace) /\ Cardinality(HoldsPlace) \in Nat
      BY Finite
    <3>2. /\ IsFiniteSet(S \cap Client)
          /\ Cardinality(S \cap Client) <= Cardinality(HoldsPlace)
      BY <2>4, <3>1, FS_Subset
    <3>3. Cardinality(S \cap Client) \in Nat
      BY <3>2, FS_CardinalityType
    <3>4. places \in Nat /\ places + Cardinality(HoldsPlace) = AtOnce
      BY <1>3 DEF PoolInv, PoolAccounted, Shape
    <3> QED
      BY <3>1, <3>2, <3>3, <3>4, AdmissionAssumption, SMT
  <2>8. PICK n \in Nat : n = Cardinality(S \cap Client)
    BY <2>7
  <2>9. n * c <= limit /\ n * c \in Nat
    <3>1. n <= AtOnce
      BY <2>7, <2>8
    <3>2. n * PerSearch <= limit
      BY <1>3, <3>1, SharesOfPool
    <3>3. n * c <= limit
      BY <3>2 DEF c
    <3> QED
      BY <2>3, <3>3, SMT
  <2>10. limit \in Nat
    BY <1>3, AdmissionAssumption DEF Books
  <2> QED
    BY <2>2, <2>6, <2>8, <2>9, <2>10, SMT
<1>4. PoolInv /\ Books /\ [Next]_vars =>
        \A r \in Client : at[r] = "sharing" /\ at'[r] = "over share" =>
            \E q \in Request : share[q] > 0 /\ (q \in Remote \/ share[q] # PerSearch)
  BY <1>3
<1> QED
  BY <1>1, <1>2, <1>4, PTL DEF Spec, SharesFit
=============================================================================
