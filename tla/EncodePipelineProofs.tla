------------------------ MODULE EncodePipelineProofs ------------------------
(***************************************************************************)
(* Proofs about EncodePipeline, for files of any length, any window and    *)
(* prefetch depth, any number of workers, sessions and failures.           *)
(***************************************************************************)
EXTENDS EncodePipeline, TLAPS, SequenceTheorems, FiniteSetTheorems

\* What is on its way through the pool for session s: the futures js, the jobs
\* run of the workers and the finished ones enc carry every block of pend, one
\* each, and no other block of that session.
Flow(s, js, run, enc, pend) ==
    /\ \A i \in 1 .. Len(js) : js[i][1] = s /\ js[i][2] \in pend
    /\ \A i, j \in 1 .. Len(js) : js[i] = js[j] => i = j
    /\ \A i \in 1 .. Len(js) : \A w \in Worker : run[w] # js[i]
    /\ \A i \in 1 .. Len(js) : \A r \in enc : r.block # js[i][2]
    /\ \A w \in Worker : run[w][1] = s =>
          /\ run[w][2] \in pend
          /\ \A v \in Worker : run[v] = run[w] => v = w
          /\ \A r \in enc : r.block # run[w][2]
    /\ \A r \in enc : r.block \in pend /\ \A q \in enc : q.block = r.block => q = r
    /\ \A b \in pend : \/ \E i \in 1 .. Len(js) : js[i] = <<s, b>>
                       \/ \E w \in Worker : run[w] = <<s, b>>
                       \/ \E r \in enc : r.block = b

\* Window, pending blocks and encoded blocks of a session: the window lies
\* before the next block, the others lie at most PrefetchDepth behind it.
Ahead(n, act, rdy, pend) ==
    /\ act \subseteq 0 .. n - 1
    /\ pend \subseteq n .. n + PrefetchDepth - 1
    /\ \A b \in Block : IsReady(rdy, b) => b \in n .. n + PrefetchDepth - 1 /\ b \notin pend

\* Jobs of an earlier session may still be in the workers, never one of a
\* session to come; a worker at work has its file open.
Workers ==
    \A w \in Worker : /\ running[w][1] <= session
                      /\ running[w] # NoJob => cache[w] # Unopened

PipeInv ==
    /\ TypeOK /\ Workers
    /\ ~serving => jobs = <<>>
    /\ serving => /\ Flow(session, jobs, running, encoded, pending)
                  /\ Ahead(next, active, ready, pending)

-----------------------------------------------------------------------------
(* The operators *)

LEMMA Params ==
    /\ TotalBlocks \in Nat /\ TotalBlocks > 0
    /\ PrefetchDepth \in Nat /\ PrefetchDepth > 0
    /\ ActiveBlocks \in Nat /\ MaxSessions \in Nat /\ MaxVersion \in Nat
    /\ MaxFailures \in Nat /\ Main \notin Worker
BY PipelineAssumption

\* Jobs are pairs; NoJob belongs to no session.
LEMMA JobShape ==
    /\ \A x \in Job : x[1] \in Session /\ x[2] \in Block /\ x = <<x[1], x[2]>>
    /\ NoJob[1] = -1 /\ NoJob \notin Job
<1>1. \A x \in Job : x[1] \in Session /\ x[2] \in Block /\ x = <<x[1], x[2]>>
  BY DEF Job
<1>2. NoJob[1] = -1
  BY DEF NoJob
<1>3. -1 \notin Session
  BY Params DEF Session
<1>4. QED
  BY <1>1, <1>2, <1>3

\* With the window before block n, the horizon is the next PrefetchDepth blocks.
LEMMA HorizonIsAhead ==
    ASSUME NEW n \in Nat, NEW act, act \subseteq 0 .. n - 1
    PROVE  Horizon(n, act) \subseteq Block \cap (n .. n + PrefetchDepth - 1)
<1> SUFFICES ASSUME NEW b \in Horizon(n, act)
             PROVE  b \in Block \cap (n .. n + PrefetchDepth - 1)
  OBVIOUS
<1>1. b \in n .. TotalBlocks - 1 /\ Cardinality((n .. b) \ act) <= PrefetchDepth
  BY DEF Horizon
<1>2. (n .. b) \ act = n .. b
  BY <1>1, Params
<1>3. Cardinality(n .. b) = b - n + 1
  BY <1>1, Params, FS_Interval
<1>4. b - n + 1 <= PrefetchDepth
  BY <1>1, <1>2, <1>3
<1>5. QED
  BY <1>1, <1>4, Params DEF Block

\* An ascending sequence of a finite set visits every element once.
LEMMA AscendingFacts ==
    ASSUME NEW S, IsFiniteSet(S), NEW q \in Ascending(S), S \subseteq Int
    PROVE  /\ Cardinality(S) \in Nat /\ DOMAIN q = 1 .. Cardinality(S)
           /\ \A i \in DOMAIN q : q[i] \in S
           /\ \A i, j \in DOMAIN q : q[i] = q[j] => i = j
           /\ \A b \in S : \E i \in DOMAIN q : q[i] = b
<1>1. Cardinality(S) \in Nat /\ q \in [1 .. Cardinality(S) -> S]
  BY FS_CardinalityType DEF Ascending
<1>2. \A i, j \in 1 .. Cardinality(S) : i < j => q[i] < q[j]
  BY DEF Ascending
<1>3. ASSUME NEW i \in 1 .. Cardinality(S), NEW j \in 1 .. Cardinality(S), q[i] = q[j]
      PROVE  i = j
  <2>1. q[i] \in Int /\ q[j] \in Int
    BY <1>1
  <2>2. ~(i < j) /\ ~(j < i)
    BY <1>2, <1>3, <2>1
  <2>3. QED
    BY <1>1, <2>2
<1>4. q \in Injection(1 .. Cardinality(S), S)
  BY <1>1, <1>3 DEF Injection, IsInjective
<1>5. Cardinality(1 .. Cardinality(S)) = Cardinality(S)
  BY <1>1, FS_Interval
<1>6. q \in Surjection(1 .. Cardinality(S), S)
  BY <1>4, <1>5, FS_Injection
<1>7. \A b \in S : \E i \in 1 .. Cardinality(S) : q[i] = b
  BY <1>6 DEF Surjection
<1>8. QED
  BY <1>1, <1>3, <1>7

\* Taking what is finished leaves one job for every block still pending.
LEMMA Drained ==
    ASSUME NEW s, NEW js, NEW run, NEW enc, NEW pend, Flow(s, js, run, enc, pend)
    PROVE  Flow(s, js, run, {}, pend \ {r.block : r \in enc})
  BY DEF Flow

\* Submitting blocks that have no job yet gives each of them one.
LEMMA Submitted ==
    ASSUME NEW s \in Session, NEW js \in Seq(Job), NEW run \in [Worker -> Job \cup {NoJob}],
           NEW pend, NEW new, new \subseteq Block, new \cap pend = {},
           NEW q \in Ascending(new), Flow(s, js, run, {}, pend)
    PROVE  /\ js \o Futures(s, q) \in Seq(Job)
           /\ Flow(s, js \o Futures(s, q), run, {}, pend \cup new)
<1> DEFINE jt == js \o Futures(s, q)
           k == Cardinality(new)
           m == Len(js)
           add == [i \in 1 .. k |-> <<s, q[i]>>]
<1>1. IsFiniteSet(Block) /\ new \subseteq Int
  BY FS_Interval, Params DEF Block
<1>2. IsFiniteSet(new)
  BY <1>1, FS_Subset
<1>3. /\ k \in Nat /\ DOMAIN q = 1 .. k
      /\ \A i \in 1 .. k : q[i] \in new
      /\ \A i, j \in 1 .. k : q[i] = q[j] => i = j
      /\ \A b \in new : \E i \in 1 .. k : q[i] = b
  <2>1. /\ Cardinality(new) \in Nat /\ DOMAIN q = 1 .. Cardinality(new)
        /\ \A i \in DOMAIN q : q[i] \in new
        /\ \A i, j \in DOMAIN q : q[i] = q[j] => i = j
        /\ \A b \in new : \E i \in DOMAIN q : q[i] = b
    BY <1>1, <1>2, AscendingFacts
  <2>2. QED
    BY <2>1
<1> HIDE DEF k
<1>4. add \in [1 .. k -> Job]
  <2>1. \A i \in 1 .. k : <<s, q[i]>> \in Job
    BY <1>3 DEF Job
  <2>2. QED
    BY <2>1
<1>5. add \in Seq(Job) /\ Len(add) = k
  BY <1>3, <1>4, SeqDef, LenProperties
<1>6. jt = js \o add
  BY <1>3 DEF Futures
<1> HIDE DEF jt
<1>7. \A i \in 1 .. k : add[i] = <<s, q[i]>> /\ add[i][1] = s /\ add[i][2] = q[i]
  OBVIOUS
<1> HIDE DEF add
<1>8. /\ jt \in Seq(Job) /\ m \in Nat /\ Len(jt) = m + k
      /\ \A i \in 1 .. m : jt[i] = js[i]
      /\ \A i \in 1 .. k : jt[m + i] = add[i]
  <2>1. /\ js \o add \in Seq(Job) /\ Len(js \o add) = Len(js) + Len(add)
        /\ \A i \in 1 .. Len(js) + Len(add) :
              (js \o add)[i] = IF i <= Len(js) THEN js[i] ELSE add[i - Len(js)]
    BY <1>5, ConcatProperties
  <2>2. m \in Nat
    BY LenProperties
  <2>3. \A i \in 1 .. m + k : jt[i] = IF i <= m THEN js[i] ELSE add[i - m]
    BY <1>5, <1>6, <2>1
  <2>4. jt \in Seq(Job) /\ Len(jt) = m + k
    BY <1>5, <1>6, <2>1
  <2> HIDE DEF m
  <2>5. \A i \in 1 .. m : jt[i] = js[i]
    BY <1>3, <2>2, <2>3
  <2>6. ASSUME NEW i \in 1 .. k
        PROVE  jt[m + i] = add[i]
    <3>1. m + i \in 1 .. m + k /\ ~(m + i <= m) /\ (m + i) - m = i
      BY <1>3, <2>2
    <3>2. QED
      BY <2>3, <3>1
  <2>7. QED
    BY <2>2, <2>4, <2>5, <2>6
<1> HIDE DEF m
<1>9. ASSUME NEW i \in 1 .. Len(jt)
      PROVE  \/ i \in 1 .. m
             \/ \E j \in 1 .. k : i = m + j
  <2>1. i <= m \/ i - m \in 1 .. k
    BY <1>3, <1>8
  <2>2. QED
    BY <1>8, <2>1
<1>10. /\ \A i \in 1 .. m : js[i][1] = s /\ js[i][2] \in pend
       /\ \A i, j \in 1 .. m : js[i] = js[j] => i = j
       /\ \A i \in 1 .. m : \A w \in Worker : run[w] # js[i]
       /\ \A w \in Worker : run[w][1] = s =>
             run[w][2] \in pend /\ \A v \in Worker : run[v] = run[w] => v = w
       /\ \A b \in pend : \/ \E i \in 1 .. m : js[i] = <<s, b>>
                          \/ \E w \in Worker : run[w] = <<s, b>>
  BY DEF Flow, m
<1>11. ASSUME NEW i \in 1 .. Len(jt)
       PROVE  jt[i][1] = s /\ jt[i][2] \in pend \cup new
  <2>1. CASE i \in 1 .. m
    BY <1>8, <1>10, <2>1
  <2>2. ASSUME NEW a \in 1 .. k, i = m + a
        PROVE  jt[i][1] = s /\ jt[i][2] = q[a]
    BY <1>7, <1>8, <2>2
  <2>3. QED
    BY <1>3, <1>9, <2>1, <2>2
<1>12. ASSUME NEW i \in 1 .. Len(jt), NEW j \in 1 .. Len(jt), jt[i] = jt[j]
       PROVE  i = j
  <2>1. CASE i \in 1 .. m /\ j \in 1 .. m
    BY <1>8, <1>10, <1>12, <2>1
  <2>2. ASSUME NEW a \in 1 .. k, i = m + a, j \in 1 .. m
        PROVE  FALSE
    <3>1. jt[i][2] = q[a] /\ jt[j][2] \in pend
      BY <1>7, <1>8, <1>10, <2>2
    <3>2. QED
      BY <1>3, <1>12, <3>1
  <2>3. ASSUME NEW a \in 1 .. k, j = m + a, i \in 1 .. m
        PROVE  FALSE
    <3>1. jt[j][2] = q[a] /\ jt[i][2] \in pend
      BY <1>7, <1>8, <1>10, <2>3
    <3>2. QED
      BY <1>3, <1>12, <3>1
  <2>4. ASSUME NEW a \in 1 .. k, NEW c \in 1 .. k, i = m + a, j = m + c
        PROVE  i = j
    <3>1. jt[i][2] = q[a] /\ jt[j][2] = q[c]
      BY <1>7, <1>8, <2>4
    <3>2. QED
      BY <1>3, <1>12, <2>4, <3>1
  <2>5. QED
    BY <1>9, <2>1, <2>2, <2>3, <2>4
<1>13. ASSUME NEW i \in 1 .. Len(jt), NEW w \in Worker
       PROVE  run[w] # jt[i]
  <2>1. CASE i \in 1 .. m
    BY <1>8, <1>10, <2>1
  <2>2. ASSUME NEW a \in 1 .. k, i = m + a, run[w] = jt[i]
        PROVE  FALSE
    <3>1. run[w][1] = s /\ run[w][2] = q[a]
      BY <1>7, <1>8, <2>2
    <3>2. QED
      BY <1>3, <1>10, <3>1
  <2>3. QED
    BY <1>9, <2>1, <2>2
<1>14. ASSUME NEW b \in pend \cup new
       PROVE  \/ \E i \in 1 .. Len(jt) : jt[i] = <<s, b>>
              \/ \E w \in Worker : run[w] = <<s, b>>
  <2>1. ASSUME NEW i \in 1 .. m, js[i] = <<s, b>>
        PROVE  i \in 1 .. Len(jt) /\ jt[i] = <<s, b>>
    BY <1>3, <1>8, <2>1
  <2>2. ASSUME NEW i \in 1 .. k, q[i] = b
        PROVE  m + i \in 1 .. Len(jt) /\ jt[m + i] = <<s, b>>
    BY <1>3, <1>7, <1>8, <2>2
  <2>3. QED
    BY <1>3, <1>10, <2>1, <2>2
<1>15. Flow(s, jt, run, {}, pend \cup new)
  BY <1>10, <1>11, <1>12, <1>13, <1>14 DEF Flow
<1>16. QED
  BY <1>8, <1>15 DEF jt

\* _submit_ahead() as a whole.
LEMMA SubmitKeeps ==
    ASSUME NEW s \in Session, NEW n \in 0 .. TotalBlocks, NEW act, NEW rdy, NEW pend,
           pend \subseteq Block, jobs \in Seq(Job),
           running \in [Worker -> Job \cup {NoJob}],
           Flow(s, jobs, running, {}, pend), Ahead(n, act, rdy, pend),
           SubmitAhead(s, n, act, rdy, pend)
    PROVE  /\ pending' \subseteq Block /\ jobs' \in Seq(Job)
           /\ Flow(s, jobs', running, {}, pending')
           /\ Ahead(n, act, rdy, pending')
<1> DEFINE new == Submittable(n, act, rdy, pend)
<1>1. n \in Nat /\ act \subseteq 0 .. n - 1
  BY Params DEF Ahead
<1>2. /\ new \subseteq Block /\ new \subseteq n .. n + PrefetchDepth - 1
      /\ new \cap pend = {} /\ \A b \in new : ~IsReady(rdy, b)
  BY <1>1, HorizonIsAhead DEF Submittable
<1>3. pending' = pend \cup new
  BY DEF SubmitAhead
<1>4. PICK q \in Ascending(new) : jobs' = jobs \o Futures(s, q)
  BY DEF SubmitAhead
<1> HIDE DEF new
<1>5. jobs' \in Seq(Job) /\ Flow(s, jobs', running, {}, pend \cup new)
  <2>1. /\ jobs \o Futures(s, q) \in Seq(Job)
        /\ Flow(s, jobs \o Futures(s, q), running, {}, pend \cup new)
    BY <1>2, <1>4, Submitted
  <2>2. QED
    BY <1>4, <2>1
<1>6. Ahead(n, act, rdy, pending')
  BY <1>2, <1>3 DEF Ahead
<1>7. QED
  BY <1>2, <1>3, <1>5, <1>6

\* What _take_encoded() leaves in self.ready.
LEMMA ReadyFacts ==
    ASSUME TypeOK
    PROVE  /\ \A p \in Worker \cup {Main} : Opened(p) \in Version
           /\ ReadyThen \in [Block -> Version \cup {Unopened}]
           /\ \A b \in Block : IsReady(ReadyThen, b) => b \in Taken \/ IsReady(ready, b)
           /\ Taken \subseteq Block
<1>1. Unopened \notin Version /\ Failed \notin Version
  BY Params DEF Version, Unopened, Failed
<1>2. \A p \in Worker \cup {Main} : Opened(p) \in Version
  BY DEF Opened, TypeOK
<1>3. ASSUME NEW b \in Block
      PROVE  /\ ReadyThen[b] \in Version \cup {Unopened}
             /\ b \notin Taken => ReadyThen[b] = ready[b]
  <2>1. CASE b \in Taken
    <3> DEFINE r == CHOOSE x \in encoded : x.block = b
    <3>1. r \in encoded
      BY <2>1 DEF Taken
    <3>2. r.version \in Version \cup {Failed}
      BY <3>1 DEF TypeOK, Result
    <3>3. ReadyThen[b] = IF r.version = Failed THEN Opened(Main) ELSE r.version
      BY <2>1 DEF ReadyThen
    <3> HIDE DEF r
    <3>4. QED
      BY <1>2, <2>1, <3>2, <3>3
  <2>2. CASE b \notin Taken
    <3>1. ReadyThen[b] = ready[b]
      BY <2>2 DEF ReadyThen
    <3>2. QED
      BY <2>2, <3>1 DEF TypeOK
  <2>3. QED
    BY <2>1, <2>2
<1>4. ReadyThen \in [Block -> Version \cup {Unopened}]
  <2>1. ReadyThen = [b \in Block |-> ReadyThen[b]]
    BY DEF ReadyThen
  <2>2. QED
    BY <1>3, <2>1
<1>5. Taken \subseteq Block
  BY DEF Taken, TypeOK, Result
<1>6. QED
  BY <1>2, <1>3, <1>4, <1>5 DEF IsReady

LEMMA TakeEncodedTypes ==
    ASSUME TypeOK, Workers, TakeEncoded, UNCHANGED <<running, session>>
    PROVE  /\ encoded' = {} /\ cache' \in [Worker \cup {Main} -> Version \cup {Unopened}]
           /\ Workers'
<1>1. Opened(Main) \in Version /\ Main \notin Worker
  BY ReadyFacts, Params
<1>2. cache \in [Worker \cup {Main} -> Version \cup {Unopened}]
  BY DEF TypeOK
<1>3. cache' = cache \/ cache' = [cache EXCEPT ![Main] = Opened(Main)]
  BY DEF TakeEncoded
<1>4. cache' \in [Worker \cup {Main} -> Version \cup {Unopened}]
  BY <1>1, <1>2, <1>3
<1>5. \A w \in Worker : cache'[w] = cache[w]
  BY <1>1, <1>2, <1>3
<1>6. QED
  BY <1>4, <1>5 DEF TakeEncoded, Workers

-----------------------------------------------------------------------------
(* The invariant *)

LEMMA InitEstablishes == Init => PipeInv
<1> SUFFICES ASSUME Init PROVE PipeInv
  OBVIOUS
<1>1. 0 \in Version /\ 0 \in Session /\ 0 \in 0 .. TotalBlocks /\ 0 \in 0 .. MaxFailures
  BY Params DEF Version, Session
<1>2. TypeOK
  BY <1>1, EmptySeq DEF Init, TypeOK
<1>3. Workers
  BY JobShape DEF Init, Workers
<1>4. QED
  BY <1>2, <1>3 DEF Init, PipeInv

\* A turn of the loop without an admission.
LEMMA TurnKeeps ==
    ASSUME PipeInv, NEW S \in SUBSET active, Turn(S)
    PROVE  PipeInv'
<1> DEFINE act == active \ S
           pend == pending \ Taken
<1>1. /\ serving /\ active' = act /\ TakeEncoded /\ ready' = ReadyThen
      /\ SubmitAhead(session, next, act, ReadyThen, pend)
      /\ UNCHANGED <<disk, serving, session, mm, next, wire, running, failures>>
  BY DEF Turn
<1>2. /\ TypeOK /\ Workers
      /\ Flow(session, jobs, running, encoded, pending) /\ Ahead(next, active, ready, pending)
  BY <1>1 DEF PipeInv
<1>3. Flow(session, jobs, running, {}, pend)
  BY <1>2, Drained DEF Taken
<1>4. /\ encoded' = {} /\ cache' \in [Worker \cup {Main} -> Version \cup {Unopened}]
      /\ Workers'
  BY <1>1, <1>2, TakeEncodedTypes
<1>5. Taken \subseteq pending
  BY <1>2 DEF Flow, Taken
<1>6. Ahead(next, act, ReadyThen, pend)
  BY <1>2, <1>5, ReadyFacts DEF Ahead
<1>7. /\ session \in Session /\ next \in 0 .. TotalBlocks /\ pend \subseteq Block
      /\ jobs \in Seq(Job) /\ running \in [Worker -> Job \cup {NoJob}]
  BY <1>2 DEF TypeOK
<1> HIDE DEF act, pend
<1>8. /\ pending' \subseteq Block /\ jobs' \in Seq(Job)
      /\ Flow(session, jobs', running, {}, pending')
      /\ Ahead(next, act, ReadyThen, pending')
  BY <1>1, <1>3, <1>6, <1>7, SubmitKeeps
<1>9. ReadyThen \in [Block -> Version \cup {Unopened}]
  BY <1>2, ReadyFacts
<1>10. active' \subseteq Block
  BY <1>1, <1>2 DEF act, TypeOK
<1>11. TypeOK'
  BY <1>1, <1>2, <1>4, <1>8, <1>9, <1>10 DEF TypeOK
<1>12. QED
  BY <1>1, <1>4, <1>8, <1>11 DEF PipeInv

\* The next block enters the window.
LEMMA AdmitKeeps ==
    ASSUME PipeInv, AdmitReady
    PROVE  PipeInv'
<1> DEFINE act == active \cup {next}
           pend == pending \ Taken
           left == [ReadyThen EXCEPT ![next] = Unopened]
<1>1. /\ serving /\ next < TotalBlocks /\ IsReady(ReadyThen, next)
      /\ active' = act /\ next' = next + 1 /\ TakeEncoded /\ ready' = left
      /\ wire' = [wire EXCEPT ![next] = ReadyThen[next]]
      /\ SubmitAhead(session, next + 1, act, left, pend)
      /\ UNCHANGED <<disk, serving, session, mm, running, failures>>
  BY DEF AdmitReady
<1>2. /\ TypeOK /\ Workers
      /\ Flow(session, jobs, running, encoded, pending) /\ Ahead(next, active, ready, pending)
  BY <1>1 DEF PipeInv
<1>3. Flow(session, jobs, running, {}, pend)
  BY <1>2, Drained DEF Taken
<1>4. /\ encoded' = {} /\ cache' \in [Worker \cup {Main} -> Version \cup {Unopened}]
      /\ Workers'
  BY <1>1, <1>2, TakeEncodedTypes
<1>5. Taken \subseteq pending
  BY <1>2 DEF Flow, Taken
<1>6. next \in Nat /\ next \in Block /\ next + 1 \in 0 .. TotalBlocks
  BY <1>1, <1>2, Params DEF TypeOK, Block
<1>7. /\ ReadyThen \in [Block -> Version \cup {Unopened}]
      /\ \A b \in Block : IsReady(ReadyThen, b) => b \in Taken \/ IsReady(ready, b)
  BY <1>2, ReadyFacts
<1>8. next \notin pend
  BY <1>1, <1>2, <1>6, <1>7 DEF Ahead
<1>9. /\ left \in [Block -> Version \cup {Unopened}] /\ left[next] = Unopened
      /\ \A b \in Block : b # next => left[b] = ReadyThen[b]
  BY <1>6, <1>7
<1>10. act \subseteq 0 .. (next + 1) - 1 /\ act \subseteq Block
  BY <1>2, <1>6 DEF Ahead, TypeOK
<1>11. /\ session \in Session /\ pend \subseteq Block
       /\ jobs \in Seq(Job) /\ running \in [Worker -> Job \cup {NoJob}]
  BY <1>2 DEF TypeOK
<1>12. \A b \in next .. next + PrefetchDepth - 1 :
          b # next => b \in next + 1 .. (next + 1) + PrefetchDepth - 1
  BY <1>6, Params
<1>13. pend \subseteq next + 1 .. (next + 1) + PrefetchDepth - 1
  BY <1>2, <1>8, <1>12 DEF Ahead
<1>14. ASSUME NEW b \in Block, IsReady(left, b)
       PROVE  b \in next + 1 .. (next + 1) + PrefetchDepth - 1 /\ b \notin pend
  <2>1. b # next /\ IsReady(ReadyThen, b)
    BY <1>9, <1>14 DEF IsReady
  <2>2. b \in Taken \/ IsReady(ready, b)
    BY <1>7, <2>1
  <2>3. b \in next .. next + PrefetchDepth - 1 /\ b \notin pend
    BY <1>2, <1>5, <2>2 DEF Ahead
  <2>4. QED
    BY <1>12, <2>1, <2>3
<1> HIDE DEF act, pend, left
<1>15. Ahead(next + 1, act, left, pend)
  BY <1>10, <1>13, <1>14 DEF Ahead
<1>16. /\ pending' \subseteq Block /\ jobs' \in Seq(Job)
       /\ Flow(session, jobs', running, {}, pending')
       /\ Ahead(next + 1, act, left, pending')
  BY <1>1, <1>3, <1>6, <1>11, <1>15, SubmitKeeps
<1>17. wire' \in [Block -> Version \cup {Unopened}]
  BY <1>1, <1>2, <1>6, <1>7 DEF TypeOK
<1>18. TypeOK'
  BY <1>1, <1>2, <1>4, <1>6, <1>9, <1>10, <1>16, <1>17 DEF TypeOK
<1>19. QED
  BY <1>1, <1>4, <1>16, <1>18 DEF PipeInv

\* A new session: what still runs belongs to an older one.
LEMMA StartKeeps ==
    ASSUME PipeInv, StartSession
    PROVE  PipeInv'
<1> DEFINE none == [b \in Block |-> Unopened]
           noBlocks == {}
<1>1. /\ ~serving /\ session < MaxSessions
      /\ serving' = TRUE /\ session' = session + 1 /\ mm' = disk
      /\ next' = 0 /\ active' = noBlocks /\ encoded' = {}
      /\ wire' = none /\ ready' = none
      /\ SubmitAhead(session + 1, 0, noBlocks, none, noBlocks)
      /\ UNCHANGED <<disk, running, cache, failures>>
  BY DEF StartSession
<1>2. TypeOK /\ Workers /\ jobs = <<>>
  BY <1>1 DEF PipeInv
<1>3. session \in Nat /\ session + 1 \in Session /\ 0 \in 0 .. TotalBlocks
  BY <1>1, <1>2, Params DEF TypeOK, Session
<1>4. /\ jobs \in Seq(Job) /\ running \in [Worker -> Job \cup {NoJob}] /\ noBlocks \subseteq Block
      /\ none \in [Block -> Version \cup {Unopened}]
  BY <1>2 DEF TypeOK
<1>5. \A w \in Worker : running[w][1] \in Int
  BY <1>4, JobShape DEF Session
<1>6. \A w \in Worker : running[w][1] # session + 1 /\ running[w][1] <= session + 1
  BY <1>2, <1>3, <1>5 DEF Workers
<1>7. Flow(session + 1, jobs, running, {}, noBlocks)
  <2>1. Len(jobs) = 0
    BY <1>2, EmptySeq
  <2>2. QED
    BY <1>6, <2>1 DEF Flow
<1>8. Ahead(0, noBlocks, none, noBlocks)
  BY DEF Ahead, IsReady
<1> HIDE DEF none, noBlocks
<1>9. /\ pending' \subseteq Block /\ jobs' \in Seq(Job)
      /\ Flow(session + 1, jobs', running, {}, pending')
      /\ Ahead(0, noBlocks, none, pending')
  BY <1>1, <1>3, <1>4, <1>7, <1>8, SubmitKeeps
<1>10. TypeOK'
  BY <1>1, <1>2, <1>3, <1>4, <1>9 DEF TypeOK
<1>11. Workers'
  BY <1>1, <1>2, <1>6 DEF Workers
<1>12. QED
  BY <1>1, <1>9, <1>10, <1>11 DEF PipeInv

\* The end of a session and an upload between two of them.
LEMMA OutsideKeeps ==
    ASSUME PipeInv, EndSession \/ ReplaceFile
    PROVE  PipeInv'
<1>1. CASE EndSession
  <2>1. <<>> \in Seq(Job)
    BY EmptySeq
  <2>2. QED
    BY <1>1, <2>1 DEF EndSession, PipeInv, TypeOK, Workers
<1>2. CASE ReplaceFile
  <2>1. disk' \in Version
    BY <1>2, Params DEF ReplaceFile, PipeInv, TypeOK, Version
  <2>2. QED
    BY <1>2, <2>1 DEF ReplaceFile, PipeInv, TypeOK, Workers, poolVars
<1>3. QED
  BY <1>1, <1>2

\* A worker takes the oldest job: what was its future is now its running job.
LEMMA HeadRuns ==
    ASSUME NEW s \in Session, NEW js \in Seq(Job), js # <<>>,
           NEW run \in [Worker -> Job \cup {NoJob}], NEW enc, NEW pend,
           Flow(s, js, run, enc, pend), NEW w \in Worker, run[w] = NoJob,
           NEW rt, rt = [run EXCEPT ![w] = Head(js)]
    PROVE  /\ Tail(js) \in Seq(Job) /\ Head(js) \in Job /\ Head(js)[1] = s
           /\ Flow(s, Tail(js), rt, enc, pend)
<1> DEFINE m == Len(js)
           h == Head(js)
           t == Tail(js)
<1>1. /\ m \in Nat /\ m >= 1 /\ h = js[1] /\ t \in Seq(Job) /\ Len(t) = m - 1
      /\ \A i \in 1 .. m - 1 : t[i] = js[i + 1]
  BY HeadTailProperties, EmptySeq, LenProperties
<1>2. h \in Job
  BY <1>1, ElementOfSeq
<1>3. /\ \A i \in 1 .. m : js[i][1] = s /\ js[i][2] \in pend
      /\ \A i, j \in 1 .. m : js[i] = js[j] => i = j
      /\ \A i \in 1 .. m : \A v \in Worker : run[v] # js[i]
      /\ \A i \in 1 .. m : \A r \in enc : r.block # js[i][2]
      /\ \A v \in Worker : run[v][1] = s =>
            /\ run[v][2] \in pend
            /\ \A u \in Worker : run[u] = run[v] => u = v
            /\ \A r \in enc : r.block # run[v][2]
      /\ \A r \in enc : r.block \in pend /\ \A q \in enc : q.block = r.block => q = r
      /\ \A b \in pend : \/ \E i \in 1 .. m : js[i] = <<s, b>>
                         \/ \E v \in Worker : run[v] = <<s, b>>
                         \/ \E r \in enc : r.block = b
  BY DEF Flow
<1> HIDE DEF m, h, t
<1>4. 1 \in 1 .. m /\ h[1] = s /\ h[2] \in pend /\ \A r \in enc : r.block # h[2]
  BY <1>1, <1>3
<1>5. \A v \in Worker : run[v] # h
  BY <1>1, <1>3, <1>4
<1>6. rt[w] = h /\ \A v \in Worker : v # w => rt[v] = run[v]
  BY DEF h
<1>7. \A i \in 1 .. Len(t) : i + 1 \in 1 .. m /\ i + 1 # 1 /\ t[i] = js[i + 1]
  BY <1>1
<1>8. ASSUME NEW i \in 1 .. Len(t)
      PROVE  t[i][1] = s /\ t[i][2] \in pend /\ t[i] # h
  <2>1. i + 1 \in 1 .. m /\ i + 1 # 1 /\ t[i] = js[i + 1] /\ h = js[1]
    BY <1>1, <1>7
  <2>2. js[i + 1] # js[1]
    BY <1>3, <1>4, <2>1
  <2>3. QED
    BY <1>3, <2>1, <2>2
<1>9. ASSUME NEW i \in 1 .. Len(t), NEW j \in 1 .. Len(t), t[i] = t[j]
      PROVE  i = j
  <2>1. i + 1 = j + 1
    BY <1>3, <1>7, <1>9
  <2>2. QED
    BY <2>1
<1>10. \A i \in 1 .. Len(t) : \A v \in Worker : rt[v] # t[i]
  BY <1>3, <1>6, <1>7, <1>8
<1>11. \A i \in 1 .. Len(t) : \A r \in enc : r.block # t[i][2]
  BY <1>3, <1>7
<1>12. ASSUME NEW v \in Worker, rt[v][1] = s
       PROVE  /\ rt[v][2] \in pend
              /\ \A u \in Worker : rt[u] = rt[v] => u = v
              /\ \A r \in enc : r.block # rt[v][2]
  BY <1>3, <1>4, <1>5, <1>6, <1>12
<1>13. ASSUME NEW b \in pend
       PROVE  \/ \E i \in 1 .. Len(t) : t[i] = <<s, b>>
              \/ \E v \in Worker : rt[v] = <<s, b>>
              \/ \E r \in enc : r.block = b
  <2>1. ASSUME NEW i \in 1 .. m, js[i] = <<s, b>>, i # 1
        PROVE  i - 1 \in 1 .. Len(t) /\ t[i - 1] = <<s, b>>
    <3>1. i - 1 \in 1 .. m - 1 /\ (i - 1) + 1 = i
      BY <1>1, <2>1
    <3>2. QED
      BY <1>1, <2>1, <3>1
  <2>2. ASSUME js[1] = <<s, b>>
        PROVE  rt[w] = <<s, b>>
    BY <1>1, <1>6, <2>2
  <2>3. ASSUME NEW v \in Worker, run[v] = <<s, b>>
        PROVE  rt[v] = <<s, b>>
    <3>1. run[v] # NoJob
      BY <2>3, JobShape DEF Session
    <3>2. QED
      BY <1>6, <2>3, <3>1
  <2>4. QED
    BY <1>3, <2>1, <2>2, <2>3
<1>14. Flow(s, t, rt, enc, pend)
  BY <1>3, <1>8, <1>9, <1>10, <1>11, <1>12, <1>13 DEF Flow
<1>15. QED
  BY <1>1, <1>2, <1>4, <1>14 DEF h, t

LEMMA WorkerTakesKeeps ==
    ASSUME PipeInv, NEW w \in Worker, WorkerTakes(w)
    PROVE  PipeInv'
<1>1. /\ running[w] = NoJob /\ jobs # <<>>
      /\ running' = [running EXCEPT ![w] = Head(jobs)]
      /\ jobs' = Tail(jobs)
      /\ cache' = [cache EXCEPT ![w] = Opened(w)]
      /\ UNCHANGED <<disk, serving, session, mm, next, active, wire, ready,
                     pending, encoded, failures>>
  BY DEF WorkerTakes
<1>2. /\ TypeOK /\ Workers /\ serving
      /\ Flow(session, jobs, running, encoded, pending)
      /\ Ahead(next, active, ready, pending)
  BY <1>1 DEF PipeInv
<1>3. /\ jobs \in Seq(Job) /\ running \in [Worker -> Job \cup {NoJob}] /\ session \in Session
      /\ cache \in [Worker \cup {Main} -> Version \cup {Unopened}]
  BY <1>2 DEF TypeOK
<1>4. /\ jobs' \in Seq(Job) /\ Head(jobs) \in Job /\ Head(jobs)[1] = session
      /\ Flow(session, jobs', running', encoded, pending)
  BY <1>1, <1>2, <1>3, HeadRuns
<1>5. running' \in [Worker -> Job \cup {NoJob}]
  BY <1>1, <1>3, <1>4
<1>6. Opened(w) \in Version /\ Opened(w) # Unopened
  BY <1>2, ReadyFacts, Params DEF Version, Unopened
<1>7. cache' \in [Worker \cup {Main} -> Version \cup {Unopened}]
  BY <1>1, <1>3, <1>6
<1>8. Workers'
  <2>1. session \in Int
    BY <1>3, Params DEF Session
  <2>2. ASSUME NEW v \in Worker
        PROVE  running'[v][1] <= session /\ (running'[v] # NoJob => cache'[v] # Unopened)
    <3>1. CASE v = w
      <4>1. running'[v] = Head(jobs) /\ cache'[v] = Opened(w)
        BY <1>1, <1>3, <3>1
      <4>2. QED
        BY <1>4, <1>6, <2>1, <4>1
    <3>2. CASE v # w
      <4>1. running'[v] = running[v] /\ cache'[v] = cache[v]
        BY <1>1, <1>3, <3>2
      <4>2. QED
        BY <1>2, <4>1 DEF Workers
    <3>3. QED
      BY <3>1, <3>2
  <2>3. QED
    BY <1>1, <2>2 DEF Workers
<1>9. TypeOK'
  BY <1>1, <1>2, <1>4, <1>5, <1>7 DEF TypeOK
<1>10. QED
  BY <1>1, <1>2, <1>4, <1>8, <1>9 DEF PipeInv

\* A job that ends leaves its worker; one of the session that runs joins the
\* finished ones.
LEMMA FinishKeeps ==
    ASSUME PipeInv, NEW w \in Worker, NEW version \in Version \cup {Failed},
           Finish(w, version), failures' \in 0 .. MaxFailures
    PROVE  PipeInv'
<1> DEFINE job == running[w]
           r == [block |-> job[2], version |-> version]
<1>1. /\ job # NoJob
      /\ encoded' = IF OwnSession(job) THEN encoded \cup {r} ELSE encoded
      /\ running' = [running EXCEPT ![w] = NoJob]
      /\ UNCHANGED <<disk, serving, session, mm, next, active, wire, ready,
                     pending, jobs, cache>>
  BY DEF Finish
<1>2. TypeOK /\ Workers /\ (~serving => jobs = <<>>)
  BY DEF PipeInv
<1>3. /\ running \in [Worker -> Job \cup {NoJob}] /\ session \in Session /\ session \in Int
      /\ session >= 0 /\ encoded \subseteq Result
  BY <1>2, Params DEF TypeOK, Session
<1>4. job \in Job /\ job[1] \in Session /\ job[2] \in Block /\ job = <<job[1], job[2]>>
  BY <1>1, <1>3, JobShape
<1>5. r \in Result /\ r.block = job[2]
  BY <1>4 DEF Result
<1>6. /\ running' \in [Worker -> Job \cup {NoJob}]
      /\ running'[w] = NoJob /\ \A v \in Worker : v # w => running'[v] = running[v]
  BY <1>1, <1>3
<1> HIDE DEF r, job
<1>7. encoded' \subseteq Result
  BY <1>1, <1>3, <1>5
<1>8. TypeOK'
  BY <1>1, <1>2, <1>6, <1>7 DEF TypeOK
<1>9. Workers'
  <2>1. ASSUME NEW v \in Worker
        PROVE  running'[v][1] <= session /\ (running'[v] # NoJob => cache[v] # Unopened)
    <3>1. CASE v = w
      BY <1>3, <1>6, <3>1, JobShape
    <3>2. CASE v # w
      BY <1>2, <1>6, <3>2 DEF Workers
    <3>3. QED
      BY <3>1, <3>2
  <2>2. QED
    BY <1>1, <2>1 DEF Workers
<1>10. ASSUME serving
       PROVE  Flow(session, jobs, running', encoded', pending)
  <2>1. Flow(session, jobs, running, encoded, pending)
    BY <1>10 DEF PipeInv
  <2>2. /\ \A i \in 1 .. Len(jobs) : jobs[i][1] = session /\ jobs[i][2] \in pending
        /\ \A i, j \in 1 .. Len(jobs) : jobs[i] = jobs[j] => i = j
        /\ \A i \in 1 .. Len(jobs) : \A v \in Worker : running[v] # jobs[i]
        /\ \A i \in 1 .. Len(jobs) : \A x \in encoded : x.block # jobs[i][2]
        /\ \A v \in Worker : running[v][1] = session =>
              /\ running[v][2] \in pending
              /\ \A u \in Worker : running[u] = running[v] => u = v
              /\ \A x \in encoded : x.block # running[v][2]
        /\ \A x \in encoded : x.block \in pending /\ \A q \in encoded : q.block = x.block => q = x
        /\ \A b \in pending : \/ \E i \in 1 .. Len(jobs) : jobs[i] = <<session, b>>
                              \/ \E v \in Worker : running[v] = <<session, b>>
                              \/ \E x \in encoded : x.block = b
    BY <2>1 DEF Flow
  <2>3. jobs \in Seq(Job) /\ \A i \in 1 .. Len(jobs) : jobs[i] \in Job
    BY <1>2, ElementOfSeq DEF TypeOK
  <2>4. \A i \in 1 .. Len(jobs) : \A v \in Worker : running'[v] # jobs[i]
    BY <1>6, <2>2, <2>3, JobShape
  <2>5. \A v \in Worker : running'[v][1] = session => v # w /\ running'[v] = running[v]
    BY <1>3, <1>6, JobShape
  <2>6. CASE ~OwnSession(job)
    <3>1. encoded' = encoded /\ job[1] # session
      BY <1>1, <1>10, <2>6 DEF OwnSession
    <3>2. \A v \in Worker : running'[v][1] = session =>
              /\ running'[v][2] \in pending
              /\ \A u \in Worker : running'[u] = running'[v] => u = v
              /\ \A x \in encoded : x.block # running'[v][2]
      BY <1>6, <2>2, <2>5
    <3>3. \A b \in pending, v \in Worker :
              running[v] = <<session, b>> => running'[v] = <<session, b>>
      BY <1>6, <3>1 DEF job
    <3>4. QED
      BY <2>2, <2>4, <3>1, <3>2, <3>3 DEF Flow
  <2>7. CASE OwnSession(job)
    <3>1. encoded' = encoded \cup {r} /\ job[1] = session
      BY <1>1, <2>7 DEF OwnSession
    <3>2. /\ job[2] \in pending /\ \A x \in encoded : x.block # job[2]
          /\ \A u \in Worker : running[u] = job => u = w
      BY <2>2, <3>1 DEF job
    <3>3. \A i \in 1 .. Len(jobs) : job[2] # jobs[i][2]
      <4>1. \A i \in 1 .. Len(jobs) : jobs[i] = <<session, jobs[i][2]>> /\ jobs[i] # job
        BY <2>2, <2>3, JobShape DEF job
      <4>2. QED
        BY <1>4, <3>1, <4>1
    <3>4. \A v \in Worker : running'[v][1] = session =>
              /\ running'[v][2] \in pending
              /\ \A u \in Worker : running'[u] = running'[v] => u = v
              /\ \A x \in encoded : x.block # running'[v][2]
      BY <1>6, <2>2, <2>5
    <3>5. \A v \in Worker : running'[v][1] = session => running'[v][2] # job[2]
      <4>1. ASSUME NEW v \in Worker, running'[v][1] = session, running'[v][2] = job[2]
            PROVE  FALSE
        <5>1. v # w /\ running[v][1] = session /\ running[v][2] = job[2]
          BY <2>5, <4>1
        <5>2. running[v] # NoJob
          BY <1>3, <5>1, JobShape
        <5>3. running[v] = <<running[v][1], running[v][2]>>
          BY <1>3, <5>2, JobShape
        <5>4. running[v] = job
          BY <1>4, <3>1, <5>1, <5>3
        <5>5. QED
          BY <3>2, <5>1, <5>4
      <4>2. QED
        BY <4>1
    <3>6. \A x \in encoded' : x \in encoded \/ (x = r /\ x.block = job[2])
      BY <1>5, <3>1
    <3>7. \A x \in encoded' : x.block \in pending /\ \A q \in encoded' : q.block = x.block => q = x
      BY <2>2, <3>2, <3>6
    <3>8. /\ \A i \in 1 .. Len(jobs) : \A x \in encoded' : x.block # jobs[i][2]
          /\ \A v \in Worker : running'[v][1] = session =>
                \A x \in encoded' : x.block # running'[v][2]
      BY <2>2, <3>3, <3>4, <3>5, <3>6
    <3>9. ASSUME NEW b \in pending
          PROVE  \/ \E i \in 1 .. Len(jobs) : jobs[i] = <<session, b>>
                 \/ \E v \in Worker : running'[v] = <<session, b>>
                 \/ \E x \in encoded' : x.block = b
      <4>1. ASSUME running[w] = <<session, b>>
            PROVE  r \in encoded' /\ r.block = b
        BY <1>5, <3>1, <4>1 DEF job
      <4>2. ASSUME NEW v \in Worker, running[v] = <<session, b>>, v # w
            PROVE  running'[v] = <<session, b>>
        BY <1>6, <4>2
      <4>3. \A x \in encoded : x \in encoded'
        BY <3>1
      <4>4. QED
        BY <2>2, <4>1, <4>2, <4>3
    <3>10. QED
      BY <2>2, <2>4, <3>4, <3>7, <3>8, <3>9 DEF Flow
  <2>8. QED
    BY <2>6, <2>7
<1>11. serving => Ahead(next, active, ready, pending)
  BY DEF PipeInv
<1>12. QED
  BY <1>1, <1>2, <1>8, <1>9, <1>10, <1>11 DEF PipeInv

LEMMA StepKeeps == PipeInv /\ [Next]_vars => PipeInv'
<1> SUFFICES ASSUME PipeInv, [Next]_vars PROVE PipeInv'
  OBVIOUS
<1>1. CASE StartSession
  BY <1>1, StartKeeps
<1>2. CASE EndSession \/ ReplaceFile
  BY <1>2, OutsideKeeps
<1>3. CASE AdmitReady
  BY <1>3, AdmitKeeps
<1>4. ASSUME NEW S \in SUBSET active, Turn(S)
      PROVE  PipeInv'
  BY <1>4, TurnKeeps
<1>5. ASSUME NEW w \in Worker, WorkerTakes(w)
      PROVE  PipeInv'
  BY <1>5, WorkerTakesKeeps
<1>6. ASSUME NEW w \in Worker, WorkerDone(w)
      PROVE  PipeInv'
  <2>1. Finish(w, cache[w]) /\ failures' = failures
    BY <1>6 DEF WorkerDone
  <2>2. running[w] # NoJob /\ TypeOK /\ Workers
    BY <2>1 DEF Finish, PipeInv
  <2>3. cache[w] \in Version /\ failures \in 0 .. MaxFailures
    BY <2>2 DEF Workers, TypeOK
  <2>4. QED
    BY <2>1, <2>3, FinishKeeps
<1>7. ASSUME NEW w \in Worker, WorkerFails(w)
      PROVE  PipeInv'
  <2>1. Finish(w, Failed) /\ failures < MaxFailures /\ failures' = failures + 1
    BY <1>7 DEF WorkerFails
  <2>2. failures' \in 0 .. MaxFailures
    BY <2>1, Params DEF PipeInv, TypeOK
  <2>3. QED
    BY <2>1, <2>2, FinishKeeps
<1>8. CASE UNCHANGED vars
  BY <1>8 DEF vars, poolVars, PipeInv, TypeOK, Workers
<1>9. QED
  BY <1>1, <1>2, <1>3, <1>4, <1>5, <1>6, <1>7, <1>8 DEF Next

\* The inductive invariant of the encode pipeline holds always.
THEOREM PipeInvAlways == Spec => []PipeInv
<1>1. QED
  BY InitEstablishes, StepKeeps, PTL DEF Spec

\* Every variable of the pipeline keeps its type.
THEOREM PipelineTypes == Spec => []TypeOK
<1>1. PipeInv => TypeOK
  BY DEF PipeInv
<1>2. QED
  BY <1>1, PipeInvAlways, PTL

\* The jobs, running jobs and finished jobs of a block in flight are one.
LEMMA OneSource ==
    ASSUME PipeInv, serving, NEW b \in Block
    PROVE  Sources(b) = IF b \in pending THEN 1 ELSE 0
<1> DEFINE J == {i \in 1 .. Len(jobs) : jobs[i] = <<session, b>>}
           R == {w \in Worker : running[w] = <<session, b>>}
           E == {r \in encoded : r.block = b}
<1>1. /\ \A i \in 1 .. Len(jobs) : jobs[i][1] = session /\ jobs[i][2] \in pending
      /\ \A i, j \in 1 .. Len(jobs) : jobs[i] = jobs[j] => i = j
      /\ \A i \in 1 .. Len(jobs) : \A v \in Worker : running[v] # jobs[i]
      /\ \A i \in 1 .. Len(jobs) : \A x \in encoded : x.block # jobs[i][2]
      /\ \A v \in Worker : running[v][1] = session =>
            /\ running[v][2] \in pending
            /\ \A u \in Worker : running[u] = running[v] => u = v
            /\ \A x \in encoded : x.block # running[v][2]
      /\ \A x \in encoded : x.block \in pending /\ \A q \in encoded : q.block = x.block => q = x
      /\ \A c \in pending : \/ \E i \in 1 .. Len(jobs) : jobs[i] = <<session, c>>
                            \/ \E v \in Worker : running[v] = <<session, c>>
                            \/ \E x \in encoded : x.block = c
  BY DEF PipeInv, Flow
<1>2. Sources(b) = Cardinality(J) + Cardinality(R) + Cardinality(E)
  BY DEF Sources
<1>3. \A x : <<session, b>>[1] = session /\ <<session, b>>[2] = b
  OBVIOUS
<1>4. (\E i \in J : TRUE) => R = {} /\ E = {} /\ b \in pending
  BY <1>1
<1>5. (\E w \in R : TRUE) => J = {} /\ E = {} /\ b \in pending
  BY <1>1
<1>6. (\E r \in E : TRUE) => J = {} /\ R = {} /\ b \in pending
  BY <1>1
<1>7. /\ \A i \in J : J = {i}
      /\ \A w \in R : R = {w}
      /\ \A r \in E : E = {r}
  BY <1>1
<1>8. b \in pending => J # {} \/ R # {} \/ E # {}
  BY <1>1
<1> HIDE DEF J, R, E
<1>9. Cardinality({}) = 0 /\ \A x : Cardinality({x}) = 1
  BY FS_EmptySet, FS_Singleton
<1>10. ASSUME NEW i \in J
       PROVE  Sources(b) = IF b \in pending THEN 1 ELSE 0
  <2>1. R = {} /\ E = {} /\ b \in pending /\ Cardinality(J) = 1
    BY <1>4, <1>7, <1>9
  <2>2. QED
    BY <1>2, <1>9, <2>1
<1>11. ASSUME NEW w \in R
       PROVE  Sources(b) = IF b \in pending THEN 1 ELSE 0
  <2>1. J = {} /\ E = {} /\ b \in pending /\ Cardinality(R) = 1
    BY <1>5, <1>7, <1>9
  <2>2. QED
    BY <1>2, <1>9, <2>1
<1>12. ASSUME NEW r \in E
       PROVE  Sources(b) = IF b \in pending THEN 1 ELSE 0
  <2>1. J = {} /\ R = {} /\ b \in pending /\ Cardinality(E) = 1
    BY <1>6, <1>7, <1>9
  <2>2. QED
    BY <1>2, <1>9, <2>1
<1>13. CASE J = {} /\ R = {} /\ E = {}
  BY <1>2, <1>8, <1>9, <1>13
<1>14. QED
  BY <1>10, <1>11, <1>12, <1>13

\* Every pending block has exactly one job on its way through the pool, and
\* a block that is not pending has none.
THEOREM OneJobEach == Spec => []PendingHasOneJob
<1>1. PipeInv => PendingHasOneJob
  BY OneSource DEF PendingHasOneJob
<1>2. QED
  BY <1>1, PipeInvAlways, PTL

\* Blocks encoded or being encoded ahead of the window are at most
\* PrefetchDepth, and none of them was admitted already.
THEOREM PrefetchIsBounded == Spec => []PrefetchBounded
<1>1. ASSUME PipeInv, serving
      PROVE  LET ahead == {b \in Block : IsReady(ready, b)} \cup pending
             IN  Cardinality(ahead) <= PrefetchDepth /\ ahead \subseteq next .. TotalBlocks - 1
  <2> DEFINE ahead == {b \in Block : IsReady(ready, b)} \cup pending
             window == next .. next + PrefetchDepth - 1
  <2>1. TypeOK /\ Ahead(next, active, ready, pending)
    BY <1>1 DEF PipeInv
  <2>2. /\ pending \subseteq window /\ pending \subseteq Block
        /\ \A b \in Block : IsReady(ready, b) => b \in window
        /\ next \in Nat
    BY <2>1, Params DEF Ahead, TypeOK
  <2> HIDE DEF window
  <2>3. ahead \subseteq window /\ ahead \subseteq Block
    BY <2>2
  <2> USE DEF window
  <2>4. ahead \subseteq next .. TotalBlocks - 1
    BY <2>2, <2>3, Params DEF Block
  <2>5. IsFiniteSet(window) /\ Cardinality(window) = PrefetchDepth
    BY <2>2, Params, FS_Interval
  <2> HIDE DEF ahead, window
  <2>6. Cardinality(ahead) <= PrefetchDepth
    BY <2>3, <2>5, FS_Subset
  <2>7. QED
    BY <2>4, <2>6 DEF ahead
<1>2. PipeInv => PrefetchBounded
  BY <1>1 DEF PrefetchBounded
<1>3. QED
  BY <1>2, PipeInvAlways, PTL

-----------------------------------------------------------------------------
(* Which mmap a first flight comes from *)

\* A process of the pool, or the main one, has the version open.
Open(c, v) == v # Unopened /\ \E p \in Worker \cup {Main} : c[p] = v

\* Everything encoded, and every flight in the window, was read from an mmap
\* that is still open.
FromOpenFiles ==
    /\ \A r \in encoded : r.version = Failed \/ Open(cache, r.version)
    /\ \A b \in Block : IsReady(ready, b) => Open(cache, ready[b])
    /\ \A b \in active : Open(cache, wire[b])

\* A process keeps its mmap for good.
LEMMA OpenStays ==
    ASSUME NEW v, Open(cache, v), \A p \in Worker \cup {Main} : cache'[p] \in {cache[p], Opened(p)}
    PROVE  Open(cache', v)
BY DEF Open, Opened

\* What the loop takes is read from open files: from those of the workers, or
\* from its own for a job that raised.
LEMMA TakenFromOpen ==
    ASSUME TypeOK, FromOpenFiles, TakeEncoded,
           NEW b \in Block, IsReady(ReadyThen, b)
    PROVE  Open(cache', ReadyThen[b])
<1>1. \A p \in Worker \cup {Main} : cache'[p] \in {cache[p], Opened(p)}
  BY DEF TakeEncoded, TypeOK
<1>2. CASE b \in Taken
  <2>1. PICK r : r \in encoded /\ r = CHOOSE x \in encoded : x.block = b
    BY <1>2 DEF Taken
  <2>2. ReadyThen[b] = IF r.version = Failed THEN Opened(Main) ELSE r.version
    BY <1>2, <2>1 DEF ReadyThen
  <2>3. CASE r.version = Failed
    <3>1. cache' = [cache EXCEPT ![Main] = Opened(Main)]
      BY <2>1, <2>3 DEF TakeEncoded, Inline
    <3>2. cache'[Main] = Opened(Main)
      BY <3>1 DEF TypeOK
    <3>3. QED
      BY <2>2, <2>3, <3>2 DEF Open, IsReady
  <2>4. CASE r.version # Failed
    BY <1>1, <2>1, <2>2, <2>4, OpenStays DEF FromOpenFiles
  <2>5. QED
    BY <2>3, <2>4
<1>3. CASE b \notin Taken
  <2>1. ReadyThen[b] = ready[b]
    BY <1>3 DEF ReadyThen
  <2>2. QED
    BY <1>1, <2>1, OpenStays DEF FromOpenFiles, IsReady
<1>4. QED
  BY <1>2, <1>3

LEMMA OpenFilesStep ==
    ASSUME PipeInv, FromOpenFiles, [Next]_vars
    PROVE  FromOpenFiles'
<1>t. TypeOK
  BY DEF PipeInv
<1>1. CASE UNCHANGED vars
  BY <1>1 DEF FromOpenFiles, Open, IsReady, vars, poolVars
<1>2. CASE StartSession
  BY <1>2, <1>t DEF StartSession, FromOpenFiles, IsReady
<1>3. CASE EndSession
  BY <1>3 DEF EndSession, FromOpenFiles, Open, IsReady
<1>4. ASSUME NEW S \in SUBSET active, Turn(S)
      PROVE  FromOpenFiles'
  <2>1. TakeEncoded /\ encoded' = {} /\ ready' = ReadyThen /\ active' \subseteq active /\ wire' = wire
    BY <1>4 DEF Turn, TakeEncoded
  <2>2. \A p \in Worker \cup {Main} : cache'[p] \in {cache[p], Opened(p)}
    BY <1>t, <2>1 DEF TakeEncoded, TypeOK
  <2>3. \A b \in Block : IsReady(ready', b) => Open(cache', ready'[b])
    BY <1>t, <2>1, TakenFromOpen
  <2>4. \A b \in active' : Open(cache', wire'[b])
    BY <2>1, <2>2, OpenStays DEF FromOpenFiles
  <2>5. QED
    BY <2>1, <2>3, <2>4 DEF FromOpenFiles
<1>5. CASE AdmitReady
  <2>1. /\ TakeEncoded /\ encoded' = {}
        /\ ready' = [ReadyThen EXCEPT ![next] = Unopened]
        /\ active' = active \cup {next}
        /\ wire' = [wire EXCEPT ![next] = ReadyThen[next]]
        /\ IsReady(ReadyThen, next) /\ next \in Block
    BY <1>5, <1>t, Params DEF AdmitReady, TakeEncoded, TypeOK, Block
  <2>2. \A p \in Worker \cup {Main} : cache'[p] \in {cache[p], Opened(p)}
    BY <1>t, <2>1 DEF TakeEncoded, TypeOK
  <2>3. \A b \in Block : IsReady(ready', b) => IsReady(ReadyThen, b) /\ ready'[b] = ReadyThen[b]
    BY <2>1 DEF IsReady, ReadyThen
  <2>4. \A b \in Block : IsReady(ready', b) => Open(cache', ready'[b])
    BY <1>t, <2>1, <2>3, TakenFromOpen
  <2>5. \A b \in active' : Open(cache', wire'[b])
    <3>1. Open(cache', ReadyThen[next])
      BY <1>t, <2>1, TakenFromOpen
    <3>2. QED
      BY <1>t, <2>1, <2>2, <3>1, OpenStays DEF FromOpenFiles, TypeOK
  <2>6. QED
    BY <2>1, <2>4, <2>5 DEF FromOpenFiles
<1>6. CASE ReplaceFile
  BY <1>6 DEF ReplaceFile, FromOpenFiles, Open, IsReady, poolVars
<1>7. ASSUME NEW w \in Worker, WorkerTakes(w)
      PROVE  FromOpenFiles'
  <2>1. \A p \in Worker \cup {Main} : cache'[p] \in {cache[p], Opened(p)}
    BY <1>7, <1>t DEF WorkerTakes, TypeOK
  <2>2. UNCHANGED <<encoded, ready, active, wire>>
    BY <1>7 DEF WorkerTakes
  <2>3. QED
    BY <2>1, <2>2, OpenStays DEF FromOpenFiles, IsReady
<1>8. ASSUME NEW w \in Worker, NEW v, Finish(w, v), v = Failed \/ Open(cache, v)
      PROVE  FromOpenFiles'
  <2>1. /\ UNCHANGED <<ready, active, wire, cache>>
        /\ \A r \in encoded' : r \in encoded \/ r.version = v
    BY <1>8 DEF Finish
  <2>2. QED
    BY <1>8, <2>1 DEF FromOpenFiles, Open, IsReady
<1>9. ASSUME NEW w \in Worker, WorkerDone(w)
      PROVE  FromOpenFiles'
  <2>1. Finish(w, cache[w]) /\ Open(cache, cache[w])
    BY <1>9 DEF WorkerDone, Finish, PipeInv, Workers, Open
  <2>2. QED
    BY <1>8, <2>1
<1>10. ASSUME NEW w \in Worker, WorkerFails(w)
       PROVE  FromOpenFiles'
  BY <1>8, <1>10 DEF WorkerFails
<1>11. QED
  BY <1>1, <1>2, <1>3, <1>4, <1>5, <1>6, <1>7, <1>9, <1>10 DEF Next

\* RebuildMatchesFlight, which the code breaks, fails for a stale mmap of a
\* pool process and for nothing else: where every process that has opened the
\* file sees the version of the session, however jobs were taken, raised and
\* were encoded again, all first flights in the window match their repair.
THEOREM FreshWorkersMatch ==
    Spec => []((\A p \in Worker \cup {Main} : cache[p] \in {Unopened, mm})
                   => RebuildMatchesFlight)
<1>1. Init => FromOpenFiles
  BY DEF Init, FromOpenFiles, IsReady
<1>2. FromOpenFiles => ((\A p \in Worker \cup {Main} : cache[p] \in {Unopened, mm})
                           => RebuildMatchesFlight)
  BY DEF FromOpenFiles, Open, RebuildMatchesFlight, RepairVersion
<1>3. QED
  BY <1>1, <1>2, OpenFilesStep, PipeInvAlways, PTL DEF Spec
=============================================================================
