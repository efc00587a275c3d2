--------------------------- MODULE DriverStartProofs ---------------------------
(***************************************************************************)
(* Proofs about how the drivers start, unwind and stop.  A step may have   *)
(* got what the steps before it get, and must have got what no step before *)
(* it can miss or jump over.  What a driver holds lies between the two,    *)
(* less what the list that is being given back has already given, so that  *)
(* each property is read off the tables of the drivers.                    *)
(***************************************************************************)
EXTENDS DriverStart, TLAPS, SequenceTheorems

StepCount(d) == Len(Steps[d])

\* Step i is jumped over by a failure on the way to step n.
Jumped(d, i, n) == \E j \in 1 .. i : Steps[d][j].next \in i + 1 .. n

\* What the steps before n may have got, and what they must have.
May(d, n) == {Steps[d][i].res : i \in 1 .. n - 1}
Must(d, n) == {Steps[d][i].res : i \in {j \in 1 .. n - 1 :
                 Steps[d][j].can # "miss" /\ ~Jumped(d, j, n)}}

\* What is wrong and known to be: s is the step that failed, 0 when none did.
Excused(d, s) == CASE d = "atom_light" /\ s = 1 -> {"cdev"}
                   [] d = "ncp1854" -> {"i2cdrv"}
                   [] OTHER -> {}

Listed(u) == {u[i] : i \in 1 .. Len(u)}

\* A list of what is given back: nothing twice, and only what is held when
\* the steps before n are over, whatever they missed.
GivesBack(u, d, n, s) ==
  /\ u \in Seq(Listed(u)) /\ Len(u) < 12
  /\ \A i, j \in 1 .. Len(u) : u[i] = u[j] => i = j
  /\ \A i \in 1 .. Len(u) :
       u[i] \in Must(d, n) \cup NullSafe \cup Excused(d, s)

\* What the tables of the drivers have in common.
TableOf(d) ==
  /\ StepCount(d) \in Nat \ {0}
  /\ GivesBack(Stops[d], d, StepCount(d) + 1, 0)
  /\ \A i \in 1 .. StepCount(d) :
       LET s == Steps[d][i] IN
       /\ s.can \in {"fail", "miss", "no"}
       /\ GivesBack(s.undo, d, i, i)
       /\ s.next = 0 \/ (s.next \in i + 1 .. StepCount(d)
                         /\ d # "atom_light"
                         /\ \A k \in 1 .. Len(s.undo) :
                              s.undo[k] \notin Must(d, s.next))

\* The list that is being given back, the step it undoes, and what is gone.
Failing == phase \in {"unwind", "failed"}
List == IF Failing THEN Steps[drv][at].undo
        ELSE IF phase \in {"stop", "off"} THEN Stops[drv] ELSE <<>>
Place == IF phase = "start" THEN step ELSE IF Failing THEN at
         ELSE StepCount(drv) + 1
Gone == {List[i] : i \in 1 .. Len(List) - Len(todo)}

StartInv ==
  /\ drv \in Drivers
  /\ phase \in {"start", "unwind", "on", "stop", "failed", "off"}
  /\ at \in Nat /\ step \in Nat /\ Place \in 1 .. StepCount(drv) + 1
  /\ phase = "start" => step <= StepCount(drv)
  /\ Failing => /\ at = step /\ at <= StepCount(drv)
                /\ Steps[drv][at].can = "fail"
  /\ phase = "failed" => Steps[drv][at].next = 0
  /\ phase \notin {"unwind", "stop"} => todo = <<>>
  /\ todo \in Seq(Listed(List)) /\ Len(todo) <= Len(List)
  /\ \A i \in 1 .. Len(todo) : todo[i] = List[i + (Len(List) - Len(todo))]
  /\ Must(drv, Place) \ Gone \subseteq held
  /\ held \subseteq May(drv, Place) \ Gone
  /\ wrong \subseteq Excused(drv, IF Failing THEN at ELSE 0) \ NullSafe

-----------------------------------------------------------------------------
LEMMA MustGrow ==
  ASSUME NEW d, NEW n \in Nat
  PROVE  /\ Must(d, n + 1) \subseteq Must(d, n) \cup {Steps[d][n].res}
         /\ Steps[d][n].can = "miss" => Must(d, n + 1) \subseteq Must(d, n)
         /\ May(d, n) \subseteq May(d, n + 1)
         /\ n > 0 => Steps[d][n].res \in May(d, n + 1)
<1>1. ASSUME NEW i \in 1 .. n, Steps[d][i].can # "miss", ~Jumped(d, i, n + 1)
      PROVE  i = n \/ (i \in 1 .. n - 1 /\ ~Jumped(d, i, n))
  BY <1>1 DEF Jumped
<1>2. QED
  BY <1>1 DEF Must, May

LEMMA MustJump ==
  ASSUME NEW d, NEW n \in Nat \ {0}, NEW m \in Nat, n < m,
         Steps[d][n].next = m
  PROVE  Must(d, m) \subseteq Must(d, n) /\ May(d, n) \subseteq May(d, m)
<1>1. ASSUME NEW i \in 1 .. m - 1, ~Jumped(d, i, m)
      PROVE  i \in 1 .. n - 1 /\ ~Jumped(d, i, n)
  <2>1. i < n
    BY <1>1 DEF Jumped
  <2>2. QED
    BY <1>1, <2>1 DEF Jumped
<1>2. QED
  BY <1>1 DEF Must, May

LEMMA StartStep ==
  ASSUME \A d \in Drivers : TableOf(d), StartInv, [StartNext]_startVars
  PROVE  StartInv'
<1> DEFINE N == StepCount(drv)
<1>0. /\ drv \in Drivers /\ TableOf(drv) /\ N \in Nat \ {0}
  BY DEF StartInv, TableOf
<1>1. CASE phase = "start" /\ (StepWorks \/ StepMisses)
  <2>1. /\ step \in 1 .. N /\ todo = <<>> /\ Gone = {} /\ Place = step
        /\ wrong \subseteq Excused(drv, 0) \ NullSafe
    BY <1>1 DEF StartInv, Gone, List, Place, Failing
  <2>2. /\ UNCHANGED <<drv, at, todo, wrong>> /\ step' = step + 1
        /\ phase' = IF step = N THEN "on" ELSE "start"
    BY <1>1 DEF StepWorks, StepMisses, Advance, StepCount
  <2>3. /\ Place' = step + 1 /\ Gone' = {} /\ ~Failing' /\ List' = <<>>
    BY <1>0, <2>1, <2>2 DEF Place, Gone, List, Failing
  <2>4. held' \subseteq May(drv, step + 1) /\ Must(drv, step + 1) \subseteq held'
    BY <1>1, <2>1, MustGrow
       DEF StepWorks, StepMisses, Advance, Now, StartInv
  <2>5. /\ todo' = <<>> /\ Len(todo') = 0 /\ Len(List') = 0
        /\ step' \in Nat /\ Place' \in 1 .. N + 1
        /\ phase' = "start" => step' <= N
    <3>1. Len(<<>>) = 0
      OBVIOUS
    <3>2. step \in Nat /\ step >= 1 /\ step <= N /\ N \in Nat
      BY <1>0, <2>1
    <3> HIDE DEF N
    <3>3. step' \in Nat /\ Place' \in 1 .. N + 1
      BY <2>2, <2>3, <3>2
    <3>4. phase' = "start" => step' <= N
      BY <2>2, <3>2
    <3>5. QED
      BY <2>1, <2>2, <2>3, <3>1, <3>3, <3>4
  <2>6. phase' \in {"start", "on"}
    BY <2>2
  <2>7. /\ todo' \in Seq(Listed(List')) /\ Must(drv, Place') \ Gone' \subseteq held'
        /\ held' \subseteq May(drv, Place') \ Gone'
        /\ wrong' \subseteq Excused(drv', 0) \ NullSafe
    BY <2>1, <2>2, <2>3, <2>4, <2>5
  <2>8. QED
    BY <1>0, <2>2, <2>3, <2>5, <2>6, <2>7 DEF StartInv
<1>2. CASE StepFails
  <2>1. /\ step \in 1 .. N /\ Gone = {} /\ Place = step
        /\ wrong \subseteq Excused(drv, 0) \ NullSafe
        /\ Must(drv, step) \subseteq held /\ held \subseteq May(drv, step)
    BY <1>2 DEF StartInv, Gone, List, Place, Failing, StepFails
  <2>2. /\ UNCHANGED <<drv, step, held, wrong>> /\ phase' = "unwind"
        /\ at' = step /\ todo' = Steps[drv][step].undo
        /\ Steps[drv'][at'].can = "fail"
    BY <1>2 DEF StepFails, Now
  <2>3. /\ List' = todo' /\ Place' = step /\ Failing'
        /\ GivesBack(todo', drv, step, step)
    BY <1>0, <2>1, <2>2 DEF List, Place, Failing, TableOf
  <2>4. Gone' = {}
    BY <2>3 DEF Gone, GivesBack
  <2>5. Excused(drv, 0) \subseteq Excused(drv, step)
    BY DEF Excused
  <2>6. /\ todo' \in Seq(Listed(List')) /\ Len(todo') <= Len(List')
        /\ \A i \in 1 .. Len(todo') :
             todo'[i] = List'[i + (Len(List') - Len(todo'))]
    BY <2>3 DEF GivesBack
  <2>7. QED
    BY <1>0, <2>1, <2>2, <2>3, <2>4, <2>5, <2>6 DEF StartInv
<1>3. CASE GiveBack
  <2> DEFINE h == Head(todo)
             b == Len(List) - Len(todo)
  <2>1. /\ phase \in {"unwind", "stop"} /\ todo # <<>>
        /\ UNCHANGED <<drv, phase, at, step>> /\ todo' = Tail(todo)
        /\ held' = held \ {h} /\ wrong' = wrong \cup ({h} \ (held \cup NullSafe))
    BY <1>3 DEF GiveBack
  <2>2. /\ List' = List /\ Place' = Place /\ (Failing' <=> Failing)
    BY <2>1 DEF List, Place, Failing
  <2>3. GivesBack(List, drv, Place, IF Failing THEN at ELSE 0)
    BY <1>0, <2>1 DEF StartInv, List, Place, Failing, TableOf
  <2>4. /\ Len(List) \in Nat /\ Len(todo) \in 1 .. Len(List)
        /\ h = List[b + 1] /\ b + 1 \in 1 .. Len(List) /\ b \in Nat
        /\ Tail(todo) \in Seq(Listed(List)) /\ Len(Tail(todo)) = Len(todo) - 1
        /\ \A i \in 1 .. Len(Tail(todo)) : Tail(todo)[i] = todo[i + 1]
    BY <2>1, <2>3 DEF StartInv, GivesBack
  <2>5. /\ Len(List') - Len(todo') = b + 1
        /\ \A i \in 1 .. Len(todo') : todo'[i] = List[i + (b + 1)]
    BY <2>1, <2>2, <2>4 DEF StartInv
  <2>6. Gone' = Gone \cup {h} /\ h \notin Gone
    <3>1. Gone = {List[i] : i \in 1 .. b} /\ Gone' = {List[i] : i \in 1 .. b + 1}
      BY <2>2, <2>5 DEF Gone
    <3>2. \A i, j \in 1 .. Len(List) : List[i] = List[j] => i = j
      BY <2>3 DEF GivesBack
    <3> HIDE DEF h, b
    <3>3. QED
      BY <2>4, <3>1, <3>2
  <2>7. h \notin held \cup NullSafe => h \in Excused(drv, IF Failing THEN at ELSE 0)
    BY <2>3, <2>4, <2>6 DEF StartInv, GivesBack
  <2>8. todo' \in Seq(Listed(List'))
    BY <2>1, <2>2, <2>4
  <2>9. QED
    BY <2>1, <2>2, <2>4, <2>5, <2>6, <2>7, <2>8 DEF StartInv
<1>4. CASE Unwound
  <2>1. /\ phase = "unwind" /\ todo = <<>> /\ Failing /\ Place = at
        /\ UNCHANGED <<drv, at, todo, held, wrong>> /\ at \in 1 .. N
        /\ List = Steps[drv][at].undo
    BY <1>4 DEF Unwound, StartInv, Failing, List, Place
  <2>2. GivesBack(List, drv, at, at)
    BY <1>0, <2>1 DEF TableOf
  <2>3. Gone = {List[i] : i \in 1 .. Len(List)}
    BY <2>1, <2>2 DEF GivesBack, Gone
  <2>4. Now = Steps[drv][at]
    BY <2>1 DEF StartInv, Now
  <2>5. CASE Now.next = 0
    <3>1. phase' = "failed" /\ step' = step
      BY <1>4, <2>5 DEF Unwound
    <3>2. List' = List /\ Place' = Place /\ Failing' /\ Gone' = Gone
      BY <2>1, <3>1 DEF List, Place, Failing, Gone
    <3>3. QED
      BY <2>1, <2>4, <2>5, <3>1, <3>2 DEF StartInv
  <2>6. CASE Now.next # 0
    <3> DEFINE m == Now.next
    <3>1. phase' = "start" /\ step' = m
      BY <1>4, <2>6 DEF Unwound
    <3>2. /\ m \in at + 1 .. N /\ drv # "atom_light" /\ m \in Nat /\ at < m
          /\ \A k \in 1 .. Len(List) : List[k] \notin Must(drv, m)
      BY <1>0, <2>1, <2>4, <2>6 DEF TableOf
    <3>3. /\ List' = <<>> /\ Place' = m /\ ~Failing' /\ Gone' = {}
      BY <2>1, <3>1 DEF List, Place, Failing, Gone
    <3>4. Must(drv, m) \subseteq Must(drv, at) /\ May(drv, at) \subseteq May(drv, m)
      BY <2>1, <2>4, <3>2, MustJump DEF StartInv
    <3>5. Must(drv, m) \subseteq held /\ held \subseteq May(drv, m)
      BY <2>1, <2>3, <3>2, <3>4 DEF StartInv
    <3>6. Excused(drv, at) = Excused(drv, 0)
      BY <3>2 DEF Excused
    <3> HIDE DEF m
    <3>7. /\ todo' = <<>> /\ Len(todo') = 0 /\ Len(List') = 0
          /\ step' \in Nat /\ Place' \in 1 .. N + 1 /\ step' <= N
      <4>1. Len(<<>>) = 0
        OBVIOUS
      <4>2. QED
        BY <1>0, <2>1, <3>1, <3>2, <3>3, <4>1
    <3>8. /\ Must(drv, Place') \ Gone' \subseteq held'
          /\ held' \subseteq May(drv, Place') \ Gone'
          /\ wrong' \subseteq Excused(drv', 0) \ NullSafe
      BY <2>1, <3>3, <3>5, <3>6 DEF StartInv
    <3>9. drv' \in Drivers /\ at' \in Nat /\ StepCount(drv') = N
      BY <1>0, <2>1
    <3>10. QED
      <4>1. phase' = "start" /\ phase' \in {"start", "on"}
        BY <3>1
      <4>2. todo' \in Seq(Listed(List')) /\ ~Failing'
        BY <3>3, <3>7
      <4>3. QED
        BY <1>0, <2>1, <3>1, <3>3, <3>7, <3>8, <3>9, <4>1, <4>2 DEF StartInv
  <2>7. QED
    BY <2>5, <2>6
<1>5. CASE Stop
  <2>1. /\ Gone = {} /\ Place = N + 1 /\ ~Failing /\ phase = "on"
        /\ UNCHANGED <<drv, at, step, held, wrong>> /\ phase' = "stop"
        /\ todo' = Stops[drv]
    BY <1>5 DEF StartInv, Gone, List, Place, Failing, Stop
  <2>2. /\ List' = todo' /\ Place' = Place /\ ~Failing'
        /\ GivesBack(todo', drv, N + 1, 0)
    BY <1>0, <2>1 DEF List, Place, Failing, TableOf
  <2>3. Gone' = {}
    BY <2>2 DEF Gone, GivesBack
  <2>4. QED
    BY <1>0, <2>1, <2>2, <2>3 DEF StartInv, GivesBack
<1>6. CASE Stopped
  <2>1. /\ phase = "stop" /\ todo = <<>> /\ phase' = "off"
        /\ UNCHANGED <<drv, at, step, todo, held, wrong>>
    BY <1>6 DEF Stopped
  <2>2. /\ List' = List /\ Place' = Place /\ ~Failing' /\ ~Failing /\ Gone' = Gone
    BY <2>1 DEF List, Place, Failing, Gone
  <2>3. QED
    BY <2>1, <2>2 DEF StartInv
<1>7. CASE UNCHANGED startVars
  BY <1>7 DEF startVars, StartInv, Gone, List, Place, Failing
<1>8. QED
  BY <1>1, <1>2, <1>3, <1>4, <1>5, <1>6, <1>7 DEF StartNext, StepWorks, StepMisses

-----------------------------------------------------------------------------
(* The tables of the drivers.                                             *)

LEMMA Gets ==
  ASSUME NEW d, NEW n \in Nat, NEW i \in 1 .. n - 1,
         Steps[d][i].can # "miss", ~Jumped(d, i, n)
  PROVE  Steps[d][i].res \in Must(d, n)
BY DEF Must

LEMMA Nothing == ASSUME NEW d, NEW n, NEW s PROVE GivesBack(<<>>, d, n, s)
BY DEF GivesBack, Listed

\* The columns of a row, whichever kind it is.
LEMMA KindRes ==
  \A r, u, n : /\ Try(r, u).res = r /\ Skip(r, u, n).res = r
               /\ Hope(r).res = r /\ Do(r).res = r
BY Zenon DEF Try, Skip, Hope, Do, Step

LEMMA KindCan ==
  \A r, u, n : /\ Try(r, u).can = "fail" /\ Skip(r, u, n).can = "fail"
               /\ Hope(r).can = "miss" /\ Do(r).can = "no"
BY Zenon DEF Try, Skip, Hope, Do, Step

LEMMA KindUndo ==
  \A r, u, n : /\ Try(r, u).undo = u /\ Skip(r, u, n).undo = u
               /\ Hope(r).undo = <<>> /\ Do(r).undo = <<>>
BY Zenon DEF Try, Skip, Hope, Do, Step

LEMMA KindNext ==
  \A r, u, n : /\ Try(r, u).next = 0 /\ Skip(r, u, n).next = n
               /\ Hope(r).next = 0 /\ Do(r).next = 0
BY Zenon DEF Try, Skip, Hope, Do, Step

LEMMA LcmRows ==
  LET t == Steps["lcm_info"] IN
  /\ Len(t) = 9
  /\ t[1] = Try("devno", <<>>) /\ t[2] = Try("devp", <<"devno">>)
  /\ t[3] = Try("data", <<"devp">>) /\ t[4] = Try("cdev", <<"devp">>)
  /\ t[5] = Do("sem") /\ t[6] = Do("lock")
  /\ t[7] = Try("class", <<"cdev", "class", "devno", "devp">>)
  /\ t[8] = Try("device", <<"class", "devno", "devp">>)
  /\ t[9] = Hope("proc")
BY DEF Steps, lcminfo_init

LEMMA LcmColumns ==
  LET t == Steps["lcm_info"] IN
  /\ t[1].res = "devno" /\ t[2].res = "devp" /\ t[3].res = "data"
  /\ t[4].res = "cdev" /\ t[5].res = "sem" /\ t[6].res = "lock"
  /\ t[7].res = "class" /\ t[8].res = "device" /\ t[9].res = "proc"
  /\ t[1].undo = <<>> /\ t[2].undo = <<"devno">> /\ t[3].undo = <<"devp">>
  /\ t[4].undo = <<"devp">> /\ t[5].undo = <<>> /\ t[6].undo = <<>>
  /\ t[7].undo = <<"cdev", "class", "devno", "devp">>
  /\ t[8].undo = <<"class", "devno", "devp">> /\ t[9].undo = <<>>
  /\ \A i \in {1, 2, 3, 4, 7, 8} : t[i].can = "fail" /\ t[i].next = 0
  /\ \A i \in {5, 6} : t[i].can = "no" /\ t[i].next = 0
  /\ t[9].can = "miss" /\ t[9].next = 0
<1> DEFINE t == Steps["lcm_info"]
<1>1. /\ t[1].res = "devno" /\ t[2].res = "devp" /\ t[3].res = "data"
      /\ t[4].res = "cdev" /\ t[5].res = "sem" /\ t[6].res = "lock"
      /\ t[7].res = "class" /\ t[8].res = "device" /\ t[9].res = "proc"
  BY LcmRows, KindRes
<1>2. /\ t[1].undo = <<>> /\ t[2].undo = <<"devno">> /\ t[3].undo = <<"devp">>
      /\ t[4].undo = <<"devp">> /\ t[5].undo = <<>> /\ t[6].undo = <<>>
      /\ t[7].undo = <<"cdev", "class", "devno", "devp">>
      /\ t[8].undo = <<"class", "devno", "devp">> /\ t[9].undo = <<>>
  BY LcmRows, KindUndo
<1>3. /\ \A i \in {1, 2, 3, 4, 7, 8} : t[i].can = "fail"
      /\ \A i \in {5, 6} : t[i].can = "no"
      /\ t[9].can = "miss"
  BY LcmRows, KindCan
<1>4. \A i \in {1, 2, 3, 4, 7, 8} \cup {5, 6} \cup {9} : t[i].next = 0
  BY LcmRows, KindNext
<1>5. QED
  BY <1>1, <1>2, <1>3, <1>4, Zenon

\* What is there at each step that fails, and at the end.
LEMMA LcmMust ==
  LET m(n) == Must("lcm_info", n) IN
  /\ "devno" \in m(2) /\ {"devno", "devp"} \subseteq m(3)
  /\ {"devno", "devp", "data"} \subseteq m(4)
  /\ {"devno", "devp", "data", "cdev", "sem", "lock"} \subseteq m(7)
  /\ {"devno", "devp", "data", "cdev", "sem", "lock", "class"} \subseteq m(8)
  /\ {"devno", "devp", "data", "cdev", "sem", "lock", "class", "device"}
       \subseteq m(10)
<1> DEFINE t == Steps["lcm_info"]
           m(n) == Must("lcm_info", n)
<1>1. \A i \in 1 .. 8 : t[i].next = 0 /\ t[i].can # "miss"
  <2>1. \A i \in 1 .. 8 : i \in {1, 2, 3, 4, 7, 8} \cup {5, 6}
    OBVIOUS
  <2>2. QED
    BY <2>1, LcmColumns, Zenon
<1>2. \A n \in 1 .. 10 : \A i \in 1 .. 8 : i < n => t[i].res \in m(n)
  BY <1>1, Gets DEF Jumped
<1>3. /\ t[1].res = "devno" /\ t[2].res = "devp" /\ t[3].res = "data"
      /\ t[4].res = "cdev" /\ t[5].res = "sem" /\ t[6].res = "lock"
      /\ t[7].res = "class" /\ t[8].res = "device"
  BY LcmColumns
<1> HIDE DEF m, t
<1>4. QED
  BY <1>2, <1>3 DEF m

LEMMA LcmTable == TableOf("lcm_info")
<1> DEFINE t == Steps["lcm_info"]
           m(n) == Must("lcm_info", n)
           good(u, n, s) == GivesBack(u, "lcm_info", n, s)
<1>1. \A i \in 1 .. 9 : t[i].next = 0 /\ t[i].can \in {"fail", "miss", "no"}
  <2>1. \A i \in 1 .. 9 : i \in {1, 2, 3, 4, 7, 8} \cup {5, 6} \cup {9}
    OBVIOUS
  <2>2. QED
    BY <2>1, LcmColumns, Zenon
<1>4. /\ "devno" \in m(2) /\ "devp" \in m(3) /\ "devp" \in m(4)
      /\ {"devno", "devp", "cdev"} \subseteq m(7) \cap m(8)
      /\ {"devno", "devp", "cdev", "data"} \subseteq m(10)
  BY LcmMust
<1>5. good(<<"devno">>, 2, 2) /\ good(<<"devp">>, 3, 3) /\ good(<<"devp">>, 4, 4)
  BY <1>4 DEF GivesBack, Listed
<1>6. good(<<"cdev", "class", "devno", "devp">>, 7, 7)
  BY <1>4 DEF GivesBack, Listed, NullSafe
<1>7. good(<<"class", "devno", "devp">>, 8, 8)
  BY <1>4 DEF GivesBack, Listed, NullSafe
<1>8. good(<<"proc", "device", "class", "cdev", "data", "devp", "devno">>, 10, 0)
  BY <1>4 DEF GivesBack, Listed, NullSafe
<1>9. \A i \in 1 .. 9 : good(t[i].undo, i, i)
  <2>1. \A i \in 1 .. 9 : i \in {1, 5, 6, 9} \cup {2, 3, 4, 7, 8}
    OBVIOUS
  <2>2. \A i \in {1, 5, 6, 9} : good(t[i].undo, i, i)
    BY LcmColumns, Nothing, Zenon
  <2> HIDE DEF good
  <2>3. \A i \in {2, 3, 4, 7, 8} : good(t[i].undo, i, i)
    BY <1>5, <1>6, <1>7, LcmColumns, Zenon
  <2>4. QED
    BY <2>1, <2>2, <2>3, Zenon
<1>10. StepCount("lcm_info") = 9 /\ Stops["lcm_info"] =
        <<"proc", "device", "class", "cdev", "data", "devp", "devno">>
  BY LcmRows DEF Stops, lcminfo_exit, StepCount
<1>11. QED
  BY <1>1, <1>8, <1>9, <1>10 DEF TableOf

LEMMA AtomRows ==
  LET t == Steps["atom_light"] IN
  /\ Len(t) = 7
  /\ t[1] = Try("devno", <<"cdev">>) /\ t[2] = Try("cdev", <<"devno">>)
  /\ t[3] = Try("class", <<"cdev", "devno">>)
  /\ t[4] = Hope("device") /\ t[5] = Hope("pins")
  /\ t[6] = Do("func") /\ t[7] = Do("timer")
BY DEF Steps, _atom_probe

LEMMA AtomColumns ==
  LET t == Steps["atom_light"] IN
  /\ t[1].res = "devno" /\ t[2].res = "cdev" /\ t[3].res = "class"
  /\ t[4].res = "device" /\ t[5].res = "pins" /\ t[6].res = "func"
  /\ t[7].res = "timer"
  /\ t[1].undo = <<"cdev">> /\ t[2].undo = <<"devno">>
  /\ t[3].undo = <<"cdev", "devno">> /\ t[4].undo = <<>>
  /\ t[5].undo = <<>> /\ t[6].undo = <<>> /\ t[7].undo = <<>>
  /\ \A i \in {1, 2, 3} : t[i].can = "fail" /\ t[i].next = 0
  /\ \A i \in {4, 5} : t[i].can = "miss" /\ t[i].next = 0
  /\ \A i \in {6, 7} : t[i].can = "no" /\ t[i].next = 0
<1> DEFINE t == Steps["atom_light"]
<1>1. /\ t[1].res = "devno" /\ t[2].res = "cdev" /\ t[3].res = "class"
      /\ t[4].res = "device" /\ t[5].res = "pins" /\ t[6].res = "func"
      /\ t[7].res = "timer"
  BY AtomRows, KindRes
<1>2. /\ t[1].undo = <<"cdev">> /\ t[2].undo = <<"devno">>
      /\ t[3].undo = <<"cdev", "devno">> /\ t[4].undo = <<>>
      /\ t[5].undo = <<>> /\ t[6].undo = <<>> /\ t[7].undo = <<>>
  BY AtomRows, KindUndo
<1>3. /\ \A i \in {1, 2, 3} : t[i].can = "fail"
      /\ \A i \in {4, 5} : t[i].can = "miss"
      /\ \A i \in {6, 7} : t[i].can = "no"
  BY AtomRows, KindCan
<1>4. \A i \in {1, 2, 3} \cup {4, 5} \cup {6, 7} : t[i].next = 0
  BY AtomRows, KindNext
<1>5. QED
  BY <1>1, <1>2, <1>3, <1>4, Zenon

LEMMA AtomMust ==
  LET m(n) == Must("atom_light", n) IN
  /\ "devno" \in m(2) /\ {"devno", "cdev"} \subseteq m(3)
  /\ {"devno", "cdev", "class", "func", "timer"} \subseteq m(8)
<1> DEFINE t == Steps["atom_light"]
           m(n) == Must("atom_light", n)
<1>1. \A i \in 1 .. 7 : t[i].next = 0 /\ (i \notin {4, 5} => t[i].can # "miss")
  <2>1. \A i \in 1 .. 7 : i \in {1, 2, 3} \cup {4, 5} \cup {6, 7}
    OBVIOUS
  <2>2. QED
    BY <2>1, AtomColumns, Zenon
<1>2. \A n \in 1 .. 8 : \A i \in {1, 2, 3, 6, 7} : i < n => t[i].res \in m(n)
  BY <1>1, Gets DEF Jumped
<1>3. /\ t[1].res = "devno" /\ t[2].res = "cdev" /\ t[3].res = "class"
      /\ t[6].res = "func" /\ t[7].res = "timer"
  BY AtomColumns
<1> HIDE DEF m, t
<1>4. QED
  BY <1>2, <1>3 DEF m

LEMMA AtomTable == TableOf("atom_light")
<1> DEFINE t == Steps["atom_light"]
           m(n) == Must("atom_light", n)
           good(u, n, s) == GivesBack(u, "atom_light", n, s)
<1>1. \A i \in 1 .. 7 : t[i].next = 0 /\ t[i].can \in {"fail", "miss", "no"}
  <2>1. \A i \in 1 .. 7 : i \in {1, 2, 3} \cup {4, 5} \cup {6, 7}
    OBVIOUS
  <2>2. QED
    BY <2>1, AtomColumns, Zenon
<1>4. /\ "devno" \in m(2) /\ {"devno", "cdev"} \subseteq m(3) \cap m(8)
      /\ "class" \in m(8)
  BY AtomMust
<1>5. /\ good(<<"cdev">>, 1, 1) /\ good(<<"devno">>, 2, 2)
      /\ good(<<"cdev", "devno">>, 3, 3)
  BY <1>4 DEF GivesBack, Listed, Excused
<1>6. good(<<"cdev", "devno", "device", "class">>, 8, 0)
  BY <1>4 DEF GivesBack, Listed, NullSafe
<1>7. \A i \in 1 .. 7 : good(t[i].undo, i, i)
  <2>1. \A i \in 1 .. 7 : i \in {1, 2, 3} \cup {4, 5, 6, 7}
    OBVIOUS
  <2>2. \A i \in {4, 5, 6, 7} : good(t[i].undo, i, i)
    BY AtomColumns, Nothing, Zenon
  <2> HIDE DEF good
  <2>3. \A i \in {1, 2, 3} : good(t[i].undo, i, i)
    BY <1>5, AtomColumns, Zenon
  <2>4. QED
    BY <2>1, <2>2, <2>3, Zenon
<1>8. /\ StepCount("atom_light") = 7
      /\ Stops["atom_light"] = <<"cdev", "devno", "device", "class">>
  BY AtomRows DEF Stops, _atom_remove, StepCount
<1>9. QED
  BY <1>1, <1>6, <1>7, <1>8 DEF TableOf

\* The labels of lloop, as the lists that they come to.
LEMMA LloopLists ==
  /\ outMem2 = <<"loop_dev", "blkdev", "ioctl">>
  /\ outMem3 = <<"disks", "loop_dev", "blkdev", "ioctl">>
  /\ outMem4 = <<"disk1", "disk0", "disks", "loop_dev", "blkdev", "ioctl">>
  /\ <<"disk0">> \o outMem3 =
       <<"disk0", "disks", "loop_dev", "blkdev", "ioctl">>
  /\ <<"queue0">> \o outMem4 =
       <<"queue0", "disk1", "disk0", "disks", "loop_dev", "blkdev", "ioctl">>
<1> DEFINE S == {"queue0", "disk1", "disk0", "disks", "loop_dev", "blkdev", "ioctl"}
           w2 == <<"loop_dev", "blkdev", "ioctl">>
           w3 == <<"disks", "loop_dev", "blkdev", "ioctl">>
           w4 == <<"disk1", "disk0", "disks", "loop_dev", "blkdev", "ioctl">>
           w5 == <<"disk0", "disks", "loop_dev", "blkdev", "ioctl">>
           w6 == <<"queue0", "disk1", "disk0", "disks", "loop_dev", "blkdev", "ioctl">>
<1>1. outMem2 = w2
  <2>1. outMem2 \in Seq(S) /\ w2 \in Seq(S) /\ Len(outMem2) = 3 /\ Len(w2) = 3
    BY DEF outMem1, outMem2
  <2>2. /\ outMem2[1] = w2[1] /\ outMem2[2] = w2[2] /\ outMem2[3] = w2[3]
    BY DEF outMem1, outMem2
  <2> HIDE DEF S, w2
  <2>3. QED
    BY <2>1, <2>2, SeqEqual
<1>2. outMem3 = w3
  <2>1. outMem3 \in Seq(S) /\ w3 \in Seq(S) /\ Len(outMem3) = 4 /\ Len(w3) = 4
    BY <1>1 DEF outMem3
  <2>2. /\ outMem3[1] = w3[1] /\ outMem3[2] = w3[2] /\ outMem3[3] = w3[3]
        /\ outMem3[4] = w3[4]
    BY <1>1 DEF outMem3
  <2> HIDE DEF S, w3
  <2>3. QED
    BY <2>1, <2>2, SeqEqual
<1>3. outMem4 = w4
  <2>1. outMem4 \in Seq(S) /\ w4 \in Seq(S) /\ Len(outMem4) = 6 /\ Len(w4) = 6
    BY <1>2 DEF outMem4
  <2>2. /\ outMem4[1] = w4[1] /\ outMem4[2] = w4[2] /\ outMem4[3] = w4[3]
        /\ outMem4[4] = w4[4] /\ outMem4[5] = w4[5] /\ outMem4[6] = w4[6]
    BY <1>2 DEF outMem4
  <2> HIDE DEF S, w4
  <2>3. QED
    BY <2>1, <2>2, SeqEqual
<1>4. <<"disk0">> \o outMem3 = w5
  <2>1. /\ <<"disk0">> \o outMem3 \in Seq(S) /\ w5 \in Seq(S)
        /\ Len(<<"disk0">> \o outMem3) = 5 /\ Len(w5) = 5
    BY <1>2
  <2>2. /\ (<<"disk0">> \o outMem3)[1] = w5[1]
        /\ (<<"disk0">> \o outMem3)[2] = w5[2]
        /\ (<<"disk0">> \o outMem3)[3] = w5[3]
        /\ (<<"disk0">> \o outMem3)[4] = w5[4]
        /\ (<<"disk0">> \o outMem3)[5] = w5[5]
    BY <1>2
  <2> HIDE DEF S, w5
  <2>3. QED
    BY <2>1, <2>2, SeqEqual
<1>5. <<"queue0">> \o outMem4 = w6
  <2>1. /\ <<"queue0">> \o outMem4 \in Seq(S) /\ w6 \in Seq(S)
        /\ Len(<<"queue0">> \o outMem4) = 7 /\ Len(w6) = 7
    BY <1>3
  <2>2. /\ (<<"queue0">> \o outMem4)[1] = w6[1]
        /\ (<<"queue0">> \o outMem4)[2] = w6[2]
        /\ (<<"queue0">> \o outMem4)[3] = w6[3]
        /\ (<<"queue0">> \o outMem4)[4] = w6[4]
        /\ (<<"queue0">> \o outMem4)[5] = w6[5]
        /\ (<<"queue0">> \o outMem4)[6] = w6[6]
        /\ (<<"queue0">> \o outMem4)[7] = w6[7]
    BY <1>3
  <2> HIDE DEF S, w6
  <2>3. QED
    BY <2>1, <2>2, SeqEqual
<1>6. QED
  BY <1>1, <1>2, <1>3, <1>4, <1>5

LEMMA LloopRows ==
  LET t == Steps["lloop"] IN
  /\ Len(t) = 12
  /\ t[1] = Try("blkdev", <<>>) /\ t[2] = Try("ioctl", <<"blkdev">>)
  /\ t[3] = Try("loop_dev", outMem1) /\ t[4] = Try("disks", outMem2)
  /\ t[5] = Do("pointer") /\ t[6] = Try("disk0", outMem3)
  /\ t[7] = Try("disk1", <<"disk0">> \o outMem3) /\ t[8] = Do("mutex")
  /\ t[9] = Try("queue0", outMem4)
  /\ t[10] = Try("queue1", <<"queue0">> \o outMem4)
  /\ t[11] = Do("added0") /\ t[12] = Do("added1")
BY DEF Steps, lloop_init

LEMMA LloopColumns ==
  LET t == Steps["lloop"] IN
  /\ t[1].res = "blkdev" /\ t[2].res = "ioctl" /\ t[3].res = "loop_dev"
  /\ t[4].res = "disks" /\ t[5].res = "pointer" /\ t[6].res = "disk0"
  /\ t[7].res = "disk1" /\ t[8].res = "mutex" /\ t[9].res = "queue0"
  /\ t[10].res = "queue1" /\ t[11].res = "added0" /\ t[12].res = "added1"
  /\ t[1].undo = <<>> /\ t[2].undo = <<"blkdev">>
  /\ t[3].undo = <<"blkdev", "ioctl">>
  /\ t[4].undo = <<"loop_dev", "blkdev", "ioctl">> /\ t[5].undo = <<>>
  /\ t[6].undo = <<"disks", "loop_dev", "blkdev", "ioctl">>
  /\ t[7].undo = <<"disk0", "disks", "loop_dev", "blkdev", "ioctl">>
  /\ t[8].undo = <<>>
  /\ t[9].undo = <<"disk1", "disk0", "disks", "loop_dev", "blkdev", "ioctl">>
  /\ t[10].undo =
       <<"queue0", "disk1", "disk0", "disks", "loop_dev", "blkdev", "ioctl">>
  /\ t[11].undo = <<>> /\ t[12].undo = <<>>
  /\ \A i \in {1, 2, 3, 4, 6, 7, 9, 10} : t[i].can = "fail" /\ t[i].next = 0
  /\ \A i \in {5, 8, 11, 12} : t[i].can = "no" /\ t[i].next = 0
<1> DEFINE t == Steps["lloop"]
<1>1. /\ t[1].res = "blkdev" /\ t[2].res = "ioctl" /\ t[3].res = "loop_dev"
      /\ t[4].res = "disks" /\ t[5].res = "pointer" /\ t[6].res = "disk0"
      /\ t[7].res = "disk1" /\ t[8].res = "mutex" /\ t[9].res = "queue0"
      /\ t[10].res = "queue1" /\ t[11].res = "added0" /\ t[12].res = "added1"
  BY LloopRows, KindRes
<1>2. /\ t[1].undo = <<>> /\ t[2].undo = <<"blkdev">> /\ t[3].undo = outMem1
      /\ t[4].undo = outMem2 /\ t[5].undo = <<>> /\ t[6].undo = outMem3
      /\ t[7].undo = <<"disk0">> \o outMem3 /\ t[8].undo = <<>>
      /\ t[9].undo = outMem4 /\ t[10].undo = <<"queue0">> \o outMem4
      /\ t[11].undo = <<>> /\ t[12].undo = <<>>
  <2>1. /\ t[1].undo = <<>> /\ t[2].undo = <<"blkdev">> /\ t[5].undo = <<>>
        /\ t[8].undo = <<>> /\ t[11].undo = <<>> /\ t[12].undo = <<>>
    BY LloopRows, KindUndo
  <2>2. /\ t[3].undo = outMem1 /\ t[4].undo = outMem2 /\ t[6].undo = outMem3
        /\ t[9].undo = outMem4
    BY LloopRows, KindUndo
  <2>3. t[7].undo = <<"disk0">> \o outMem3
    <3>1. t[7] = Try("disk1", <<"disk0">> \o outMem3)
      BY LloopRows, Zenon
    <3>2. QED
      BY <3>1, KindUndo, Zenon
  <2>4. t[10].undo = <<"queue0">> \o outMem4
    <3>1. t[10] = Try("queue1", <<"queue0">> \o outMem4)
      BY LloopRows, Zenon
    <3>2. QED
      BY <3>1, KindUndo, Zenon
  <2>5. QED
    BY <2>1, <2>2, <2>3, <2>4, Zenon
<1>3. /\ \A i \in {1, 2, 3, 4, 6, 7, 9, 10} : t[i].can = "fail"
      /\ \A i \in {5, 8, 11, 12} : t[i].can = "no"
  BY LloopRows, KindCan
<1>4. \A i \in {1, 2, 3, 4, 6, 7, 9, 10} \cup {5, 8, 11, 12} : t[i].next = 0
  BY LloopRows, KindNext
<1>5. outMem1 = <<"blkdev", "ioctl">>
  BY DEF outMem1
<1>6. QED
  BY <1>1, <1>2, <1>3, <1>4, <1>5, LloopLists, Zenon

LEMMA LloopMust ==
  LET m(n) == Must("lloop", n) IN
  /\ "blkdev" \in m(2) /\ {"blkdev", "ioctl"} \subseteq m(3)
  /\ {"blkdev", "loop_dev"} \subseteq m(4)
  /\ {"blkdev", "loop_dev", "disks"} \subseteq m(6)
  /\ {"blkdev", "loop_dev", "disks", "disk0"} \subseteq m(7)
  /\ {"blkdev", "loop_dev", "disks", "disk0", "disk1"} \subseteq m(9)
  /\ {"blkdev", "loop_dev", "disks", "disk0", "disk1", "queue0"}
       \subseteq m(10)
  /\ {"blkdev", "loop_dev", "disks", "disk0", "disk1", "mutex", "queue0",
      "queue1", "added0", "added1"} \subseteq m(13)
<1> DEFINE t == Steps["lloop"]
           m(n) == Must("lloop", n)
<1>1. \A i \in 1 .. 12 : t[i].next = 0 /\ t[i].can # "miss"
  <2>1. \A i \in 1 .. 12 : i \in {1, 2, 3, 4, 6, 7, 9, 10} \cup {5, 8, 11, 12}
    OBVIOUS
  <2>2. QED
    BY <2>1, LloopColumns, Zenon
<1>2. \A n \in 1 .. 13 : \A i \in 1 .. 12 : i < n => t[i].res \in m(n)
  <2>1. \A n \in 1 .. 13 : \A i \in 1 .. 12 : ~Jumped("lloop", i, n)
    BY <1>1 DEF Jumped
  <2>2. QED
    BY <1>1, <2>1, Gets
<1>3. /\ t[1].res = "blkdev" /\ t[2].res = "ioctl" /\ t[3].res = "loop_dev"
      /\ t[4].res = "disks" /\ t[6].res = "disk0" /\ t[7].res = "disk1"
      /\ t[8].res = "mutex" /\ t[9].res = "queue0" /\ t[10].res = "queue1"
      /\ t[11].res = "added0" /\ t[12].res = "added1"
  BY LloopColumns, Zenon
<1> HIDE DEF m, t
<1>4. QED
  BY <1>2, <1>3 DEF m

LEMMA LloopTable == TableOf("lloop")
<1> DEFINE t == Steps["lloop"]
           m(n) == Must("lloop", n)
           good(u, n, s) == GivesBack(u, "lloop", n, s)
<1>1. \A i \in 1 .. 12 : t[i].next = 0 /\ t[i].can \in {"fail", "miss", "no"}
  <2>1. \A i \in 1 .. 12 : i \in {1, 2, 3, 4, 6, 7, 9, 10} \cup {5, 8, 11, 12}
    OBVIOUS
  <2>2. QED
    BY <2>1, LloopColumns, Zenon
<1>4. /\ "blkdev" \in m(2) /\ "blkdev" \in m(3)
      /\ {"blkdev", "loop_dev"} \subseteq m(4)
      /\ {"blkdev", "loop_dev", "disks"} \subseteq m(6)
      /\ {"blkdev", "loop_dev", "disks", "disk0"} \subseteq m(7)
      /\ {"blkdev", "loop_dev", "disks", "disk0", "disk1"} \subseteq m(9)
      /\ {"blkdev", "loop_dev", "disks", "disk0", "disk1", "queue0"}
           \subseteq m(10)
      /\ {"blkdev", "loop_dev", "disks", "disk0", "disk1", "queue0", "queue1",
          "added0", "added1"} \subseteq m(13)
  BY LloopMust
<1>5. /\ good(<<"blkdev">>, 2, 2) /\ good(<<"blkdev", "ioctl">>, 3, 3)
      /\ good(<<"loop_dev", "blkdev", "ioctl">>, 4, 4)
  BY <1>4 DEF GivesBack, Listed, NullSafe
<1>6. /\ good(<<"disks", "loop_dev", "blkdev", "ioctl">>, 6, 6)
      /\ good(<<"disk0", "disks", "loop_dev", "blkdev", "ioctl">>, 7, 7)
  BY <1>4 DEF GivesBack, Listed, NullSafe
<1>7. good(<<"disk1", "disk0", "disks", "loop_dev", "blkdev", "ioctl">>, 9, 9)
  BY <1>4 DEF GivesBack, Listed, NullSafe
<1>8. good(<<"queue0", "disk1", "disk0", "disks", "loop_dev", "blkdev",
             "ioctl">>, 10, 10)
  BY <1>4 DEF GivesBack, Listed, NullSafe
<1>9. good(<<"ioctl", "added0", "queue0", "disk0", "added1", "queue1", "disk1",
             "blkdev", "disks", "loop_dev">>, 13, 0)
  BY <1>4 DEF GivesBack, Listed, NullSafe
<1>10. \A i \in 1 .. 12 : good(t[i].undo, i, i)
  <2>1. \A i \in 1 .. 12 : i \in {1, 5, 8, 11, 12} \cup {2, 3, 4, 6, 7, 9, 10}
    OBVIOUS
  <2>2. \A i \in {1, 5, 8, 11, 12} : good(t[i].undo, i, i)
    BY LloopColumns, Nothing, Zenon
  <2> HIDE DEF good
  <2>3. \A i \in {2, 3, 4, 6, 7, 9, 10} : good(t[i].undo, i, i)
    <3>1. /\ t[2].undo = <<"blkdev">> /\ t[3].undo = <<"blkdev", "ioctl">>
          /\ t[4].undo = <<"loop_dev", "blkdev", "ioctl">>
      BY LloopColumns, Zenon
    <3>2. /\ t[6].undo = <<"disks", "loop_dev", "blkdev", "ioctl">>
          /\ t[7].undo = <<"disk0", "disks", "loop_dev", "blkdev", "ioctl">>
      BY LloopColumns, Zenon
    <3>3. t[9].undo =
            <<"disk1", "disk0", "disks", "loop_dev", "blkdev", "ioctl">>
      BY LloopColumns, Zenon
    <3>4. t[10].undo = <<"queue0", "disk1", "disk0", "disks", "loop_dev",
                         "blkdev", "ioctl">>
      BY LloopColumns, Zenon
    <3> HIDE DEF t
    <3>5. /\ good(t[2].undo, 2, 2) /\ good(t[3].undo, 3, 3)
          /\ good(t[4].undo, 4, 4)
      BY <1>5, <3>1, Zenon
    <3>6. good(t[6].undo, 6, 6) /\ good(t[7].undo, 7, 7)
      BY <1>6, <3>2, Zenon
    <3>7. good(t[9].undo, 9, 9)
      BY <1>7, <3>3, Zenon
    <3>8. good(t[10].undo, 10, 10)
      BY <1>8, <3>4, Zenon
    <3>9. QED
      BY <3>5, <3>6, <3>7, <3>8, Zenon
  <2>4. QED
    BY <2>1, <2>2, <2>3, Zenon
<1>11. /\ StepCount("lloop") = 12
       /\ Stops["lloop"] = <<"ioctl", "added0", "queue0", "disk0", "added1",
                             "queue1", "disk1", "blkdev", "disks", "loop_dev">>
  BY LloopRows DEF Stops, lloop_exit, StepCount
<1>12. QED
  BY <1>1, <1>9, <1>10, <1>11 DEF TableOf

LEMMA NcpRows ==
  LET t == Steps["ncp1854"] IN
  /\ Len(t) = 6
  /\ t[1] = Skip("i2cdrv", <<>>, 4) /\ t[2] = Skip("mem", <<>>, 4)
  /\ t[3] = Do("client") /\ t[4] = Try("pdev", <<>>)
  /\ t[5] = Try("pdrv", <<>>) /\ t[6] = Hope("attr")
BY DEF Steps, ncp1854_init, ncp1854_driver_probe

LEMMA NcpTable == TableOf("ncp1854")
<1> DEFINE t == Steps["ncp1854"]
<1>1. \A i \in 1 .. 6 : /\ t[i].next \in {0, 4} /\ (t[i].next = 4 => i < 3)
                        /\ t[i].undo = <<>> /\ t[i].can \in {"fail", "miss", "no"}
  BY NcpRows DEF Try, Do, Hope, Skip, Step
<1>2. GivesBack(<<"i2cdrv">>, "ncp1854", 7, 0)
  BY DEF GivesBack, Listed, Excused
<1>3. StepCount("ncp1854") = 6 /\ Stops["ncp1854"] = <<"i2cdrv">>
  BY NcpRows DEF Stops, ncp1854_exit, StepCount
<1>4. QED
  BY <1>1, <1>2, <1>3, Nothing DEF TableOf

LEMMA KdRows ==
  LET t == Steps["kd"] IN
  /\ Len(t) = 20
  /\ t[1] = Hope("list") /\ t[2] = Try("pdrv1", <<>>)
  /\ t[3] = Skip("i2cdrv1", <<>>, 11) /\ t[4] = Skip("client", <<>>, 11)
  /\ t[5] = Skip("devno", <<>>, 11) /\ t[6] = Skip("cdevmem", <<"devno">>, 11)
  /\ t[7] = Skip("cdev", <<"devno">>, 11) /\ t[8] = Skip("class", <<>>, 11)
  /\ t[9] = Hope("device") /\ t[10] = Hope("regulators")
  /\ t[11] = Try("pdrv2", <<>>) /\ t[12] = Skip("i2cdrv2", <<>>, 19)
  /\ t[13] = Skip("client2", <<>>, 19) /\ t[14] = Skip("devno2", <<>>, 19)
  /\ t[15] = Skip("cdevmem2", <<"devno2">>, 19)
  /\ t[16] = Skip("cdev2", <<"devno2">>, 19) /\ t[17] = Skip("class2", <<>>, 19)
  /\ t[18] = Hope("device2") /\ t[19] = Hope("proc") /\ t[20] = Do("counters")
BY DEF Steps, CAMERA_HW_i2C_init, CAMERA_HW_i2c_probe, CAMERA_HW_i2c_probe2,
   RegisterCAMERA_HWCharDrv, RegisterCAMERA_HWCharDrv2

\* The rows of the sensor driver, by what a failure does: 1 .. 20 is all.
LEMMA KdColumns ==
  LET t == Steps["kd"] IN
  /\ \A i \in 1 .. 20 : i \in {1, 9, 10, 18, 19} \cup {2, 11, 20}
       \cup {3, 4, 5, 8} \cup {6, 7} \cup {12, 13, 14, 17} \cup {15, 16}
  /\ \A i \in {1, 9, 10, 18, 19} :
       t[i].can = "miss" /\ t[i].undo = <<>> /\ t[i].next = 0
  /\ \A i \in {2, 11, 20} :
       t[i].can \in {"fail", "no"} /\ t[i].undo = <<>> /\ t[i].next = 0
  /\ \A i \in {3, 4, 5, 8} :
       t[i].can = "fail" /\ t[i].undo = <<>> /\ t[i].next = 11
  /\ \A i \in {6, 7} :
       t[i].can = "fail" /\ t[i].undo = <<"devno">> /\ t[i].next = 11
  /\ \A i \in {12, 13, 14, 17} :
       t[i].can = "fail" /\ t[i].undo = <<>> /\ t[i].next = 19
  /\ \A i \in {15, 16} :
       t[i].can = "fail" /\ t[i].undo = <<"devno2">> /\ t[i].next = 19
<1> DEFINE t == Steps["kd"]
<1>1. \A i \in 1 .. 20 : i \in {1, 9, 10, 18, 19} \cup {2, 11, 20}
        \cup {3, 4, 5, 8} \cup {6, 7} \cup {12, 13, 14, 17} \cup {15, 16}
  OBVIOUS
<1>2. /\ \A i \in {1, 9, 10, 18, 19} : t[i].can = "miss"
      /\ \A i \in {2, 11} : t[i].can = "fail"
      /\ t[20].can = "no"
  BY KdRows, KindCan
<1>3. /\ \A i \in {3, 4, 5, 8} \cup {6, 7} : t[i].can = "fail"
      /\ \A i \in {12, 13, 14, 17} \cup {15, 16} : t[i].can = "fail"
  BY KdRows, KindCan
<1>4. /\ \A i \in {1, 9, 10, 18, 19} \cup {2, 11, 20} : t[i].undo = <<>>
      /\ \A i \in {3, 4, 5, 8} \cup {12, 13, 14, 17} : t[i].undo = <<>>
  BY KdRows, KindUndo
<1>5. /\ \A i \in {6, 7} : t[i].undo = <<"devno">>
      /\ \A i \in {15, 16} : t[i].undo = <<"devno2">>
  BY KdRows, KindUndo
<1>6. \A i \in {1, 9, 10, 18, 19} \cup {2, 11, 20} : t[i].next = 0
  BY KdRows, KindNext
<1>7. /\ \A i \in {3, 4, 5, 8} \cup {6, 7} : t[i].next = 11
      /\ \A i \in {12, 13, 14, 17} \cup {15, 16} : t[i].next = 19
  BY KdRows, KindNext
<1>8. QED
  BY <1>1, <1>2, <1>3, <1>4, <1>5, <1>6, <1>7, Zenon

LEMMA KdNext ==
  \A i \in 1 .. 20 :
    /\ i <= 2 => Steps["kd"][i].next = 0
    /\ i <= 11 => Steps["kd"][i].next \in {0, 11}
    /\ Steps["kd"][i].next \in {0, 11, 19}
    /\ Steps["kd"][i].next # 0 => Steps["kd"][i].next > i
<1> DEFINE n(i) == Steps["kd"][i].next
<1>1. \A i \in {1, 2, 9, 10, 11, 18, 19, 20} : n(i) = 0
  BY KdRows, KindNext
<1>2. \A i \in {3, 4, 5, 6, 7, 8} : n(i) = 11
  BY KdRows, KindNext
<1>3. \A i \in {12, 13, 14, 15, 16, 17} : n(i) = 19
  BY KdRows, KindNext
<1>4. \A i \in 1 .. 20 : i \in {1, 2, 9, 10, 11, 18, 19, 20}
        \/ i \in {3, 4, 5, 6, 7, 8} \/ i \in {12, 13, 14, 15, 16, 17}
  OBVIOUS
<1> HIDE DEF n
<1>5. ASSUME NEW i \in 1 .. 20
      PROVE  /\ i <= 2 => n(i) = 0
             /\ i <= 11 => n(i) \in {0, 11}
             /\ n(i) \in {0, 11, 19} /\ (n(i) # 0 => n(i) > i)
  BY <1>1, <1>2, <1>3, <1>4
<1>6. QED
  BY <1>5 DEF n

LEMMA KdTable == TableOf("kd")
<1> DEFINE t == Steps["kd"]
           m(n) == Must("kd", n)
           good(u, n, s) == GivesBack(u, "kd", n, s)
<1>1. /\ t[1].res = "list" /\ t[2].res = "pdrv1" /\ t[3].res = "i2cdrv1"
      /\ t[4].res = "client" /\ t[5].res = "devno" /\ t[6].res = "cdevmem"
      /\ t[7].res = "cdev" /\ t[8].res = "class" /\ t[9].res = "device"
      /\ t[10].res = "regulators" /\ t[11].res = "pdrv2"
      /\ t[12].res = "i2cdrv2" /\ t[13].res = "client2" /\ t[14].res = "devno2"
      /\ t[15].res = "cdevmem2" /\ t[16].res = "cdev2" /\ t[17].res = "class2"
      /\ t[18].res = "device2" /\ t[19].res = "proc" /\ t[20].res = "counters"
  BY KdRows, KindRes
<1>2. /\ ~Jumped("kd", 2, 21) /\ ~Jumped("kd", 11, 21)
      /\ \A n \in {6, 7} : ~Jumped("kd", 5, n)
      /\ \A n \in {15, 16} : ~Jumped("kd", 14, n)
  <2>1. ~Jumped("kd", 2, 21)
    BY KdNext DEF Jumped
  <2>2. ~Jumped("kd", 11, 21)
    BY KdNext DEF Jumped
  <2>3. \A n \in {6, 7} : ~Jumped("kd", 5, n)
    BY KdNext DEF Jumped
  <2>4. \A n \in {15, 16} : ~Jumped("kd", 14, n)
    BY KdNext DEF Jumped
  <2>5. QED
    BY <2>1, <2>2, <2>3, <2>4
<1>3. /\ "pdrv1" \in m(21) /\ "pdrv2" \in m(21)
      /\ \A n \in {6, 7} : "devno" \in m(n)
      /\ \A n \in {15, 16} : "devno2" \in m(n)
  <2>1. /\ t[2].can # "miss" /\ t[5].can # "miss" /\ t[11].can # "miss"
        /\ t[14].can # "miss"
    BY KdColumns
  <2> HIDE DEF t
  <2>2. QED
    BY <1>1, <1>2, <2>1, Gets DEF t
<1>4. \A i \in 1 .. 20 : (t[i].res = "devno" => i = 5) /\ (t[i].res = "devno2" => i = 14)
  <2>1. \A i \in 1 .. 20 : i \in {1, 2, 3, 4, 5, 6, 7, 8, 9, 10, 11, 12, 13, 14,
                                  15, 16, 17, 18, 19, 20}
    OBVIOUS
  <2> HIDE DEF t
  <2>2. QED
    BY <1>1, <2>1
<1>5. "devno" \notin m(11) /\ "devno2" \notin m(19)
  <2>1. Jumped("kd", 5, 11) /\ Jumped("kd", 14, 19)
    BY KdColumns DEF Jumped
  <2>2. QED
    BY <1>4, <2>1 DEF Must
<1>6. /\ \A n \in {6, 7} : good(<<"devno">>, n, n)
      /\ \A n \in {15, 16} : good(<<"devno2">>, n, n)
  BY <1>3 DEF GivesBack, Listed
<1>7. good(<<"i2cdrv1", "pdrv1", "i2cdrv2", "pdrv2">>, 21, 0)
  BY <1>3 DEF GivesBack, Listed, NullSafe
<1>8. /\ StepCount("kd") = 20
      /\ Stops["kd"] = <<"i2cdrv1", "pdrv1", "i2cdrv2", "pdrv2">>
  BY KdRows DEF Stops, CAMERA_HW_i2C_exit, StepCount
<1>9. ASSUME NEW i \in 1 .. 20
      PROVE  /\ t[i].can \in {"fail", "miss", "no"}
             /\ good(t[i].undo, i, i)
             /\ t[i].next = 0 \/ (t[i].next \in i + 1 .. 20
                                  /\ \A k \in 1 .. Len(t[i].undo) :
                                       t[i].undo[k] \notin m(t[i].next))
  <2> HIDE DEF good, m
  <2>1. good(<<>>, i, i)
    BY Nothing DEF good
  <2>2. CASE i \in {1, 9, 10, 18, 19} \cup {2, 11, 20}
    BY <2>1, <2>2, KdColumns, Zenon
  <2>3. CASE i \in {3, 4, 5, 8} \cup {12, 13, 14, 17}
    <3>1. /\ t[i].undo = <<>> /\ t[i].next \in {11, 19} /\ t[i].can = "fail"
          /\ good(t[i].undo, i, i)
      BY <2>1, <2>3, KdColumns, Zenon
    <3>2. Len(<<>>) = 0
      OBVIOUS
    <3>3. t[i].next \in {11, 19}
      BY <3>1
    <3>4. t[i].next > i /\ t[i].next <= 20
      BY <3>3, KdNext
    <3> HIDE DEF t
    <3>5. t[i].next \in i + 1 .. 20 /\ 1 .. Len(t[i].undo) = {}
      BY <3>1, <3>2, <3>3, <3>4
    <3>6. QED
      BY <3>1, <3>5
  <2>4. CASE i \in {6, 7}
    <3> DEFINE u == <<"devno">>
    <3>1. Len(u) = 1 /\ \A k \in 1 .. 1 : u[k] = "devno"
      OBVIOUS
    <3> HIDE DEF u
    <3>2. t[i].undo = u /\ t[i].next = 11 /\ t[i].can = "fail" /\ good(u, i, i)
      BY <1>6, <2>4, KdColumns, Zenon DEF u
    <3> HIDE DEF t
    <3>3. t[i].next \in i + 1 .. 20
      BY <2>4, <3>2
    <3>4. \A k \in 1 .. Len(u) : u[k] \notin m(11)
      BY <1>5, <3>1
    <3>5. QED
      BY <3>2, <3>3, <3>4, Zenon
  <2>5. CASE i \in {15, 16}
    <3> DEFINE u == <<"devno2">>
    <3>1. Len(u) = 1 /\ \A k \in 1 .. 1 : u[k] = "devno2"
      OBVIOUS
    <3> HIDE DEF u
    <3>2. t[i].undo = u /\ t[i].next = 19 /\ t[i].can = "fail" /\ good(u, i, i)
      BY <1>6, <2>5, KdColumns, Zenon DEF u
    <3> HIDE DEF t
    <3>3. t[i].next \in i + 1 .. 20
      BY <2>5, <3>2
    <3>4. \A k \in 1 .. Len(u) : u[k] \notin m(19)
      BY <1>5, <3>1
    <3>5. QED
      BY <3>2, <3>3, <3>4, Zenon
  <2>6. QED
    <3>1. i \in {1, 9, 10, 18, 19} \cup {2, 11, 20}
          \cup {3, 4, 5, 8} \cup {6, 7} \cup {12, 13, 14, 17} \cup {15, 16}
      BY KdColumns, Zenon
    <3>2. QED
      BY <2>2, <2>3, <2>4, <2>5, <3>1, Zenon
<1>10. /\ StepCount("kd") \in Nat \ {0}
       /\ GivesBack(Stops["kd"], "kd", StepCount("kd") + 1, 0)
  BY <1>7, <1>8
<1>11. QED
  BY <1>8, <1>9, <1>10 DEF TableOf

-----------------------------------------------------------------------------
(* The invariant.                                                          *)

LEMMA AllTables == \A d \in Drivers : TableOf(d)
BY LcmTable, AtomTable, LloopTable, NcpTable, KdTable DEF Drivers

LEMMA StartInitially == StartInit => StartInv
<1> SUFFICES ASSUME StartInit PROVE StartInv
  OBVIOUS
<1>1. /\ drv \in Drivers /\ phase = "start" /\ at = 0 /\ step = 1
      /\ todo = <<>> /\ held = {} /\ wrong = {}
  BY DEF StartInit
<1>2. StepCount(drv) \in Nat \ {0}
  BY <1>1, AllTables DEF TableOf
<1>3. List = <<>> /\ ~Failing /\ Place = 1 /\ Gone = {}
  BY <1>1 DEF List, Failing, Place, Gone
<1>4. Must(drv, 1) = {} /\ May(drv, 1) = {}
  BY DEF Must, May
<1>5. /\ todo \in Seq(Listed(List)) /\ Len(todo) <= Len(List)
      /\ \A i \in 1 .. Len(todo) : todo[i] = List[i + (Len(List) - Len(todo))]
  BY <1>1, <1>3
<1>6. QED
  BY <1>1, <1>2, <1>3, <1>4, <1>5 DEF StartInv

LEMMA StartTypes == StartInv => StartTypeOK
<1> SUFFICES ASSUME StartInv PROVE StartTypeOK
  OBVIOUS
<1>1. TableOf(drv)
  BY AllTables DEF StartInv
<1>2. Len(List) < 12
  <2>1. CASE Failing
    BY <1>1, <2>1 DEF StartInv, TableOf, GivesBack, List, Place
  <2>2. CASE phase \in {"stop", "off"}
    BY <1>1, <2>2 DEF TableOf, GivesBack, List, Failing
  <2>3. CASE ~Failing /\ phase \notin {"stop", "off"}
    <3>1. List = <<>>
      BY <2>3 DEF List
    <3>2. Len(<<>>) = 0
      OBVIOUS
    <3>3. QED
      BY <3>1, <3>2
  <2>4. QED
    BY <2>1, <2>2, <2>3
<1>3. Len(todo) \in Nat /\ Len(List) \in Nat
  <2>1. List \in Seq(Listed(List))
    <3>1. CASE Failing
      BY <1>1, <3>1 DEF StartInv, TableOf, GivesBack, List, Place
    <3>2. CASE phase \in {"stop", "off"}
      BY <1>1, <3>2 DEF TableOf, GivesBack, List, Failing
    <3>3. CASE ~Failing /\ phase \notin {"stop", "off"}
      BY <3>3 DEF List
    <3>4. QED
      BY <3>1, <3>2, <3>3
  <2>2. QED
    BY <2>1 DEF StartInv
<1>4. Len(todo) < 12
  BY <1>2, <1>3 DEF StartInv
<1>5. QED
  BY <1>4 DEF StartInv, StartTypeOK

LEMMA StartInvariant == StartSpec => []StartInv
BY StartInitially, StartStep, AllTables, PTL DEF StartSpec

LEMMA Ends ==
  ASSUME StartInv, phase \in {"failed", "off"}
  PROVE  /\ Must(drv, Place) \ Listed(List) \subseteq held
         /\ held \subseteq May(drv, Place) \ Listed(List)
         /\ phase = "off" => /\ Place = StepCount(drv) + 1 /\ List = Stops[drv]
                             /\ wrong \subseteq Excused(drv, 0) \ NullSafe
         /\ phase = "failed" =>
              /\ Place = at /\ List = Steps[drv][at].undo
              /\ at \in 1 .. StepCount(drv)
              /\ Steps[drv][at].can = "fail" /\ Steps[drv][at].next = 0
              /\ wrong \subseteq Excused(drv, at) \ NullSafe
<1>1. todo = <<>> /\ Len(<<>>) = 0
  BY DEF StartInv
<1>2. Len(List) \in Nat
  <2>1. TableOf(drv)
    BY AllTables DEF StartInv
  <2>2. GivesBack(List, drv, Place, IF Failing THEN at ELSE 0)
    BY <2>1 DEF StartInv, List, Place, Failing, TableOf
  <2>3. QED
    BY <2>2 DEF GivesBack
<1>3. Gone = Listed(List)
  BY <1>1, <1>2 DEF Gone, Listed
<1>4. QED
  BY <1>3 DEF StartInv, Place, List, Failing

LEMMA MayFirst == ASSUME NEW d PROVE May(d, 1) = {}
BY DEF May

LEMMA MayNext ==
  ASSUME NEW d, NEW n \in Nat \ {0}
  PROVE  May(d, n + 1) = May(d, n) \cup {Steps[d][n].res}
BY DEF May

LEMMA LcmMay ==
  LET m(n) == May("lcm_info", n) IN
  /\ m(1) = {}
  /\ m(2) = {"devno"}
  /\ m(3) = {"devno", "devp"}
  /\ m(4) = {"devno", "devp", "data"}
  /\ m(7) = {"devno", "devp", "data", "cdev", "sem", "lock"}
  /\ m(8) = {"devno", "devp", "data", "cdev", "sem", "lock", "class"}
  /\ m(10) = {"devno", "devp", "data", "cdev", "sem", "lock", "class",
              "device", "proc"}
<1> DEFINE t == Steps["lcm_info"]
           m(n) == May("lcm_info", n)
<1>1. /\ t[1].res = "devno" /\ t[2].res = "devp" /\ t[3].res = "data"
      /\ t[4].res = "cdev" /\ t[5].res = "sem" /\ t[6].res = "lock"
      /\ t[7].res = "class" /\ t[8].res = "device" /\ t[9].res = "proc"
  BY LcmColumns, Zenon
<1>2. /\ m(1) = {} /\ m(2) = m(1) \cup {t[1].res}
      /\ m(3) = m(2) \cup {t[2].res} /\ m(4) = m(3) \cup {t[3].res}
      /\ m(5) = m(4) \cup {t[4].res} /\ m(6) = m(5) \cup {t[5].res}
      /\ m(7) = m(6) \cup {t[6].res} /\ m(8) = m(7) \cup {t[7].res}
      /\ m(9) = m(8) \cup {t[8].res} /\ m(10) = m(9) \cup {t[9].res}
  <2>1. \A n \in Nat \ {0} : m(n + 1) = m(n) \cup {t[n].res}
    BY MayNext, Zenon
  <2> HIDE DEF m, t
  <2>2. /\ m(1 + 1) = m(1) \cup {t[1].res} /\ m(2 + 1) = m(2) \cup {t[2].res}
        /\ m(3 + 1) = m(3) \cup {t[3].res} /\ m(4 + 1) = m(4) \cup {t[4].res}
        /\ m(5 + 1) = m(5) \cup {t[5].res} /\ m(6 + 1) = m(6) \cup {t[6].res}
        /\ m(7 + 1) = m(7) \cup {t[7].res} /\ m(8 + 1) = m(8) \cup {t[8].res}
        /\ m(9 + 1) = m(9) \cup {t[9].res}
    BY <2>1
  <2>3. QED
    BY <2>2, MayFirst DEF m
<1> HIDE DEF m, t
<1>3. QED
  BY <1>1, <1>2 DEF m

LEMMA AtomMay ==
  LET m(n) == May("atom_light", n) IN
  /\ m(1) = {}
  /\ m(2) = {"devno"}
  /\ m(3) = {"devno", "cdev"}
  /\ m(8) = {"devno", "cdev", "class", "device", "pins", "func", "timer"}
<1> DEFINE t == Steps["atom_light"]
           m(n) == May("atom_light", n)
<1>1. /\ t[1].res = "devno" /\ t[2].res = "cdev" /\ t[3].res = "class"
      /\ t[4].res = "device" /\ t[5].res = "pins" /\ t[6].res = "func"
      /\ t[7].res = "timer"
  BY AtomColumns, Zenon
<1>2. /\ m(1) = {} /\ m(2) = m(1) \cup {t[1].res}
      /\ m(3) = m(2) \cup {t[2].res} /\ m(4) = m(3) \cup {t[3].res}
      /\ m(5) = m(4) \cup {t[4].res} /\ m(6) = m(5) \cup {t[5].res}
      /\ m(7) = m(6) \cup {t[6].res} /\ m(8) = m(7) \cup {t[7].res}
  <2>1. \A n \in Nat \ {0} : m(n + 1) = m(n) \cup {t[n].res}
    BY MayNext, Zenon
  <2> HIDE DEF m, t
  <2>2. /\ m(1 + 1) = m(1) \cup {t[1].res} /\ m(2 + 1) = m(2) \cup {t[2].res}
        /\ m(3 + 1) = m(3) \cup {t[3].res} /\ m(4 + 1) = m(4) \cup {t[4].res}
        /\ m(5 + 1) = m(5) \cup {t[5].res} /\ m(6 + 1) = m(6) \cup {t[6].res}
        /\ m(7 + 1) = m(7) \cup {t[7].res}
    BY <2>1
  <2>3. QED
    BY <2>2, MayFirst DEF m
<1> HIDE DEF m, t
<1>3. QED
  BY <1>1, <1>2 DEF m

LEMMA LloopMay ==
  LET m(n) == May("lloop", n) IN
  /\ m(1) = {}
  /\ m(2) = {"blkdev"}
  /\ m(3) = {"blkdev", "ioctl"}
  /\ m(4) = {"blkdev", "ioctl", "loop_dev"}
  /\ m(6) = {"blkdev", "ioctl", "loop_dev", "disks", "pointer"}
  /\ m(7) = {"blkdev", "ioctl", "loop_dev", "disks", "pointer", "disk0"}
  /\ m(9) = {"blkdev", "ioctl", "loop_dev", "disks", "pointer", "disk0",
             "disk1", "mutex"}
  /\ m(10) = {"blkdev", "ioctl", "loop_dev", "disks", "pointer", "disk0",
              "disk1", "mutex", "queue0"}
  /\ m(13) = {"blkdev", "ioctl", "loop_dev", "disks", "pointer", "disk0",
              "disk1", "mutex", "queue0", "queue1", "added0", "added1"}
<1> DEFINE t == Steps["lloop"]
           m(n) == May("lloop", n)
<1>1. /\ t[1].res = "blkdev" /\ t[2].res = "ioctl" /\ t[3].res = "loop_dev"
      /\ t[4].res = "disks" /\ t[5].res = "pointer" /\ t[6].res = "disk0"
      /\ t[7].res = "disk1" /\ t[8].res = "mutex" /\ t[9].res = "queue0"
      /\ t[10].res = "queue1" /\ t[11].res = "added0" /\ t[12].res = "added1"
  BY LloopColumns, Zenon
<1>2. /\ m(1) = {} /\ m(2) = m(1) \cup {t[1].res}
      /\ m(3) = m(2) \cup {t[2].res} /\ m(4) = m(3) \cup {t[3].res}
      /\ m(5) = m(4) \cup {t[4].res} /\ m(6) = m(5) \cup {t[5].res}
      /\ m(7) = m(6) \cup {t[6].res} /\ m(8) = m(7) \cup {t[7].res}
      /\ m(9) = m(8) \cup {t[8].res} /\ m(10) = m(9) \cup {t[9].res}
      /\ m(11) = m(10) \cup {t[10].res} /\ m(12) = m(11) \cup {t[11].res}
      /\ m(13) = m(12) \cup {t[12].res}
  <2>1. \A n \in Nat \ {0} : m(n + 1) = m(n) \cup {t[n].res}
    BY MayNext, Zenon
  <2> HIDE DEF m, t
  <2>2. /\ m(1 + 1) = m(1) \cup {t[1].res} /\ m(2 + 1) = m(2) \cup {t[2].res}
        /\ m(3 + 1) = m(3) \cup {t[3].res} /\ m(4 + 1) = m(4) \cup {t[4].res}
        /\ m(5 + 1) = m(5) \cup {t[5].res} /\ m(6 + 1) = m(6) \cup {t[6].res}
        /\ m(7 + 1) = m(7) \cup {t[7].res} /\ m(8 + 1) = m(8) \cup {t[8].res}
        /\ m(9 + 1) = m(9) \cup {t[9].res}
        /\ m(10 + 1) = m(10) \cup {t[10].res}
        /\ m(11 + 1) = m(11) \cup {t[11].res}
        /\ m(12 + 1) = m(12) \cup {t[12].res}
    BY <2>1
  <2>3. QED
    BY <2>2, MayFirst DEF m
<1> HIDE DEF m, t
<1>3. QED
  BY <1>1, <1>2 DEF m

LEMMA KdMay ==
  /\ May("kd", 2) \subseteq {"list"}
  /\ May("kd", 11) \subseteq KdNodes \cup {"pdrv1", "i2cdrv1"} \cup Marks
  /\ May("kd", 21) \subseteq
       KdNodes \cup {"pdrv1", "i2cdrv1", "pdrv2", "i2cdrv2"} \cup Marks
<1> DEFINE t == Steps["kd"]
<1>1. t[1].res = "list"
  BY KdRows, KindRes
<1>2. \A i \in {2, 3, 4, 5, 6, 7, 8, 9, 10} :
        t[i].res \in KdNodes \cup {"pdrv1", "i2cdrv1"} \cup Marks
  BY KdRows, KindRes DEF KdNodes, Marks
<1>3. \A i \in {11, 12, 13, 14, 15, 16, 17, 18, 19, 20} :
        t[i].res \in KdNodes \cup {"pdrv2", "i2cdrv2"} \cup Marks
  <2>1. /\ \A i \in {11, 12} : t[i].res \in {"pdrv2", "i2cdrv2"}
        /\ \A i \in {13, 20} : t[i].res \in Marks
    BY KdRows, KindRes DEF Marks
  <2>2. \A i \in {14, 15, 16, 17, 18, 19} : t[i].res \in KdNodes
    BY KdRows, KindRes DEF KdNodes
  <2>3. QED
    BY <2>1, <2>2, Zenon
<1>4. "list" \in KdNodes
  BY DEF KdNodes
<1>5. /\ \A i \in 1 .. 1 : i = 1
      /\ \A i \in 1 .. 10 : i = 1 \/ i \in {2, 3, 4, 5, 6, 7, 8, 9, 10}
      /\ \A i \in 1 .. 20 : i \in 1 .. 10
           \/ i \in {11, 12, 13, 14, 15, 16, 17, 18, 19, 20}
  OBVIOUS
<1>6. /\ 2 - 1 = 1 /\ 11 - 1 = 10 /\ 21 - 1 = 20
  OBVIOUS
<1>7. May("kd", 2) = {t[i].res : i \in 1 .. 1}
  BY <1>6 DEF May
<1>8. May("kd", 11) = {t[i].res : i \in 1 .. 10}
  BY <1>6 DEF May
<1>9. May("kd", 21) = {t[i].res : i \in 1 .. 20}
  BY <1>6 DEF May
<1> HIDE DEF t
<1>10. May("kd", 2) \subseteq {"list"}
  BY <1>1, <1>5, <1>7, Zenon
<1>11. \A i \in 1 .. 10 :
         t[i].res \in KdNodes \cup {"pdrv1", "i2cdrv1"} \cup Marks
  <2>1. t[1].res \in KdNodes
    BY <1>1, <1>4
  <2>2. QED
    BY <1>2, <1>5, <2>1
<1>12. May("kd", 11) \subseteq KdNodes \cup {"pdrv1", "i2cdrv1"} \cup Marks
  BY <1>8, <1>11, Zenon
<1>13. \A i \in 1 .. 20 : t[i].res \in
         KdNodes \cup {"pdrv1", "i2cdrv1", "pdrv2", "i2cdrv2"} \cup Marks
  BY <1>3, <1>5, <1>11
<1>14. QED
  BY <1>9, <1>10, <1>12, <1>13

LEMMA NcpMay ==
  ASSUME NEW n \in 1 .. 7 PROVE May("ncp1854", n) \subseteq NcpLeaks \cup Marks
<1> DEFINE t == Steps["ncp1854"]
<1>1. \A i \in {1, 2, 3, 4, 5, 6} : t[i].res \in NcpLeaks \cup Marks
  <2>1. /\ t[1].res = "i2cdrv" /\ t[2].res = "mem" /\ t[3].res = "client"
        /\ t[4].res = "pdev" /\ t[5].res = "pdrv" /\ t[6].res = "attr"
    BY NcpRows, KindRes
  <2> HIDE DEF t
  <2>2. QED
    BY <2>1 DEF NcpLeaks, Marks
<1>2. \A i \in 1 .. n - 1 : i \in {1, 2, 3, 4, 5, 6}
  OBVIOUS
<1>3. May("ncp1854", n) = {t[i].res : i \in 1 .. n - 1}
  BY DEF May
<1> HIDE DEF t
<1>4. QED
  BY <1>1, <1>2, <1>3, Zenon

-----------------------------------------------------------------------------
(* What is left.                                                           *)

LEMMA LcmEnds ==
  ASSUME StartInv, phase \in {"failed", "off"}, drv = "lcm_info"
  PROVE  held \ Marks = LcmLeaks /\ wrong = {}
<1> DEFINE t == Steps["lcm_info"]
           m(n) == Must("lcm_info", n)
           w(n) == May("lcm_info", n)
           last == <<"proc", "device", "class", "cdev", "data", "devp", "devno">>
<1>1. wrong = {}
  BY Ends DEF Excused
<1>2. CASE phase = "off"
  <2>1. StepCount("lcm_info") = 9 /\ Stops["lcm_info"] = last
    BY LcmRows DEF Stops, lcminfo_exit, StepCount
  <2>2. Listed(last) =
          {"proc", "device", "class", "cdev", "data", "devp", "devno"}
    BY DEF Listed
  <2>3. held \subseteq w(10) \ Listed(last)
    BY <1>2, <2>1, Ends
  <2>4. held \subseteq {"sem", "lock"}
    BY <2>2, <2>3, LcmMay
  <2>5. QED
    BY <1>1, <1>2, <2>4 DEF LcmLeaks, Marks
<1>3. CASE phase = "failed"
  <2>1. /\ m(at) \ Listed(t[at].undo) \subseteq held
        /\ held \subseteq w(at) \ Listed(t[at].undo)
        /\ at \in 1 .. 9 /\ t[at].can = "fail"
    BY <1>3, Ends, LcmRows DEF StepCount
  <2>2. at \in {1, 2, 3, 4, 7, 8}
    <3>1. \A i \in {5, 6, 9} : t[i].can # "fail"
      BY LcmColumns, Zenon
    <3>2. QED
      BY <2>1, <3>1
  <2>3. FailedStep = t[at].res
    BY <2>2 DEF FailedStep
  <2>4. /\ Listed(<<>>) = {} /\ Listed(<<"devno">>) = {"devno"}
        /\ Listed(<<"devp">>) = {"devp"}
        /\ Listed(<<"cdev", "class", "devno", "devp">>) =
             {"cdev", "class", "devno", "devp"}
        /\ Listed(<<"class", "devno", "devp">>) = {"class", "devno", "devp"}
    BY DEF Listed
  <2>5. /\ Listed(t[1].undo) = {} /\ Listed(t[2].undo) = {"devno"}
        /\ Listed(t[3].undo) = {"devp"} /\ Listed(t[4].undo) = {"devp"}
        /\ Listed(t[7].undo) = {"cdev", "class", "devno", "devp"}
        /\ Listed(t[8].undo) = {"class", "devno", "devp"}
    BY <2>4, LcmColumns, Zenon
  <2>6. /\ t[1].res = "devno" /\ t[2].res = "devp" /\ t[3].res = "data"
        /\ t[4].res = "cdev" /\ t[7].res = "class" /\ t[8].res = "device"
    BY LcmColumns, Zenon
  <2> HIDE DEF t, m, w
  <2>7. CASE at \in {1, 2}
    <3>1. held = {}
      BY <2>1, <2>5, <2>7, LcmMay DEF w
    <3>2. LcmLeaks = {}
      BY <1>3, <2>3, <2>6, <2>7 DEF LcmLeaks
    <3>3. QED
      BY <1>1, <3>1, <3>2
  <2>8. CASE at = 3
    <3>1. held = {"devno"}
      BY <2>1, <2>5, <2>8, LcmMay, LcmMust DEF w, m
    <3>2. LcmLeaks = {"devno"}
      BY <1>3, <2>3, <2>6, <2>8 DEF LcmLeaks
    <3>3. QED
      BY <1>1, <3>1, <3>2 DEF Marks
  <2>9. CASE at = 4
    <3>1. held = {"devno", "data"}
      BY <2>1, <2>5, <2>9, LcmMay, LcmMust DEF w, m
    <3>2. LcmLeaks = {"devno", "data"}
      BY <1>3, <2>3, <2>6, <2>9 DEF LcmLeaks
    <3>3. QED
      BY <1>1, <3>1, <3>2 DEF Marks
  <2>10. CASE at = 7
    <3>1. held = {"data", "sem", "lock"}
      BY <2>1, <2>5, <2>10, LcmMay, LcmMust DEF w, m
    <3>2. LcmLeaks = {"data"}
      BY <1>3, <2>3, <2>6, <2>10 DEF LcmLeaks
    <3>3. QED
      BY <1>1, <3>1, <3>2 DEF Marks
  <2>11. CASE at = 8
    <3>1. held = {"data", "cdev", "sem", "lock"}
      BY <2>1, <2>5, <2>11, LcmMay, LcmMust DEF w, m
    <3>2. LcmLeaks = {"data", "cdev"}
      BY <1>3, <2>3, <2>6, <2>11 DEF LcmLeaks
    <3>3. QED
      BY <1>1, <3>1, <3>2 DEF Marks
  <2>12. QED
    BY <2>2, <2>7, <2>8, <2>9, <2>10, <2>11
<1>4. QED
  BY <1>2, <1>3

LEMMA AtomEnds ==
  ASSUME StartInv, phase \in {"failed", "off"}, drv = "atom_light"
  PROVE  /\ held \subseteq {"func", "timer", "pins"}
         /\ held \ Marks = AtomLeaks
         /\ wrong \subseteq IF FailedStep = "devno" THEN {"cdev"} ELSE {}
<1> DEFINE t == Steps["atom_light"]
           w(n) == May("atom_light", n)
           m(n) == Must("atom_light", n)
           last == <<"cdev", "devno", "device", "class">>
<1>1. CASE phase = "off"
  <2>1. StepCount("atom_light") = 7 /\ Stops["atom_light"] = last
    BY AtomRows DEF Stops, _atom_remove, StepCount
  <2>2. Listed(last) = {"cdev", "devno", "device", "class"}
    BY DEF Listed
  <2>3. held \subseteq w(8) \ Listed(last)
    BY <1>1, <2>1, Ends
  <2>4. held \subseteq {"func", "timer", "pins"}
    BY <2>2, <2>3, AtomMay
  <2>5. wrong = {}
    BY <1>1, Ends DEF Excused
  <2>6. "timer" \in held
    <3>1. m(8) \ Listed(last) \subseteq held
      BY <1>1, <2>1, Ends
    <3>2. QED
      BY <2>2, <3>1, AtomMust
  <2>7. QED
    BY <1>1, <2>4, <2>5, <2>6 DEF AtomLeaks, Marks
<1>2. CASE phase = "failed"
  <2>1. /\ held \subseteq w(at) \ Listed(t[at].undo)
        /\ at \in 1 .. 7 /\ t[at].can = "fail"
        /\ wrong \subseteq IF at = 1 THEN {"cdev"} ELSE {}
    BY <1>2, Ends, AtomRows DEF StepCount, Excused
  <2>2. at \in {1, 2, 3}
    <3>1. \A i \in {4, 5, 6, 7} : t[i].can # "fail"
      BY AtomColumns, Zenon
    <3>2. QED
      BY <2>1, <3>1
  <2>3. FailedStep = t[at].res
    BY <2>2 DEF FailedStep
  <2>4. /\ Listed(<<"cdev">>) = {"cdev"} /\ Listed(<<"devno">>) = {"devno"}
        /\ Listed(<<"cdev", "devno">>) = {"cdev", "devno"}
    BY DEF Listed
  <2>5. /\ Listed(t[1].undo) = {"cdev"} /\ Listed(t[2].undo) = {"devno"}
        /\ Listed(t[3].undo) = {"cdev", "devno"} /\ t[1].res = "devno"
    BY <2>4, AtomColumns, Zenon
  <2> HIDE DEF t, w
  <2>6. held = {}
    BY <2>1, <2>2, <2>5, AtomMay DEF w
  <2>7. wrong \subseteq IF FailedStep = "devno" THEN {"cdev"} ELSE {}
    BY <2>1, <2>2, <2>3, <2>5
  <2>8. QED
    BY <1>2, <2>6, <2>7 DEF AtomLeaks
<1>3. QED
  BY <1>1, <1>2

LEMMA LloopEnds ==
  ASSUME StartInv, phase \in {"failed", "off"}, drv = "lloop"
  PROVE  held \subseteq {"pointer", "mutex"} /\ wrong = {}
<1> DEFINE t == Steps["lloop"]
           w(n) == May("lloop", n)
           last == <<"ioctl", "added0", "queue0", "disk0", "added1", "queue1",
                     "disk1", "blkdev", "disks", "loop_dev">>
<1>1. wrong = {}
  BY Ends DEF Excused
<1>2. CASE phase = "off"
  <2>1. StepCount("lloop") = 12 /\ Stops["lloop"] = last
    BY LloopRows DEF Stops, lloop_exit, StepCount
  <2>2. Listed(last) = {"ioctl", "added0", "queue0", "disk0", "added1",
                        "queue1", "disk1", "blkdev", "disks", "loop_dev"}
    BY DEF Listed
  <2>3. held \subseteq w(13) \ Listed(last)
    BY <1>2, <2>1, Ends
  <2>4. held \subseteq {"pointer", "mutex"}
    BY <2>2, <2>3, LloopMay
  <2>5. QED
    BY <1>1, <2>4
<1>3. CASE phase = "failed"
  <2>1. /\ held \subseteq w(at) \ Listed(t[at].undo)
        /\ at \in 1 .. 12 /\ t[at].can = "fail"
    BY <1>3, Ends, LloopRows DEF StepCount
  <2>2. at \in {1, 2, 3, 4, 6, 7, 9, 10}
    <3>1. \A i \in {5, 8, 11, 12} : t[i].can # "fail"
      BY LloopColumns, Zenon
    <3>2. QED
      BY <2>1, <3>1
  <2>3. /\ Listed(<<>>) = {} /\ Listed(<<"blkdev">>) = {"blkdev"}
        /\ Listed(<<"blkdev", "ioctl">>) = {"blkdev", "ioctl"}
        /\ Listed(<<"loop_dev", "blkdev", "ioctl">>) =
             {"loop_dev", "blkdev", "ioctl"}
        /\ Listed(<<"disks", "loop_dev", "blkdev", "ioctl">>) =
             {"disks", "loop_dev", "blkdev", "ioctl"}
    BY DEF Listed
  <2>4. /\ Listed(<<"disk0", "disks", "loop_dev", "blkdev", "ioctl">>) =
             {"disk0", "disks", "loop_dev", "blkdev", "ioctl"}
        /\ Listed(<<"disk1", "disk0", "disks", "loop_dev", "blkdev", "ioctl">>) =
             {"disk1", "disk0", "disks", "loop_dev", "blkdev", "ioctl"}
    BY DEF Listed
  <2>5. Listed(<<"queue0", "disk1", "disk0", "disks", "loop_dev", "blkdev",
                 "ioctl">>) =
          {"queue0", "disk1", "disk0", "disks", "loop_dev", "blkdev", "ioctl"}
    BY DEF Listed
  <2>6. /\ Listed(t[1].undo) = {} /\ Listed(t[2].undo) = {"blkdev"}
        /\ Listed(t[3].undo) = {"blkdev", "ioctl"}
        /\ Listed(t[4].undo) = {"loop_dev", "blkdev", "ioctl"}
        /\ Listed(t[6].undo) = {"disks", "loop_dev", "blkdev", "ioctl"}
        /\ Listed(t[7].undo) = {"disk0", "disks", "loop_dev", "blkdev", "ioctl"}
        /\ Listed(t[9].undo) =
             {"disk1", "disk0", "disks", "loop_dev", "blkdev", "ioctl"}
        /\ Listed(t[10].undo) = {"queue0", "disk1", "disk0", "disks",
                                 "loop_dev", "blkdev", "ioctl"}
    BY <2>3, <2>4, <2>5, LloopColumns, Zenon
  <2> HIDE DEF t, w
  <2>7. CASE at \in {1, 2, 3, 4}
    BY <1>1, <2>1, <2>6, <2>7, LloopMay DEF w
  <2>8. CASE at \in {6, 7}
    BY <1>1, <2>1, <2>6, <2>8, LloopMay DEF w
  <2>9. CASE at \in {9, 10}
    BY <1>1, <2>1, <2>6, <2>9, LloopMay DEF w
  <2>10. QED
    BY <2>2, <2>7, <2>8, <2>9
<1>4. QED
  BY <1>2, <1>3

LEMMA KdEnds ==
  ASSUME StartInv, phase \in {"failed", "off"}, drv = "kd"
  PROVE  held \ Marks \subseteq KdLeaks /\ wrong = {}
<1> DEFINE t == Steps["kd"]
           w(n) == May("kd", n)
           last == <<"i2cdrv1", "pdrv1", "i2cdrv2", "pdrv2">>
<1>1. wrong = {}
  BY Ends DEF Excused
<1>2. CASE phase = "off"
  <2>1. StepCount("kd") = 20 /\ Stops["kd"] = last
    BY KdRows DEF Stops, CAMERA_HW_i2C_exit, StepCount
  <2>2. Listed(last) = {"i2cdrv1", "pdrv1", "i2cdrv2", "pdrv2"}
    BY DEF Listed
  <2>3. held \subseteq w(21) \ Listed(last)
    BY <1>2, <2>1, Ends
  <2>4. held \ Marks \subseteq KdNodes
    BY <2>2, <2>3, KdMay, Zenon
  <2>5. QED
    BY <1>1, <2>4 DEF KdLeaks
<1>3. CASE phase = "failed"
  <2>1. /\ held \subseteq w(at) /\ at \in 1 .. 20 /\ t[at].can = "fail"
        /\ t[at].next = 0
    BY <1>3, Ends, KdRows DEF StepCount
  <2>2. t[2].res = "pdrv1" /\ t[11].res = "pdrv2" /\ t[20].can = "no"
    BY KdRows, KindRes, KindCan
  <2>3. at \in {2, 11}
    <3>1. \A i \in {1, 9, 10, 18, 19} : t[i].can # "fail"
      BY KdColumns, Zenon
    <3>2. \A i \in {3, 4, 5, 8} \cup {6, 7} \cup {12, 13, 14, 17} \cup {15, 16} :
            t[i].next \in {11, 19}
      BY KdColumns, Zenon
    <3>3. at # 20
      BY <2>1, <2>2
    <3> HIDE DEF t
    <3>4. QED
      BY <2>1, <3>1, <3>2, <3>3
  <2>4. FailedStep = t[at].res
    BY <2>3 DEF FailedStep
  <2>5. CASE at = 2
    BY <1>1, <2>1, <2>5, KdMay DEF KdLeaks, KdNodes
  <2>6. CASE at = 11
    <3>1. KdLeaks = KdNodes \cup {"pdrv1", "i2cdrv1"}
      BY <2>2, <2>4, <2>6 DEF KdLeaks
    <3>2. QED
      BY <1>1, <2>1, <2>6, <3>1, KdMay, Zenon
  <2>7. QED
    BY <2>3, <2>5, <2>6
<1>4. QED
  BY <1>2, <1>3

LEMMA NcpEnds ==
  ASSUME StartInv, phase \in {"failed", "off"}, drv = "ncp1854"
  PROVE  held \ Marks \subseteq NcpLeaks /\ wrong \subseteq {"i2cdrv"}
<1>1. StepCount("ncp1854") = 6
  BY NcpRows DEF StepCount
<1>2. \E n \in 1 .. 7 : held \subseteq May("ncp1854", n)
  BY <1>1, Ends
<1>3. QED
  BY <1>2, NcpMay, Ends DEF Excused

LEMMA EndsLeave == StartInv => StartLeavesNothing
<1> SUFFICES ASSUME StartInv, phase \in {"failed", "off"}
             PROVE  StartLeavesNothing
  BY DEF StartLeavesNothing
<1>1. drv \in Drivers
  BY DEF StartInv
<1>2. CASE drv = "lcm_info"
  BY <1>2, LcmEnds DEF StartLeavesNothing
<1>3. CASE drv = "atom_light"
  BY <1>3, AtomEnds DEF StartLeavesNothing
<1>4. CASE drv = "lloop"
  <2>1. held \ Marks = {}
    BY <1>4, LloopEnds DEF Marks
  <2>2. QED
    BY <1>4, <2>1, LloopEnds DEF StartLeavesNothing
<1>5. CASE drv = "kd"
  BY <1>5, KdEnds DEF StartLeavesNothing
<1>6. CASE drv = "ncp1854"
  BY <1>6, NcpEnds DEF StartLeavesNothing
<1>7. QED
  BY <1>1, <1>2, <1>3, <1>4, <1>5, <1>6 DEF Drivers

\* Whatever step of a start fails, the labels leave what they are known to
\* leave and no more, and so does a stop (lloop.c:838-850, lcm_info.c:386-397,
\* atom_light.c:434-450).
THEOREM LeavesTheorem == StartSpec => []StartLeavesNothing
BY StartInvariant, EndsLeave, PTL

-----------------------------------------------------------------------------
(* What calls find.                                                        *)

\* A sensor node is only there with its client, whatever else was missed.
NodesInv == drv = "kd" => /\ "cdev" \in held => "client" \in held
                          /\ "cdev2" \in held => "client2" \in held

LEMMA KdMust ==
  /\ "client" \in Must("kd", 7) /\ "client2" \in Must("kd", 16)
  /\ "counters" \in Must("kd", 21)
<1> DEFINE t == Steps["kd"]
<1>1. /\ t[4].res = "client" /\ t[13].res = "client2"
      /\ t[20].res = "counters" /\ t[4].can # "miss" /\ t[13].can # "miss"
      /\ t[20].can # "miss"
  BY KdRows, KindRes, KindCan
<1>2. ~Jumped("kd", 4, 7)
  BY KdNext DEF Jumped
<1>3. ~Jumped("kd", 13, 16)
  BY KdNext DEF Jumped
<1>4. ~Jumped("kd", 20, 21)
  <2>1. \A j \in 1 .. 20 : Steps["kd"][j].next \notin 20 + 1 .. 21
    BY KdNext
  <2>2. QED
    BY <2>1 DEF Jumped
<1> HIDE DEF t
<1>5. QED
  BY <1>1, <1>2, <1>3, <1>4, Gets DEF t

\* The steps that get a node, and what the driver ever gives back.
LEMMA KdNodeSteps ==
  /\ \A i \in 1 .. 20 : /\ Steps["kd"][i].res = "cdev" => i = 7
                        /\ Steps["kd"][i].res = "cdev2" => i = 16
  /\ \A i \in 1 .. 20 : Steps["kd"][i].undo \in {<<>>, <<"devno">>, <<"devno2">>}
<1> DEFINE t == Steps["kd"]
           r(i) == t[i].res
<1>1. /\ r(1) = "list" /\ r(2) = "pdrv1" /\ r(3) = "i2cdrv1"
      /\ r(4) = "client" /\ r(5) = "devno" /\ r(6) = "cdevmem"
      /\ r(8) = "class" /\ r(9) = "device"
      /\ r(10) = "regulators" /\ r(11) = "pdrv2"
      /\ r(12) = "i2cdrv2" /\ r(13) = "client2" /\ r(14) = "devno2"
      /\ r(15) = "cdevmem2" /\ r(17) = "class2"
      /\ r(18) = "device2" /\ r(19) = "proc" /\ r(20) = "counters"
      /\ r(7) = "cdev" /\ r(16) = "cdev2"
  BY KdRows, KindRes
<1> HIDE DEF t, r
<1>2. \A i \in 1 .. 20 : i \in {1, 2, 3, 4, 5, 6, 7, 8, 9, 10, 11, 12, 13, 14,
                                15, 16, 17, 18, 19, 20}
  OBVIOUS
<1>3. \A i \in 1 .. 20 : (r(i) = "cdev" => i = 7) /\ (r(i) = "cdev2" => i = 16)
  BY <1>1, <1>2
<1>4. \A i \in 1 .. 20 : t[i].undo \in {<<>>, <<"devno">>, <<"devno2">>}
  BY KdColumns, Zenon DEF t
<1>5. QED
  BY <1>3, <1>4 DEF r, t

LEMMA NodesStep ==
  ASSUME StartInv, NodesInv, [StartNext]_startVars
  PROVE  NodesInv'
<1> SUFFICES ASSUME drv = "kd"
             PROVE  /\ "cdev" \in held' => "client" \in held'
                    /\ "cdev2" \in held' => "client2" \in held'
  <2>1. drv' = drv
    BY DEF StartNext, StepWorks, StepMisses, Advance, StepFails, GiveBack,
           Unwound, Stop, Stopped, startVars
  <2>2. QED
    BY <2>1 DEF NodesInv
<1>1. CASE StepWorks
  <2>1. /\ phase = "start" /\ step \in 1 .. 20 /\ Must("kd", step) \subseteq held
        /\ held' = held \cup {Steps["kd"][step].res}
    <3>1. Len(List) = 0 /\ Len(todo) = 0 /\ Gone = {} /\ Place = step
      BY <1>1 DEF StepWorks, StartInv, List, Gone, Place, Failing
    <3>2. QED
      BY <1>1, <3>1, KdRows DEF StepWorks, Advance, Now, StartInv, StepCount
  <2>2. QED
    BY <2>1, KdMust, KdNodeSteps DEF NodesInv
<1>2. CASE GiveBack
  <2>1. /\ phase \in {"unwind", "stop"} /\ todo # <<>>
        /\ held' = held \ {Head(todo)}
    BY <1>2 DEF GiveBack
  <2>2. List \in {<<>>, <<"devno">>, <<"devno2">>,
                  <<"i2cdrv1", "pdrv1", "i2cdrv2", "pdrv2">>}
    <3>1. CASE phase = "unwind"
      <4>1. at \in 1 .. 20 /\ List = Steps["kd"][at].undo
        BY <3>1, KdRows DEF StartInv, List, Failing, Place, StepCount
      <4>2. QED
        BY <4>1, KdNodeSteps, Zenon
    <3>2. CASE phase = "stop"
      BY <3>2 DEF List, Failing, Stops, CAMERA_HW_i2C_exit
    <3>3. QED
      BY <2>1, <3>1, <3>2
  <2>3. Listed(List) \subseteq {"devno", "devno2", "i2cdrv1", "pdrv1",
                                "i2cdrv2", "pdrv2"}
    BY <2>2 DEF Listed
  <2>4. Head(todo) \in Listed(List)
    BY <2>1 DEF StartInv
  <2>5. Head(todo) \notin {"client", "client2"}
    BY <2>3, <2>4
  <2>6. QED
    BY <2>1, <2>5 DEF NodesInv
<1>3. CASE StepMisses \/ StepFails \/ Unwound \/ Stop \/ Stopped
           \/ UNCHANGED startVars
  BY <1>3 DEF NodesInv, StepMisses, Advance, StepFails, Unwound, Stop, Stopped,
              startVars
<1>4. QED
  BY <1>1, <1>2, <1>3 DEF StartNext

\* What is held, by phase.
LEMMA Holds ==
  ASSUME StartInv
  PROVE  /\ Must(drv, Place) \ Gone \subseteq held
         /\ held \subseteq May(drv, Place) \ Gone
         /\ phase = "on" => Gone = {}
         /\ phase \in {"on", "stop"} => Place = StepCount(drv) + 1
         /\ phase = "stop" => List = Stops[drv]
         /\ phase = "unwind" =>
              /\ Place = at /\ List = Steps[drv][at].undo
              /\ at \in 1 .. StepCount(drv) /\ Steps[drv][at].can = "fail"
         /\ Len(todo) \in Nat
<1>1. Len(<<>>) = 0
  OBVIOUS
<1>2. phase = "on" => Gone = {}
  BY <1>1 DEF StartInv, Gone, List, Failing
<1>3. phase \in {"on", "stop"} => Place = StepCount(drv) + 1
  BY DEF Place, Failing
<1>4. phase = "stop" => List = Stops[drv]
  BY DEF List, Failing
<1>5. phase = "unwind" =>
              /\ Place = at /\ List = Steps[drv][at].undo
              /\ at \in 1 .. StepCount(drv) /\ Steps[drv][at].can = "fail"
  BY DEF StartInv, List, Failing, Place
<1>6. Len(todo) \in Nat
  BY DEF StartInv
<1>7. QED
  BY <1>2, <1>3, <1>4, <1>5, <1>6 DEF StartInv

\* While its first entry is held nothing of a list is gone.
LEMMA FirstHeld ==
  ASSUME NEW r, StartInv, List \in Seq(Listed(List)), List # <<>>,
         List[1] = r, r \in held
  PROVE  Gone = {}
<1>1. r \notin Gone
  BY DEF StartInv
<1>2. Len(List) \in Nat /\ Len(todo) \in Nat
  BY DEF StartInv
<1>3. 1 \notin 1 .. Len(List) - Len(todo)
  BY <1>1 DEF Gone
<1>4. QED
  BY <1>2, <1>3 DEF Gone

LEMMA LcmReady ==
  ASSUME StartInv, drv = "lcm_info", phase # "start", "cdev" \in held
  PROVE  \/ {"devp", "data", "sem", "lock"} \subseteq held /\ CodeLoaded
         \/ phase # "on" /\ FailedStep = "device"
<1> DEFINE t == Steps["lcm_info"]
           last == <<"proc", "device", "class", "cdev", "data", "devp", "devno">>
<1>1. StepCount("lcm_info") = 9 /\ Stops["lcm_info"] = last
  BY LcmRows DEF Stops, lcminfo_exit, StepCount
<1>2. CASE phase = "on"
  BY <1>1, <1>2, Holds, LcmMust DEF CodeLoaded
<1>3. CASE phase = "stop"
  <2>1. /\ Gone = {last[i] : i \in 1 .. 7 - Len(todo)} /\ "cdev" \notin Gone
        /\ Must("lcm_info", 10) \ Gone \subseteq held
    <3>1. Len(last) = 7
      OBVIOUS
    <3>2. List = last /\ "cdev" \notin Gone
      BY <1>1, <1>3, Holds
    <3>3. Must("lcm_info", 10) \ Gone \subseteq held
      BY <1>1, <1>3, Holds
    <3> HIDE DEF last
    <3>4. QED
      BY <3>1, <3>2, <3>3 DEF Gone
  <2>2. 4 \notin 1 .. 7 - Len(todo)
    BY <2>1
  <2>3. \A i \in 1 .. 7 - Len(todo) : i \in {1, 2, 3}
    BY <2>2, Holds
  <2>4. \A i \in {1, 2, 3} : last[i] \in {"proc", "device", "class"}
    OBVIOUS
  <2> HIDE DEF last
  <2>5. Gone \subseteq {"proc", "device", "class"}
    BY <2>1, <2>3, <2>4
  <2>6. QED
    BY <1>3, <2>1, <2>5, LcmMust DEF CodeLoaded
<1>4. CASE phase = "unwind"
  <2>1. /\ at \in 1 .. 9 /\ t[at].can = "fail"
        /\ held \subseteq May("lcm_info", at)
        /\ Must("lcm_info", at) \ Gone \subseteq held
    BY <1>1, <1>4, Holds
  <2>2. at \in {1, 2, 3, 4, 7, 8}
    <3>1. \A i \in {5, 6, 9} : t[i].can # "fail"
      BY LcmColumns, Zenon
    <3> HIDE DEF t
    <3>2. QED
      BY <2>1, <3>1
  <2>3. at \in {7, 8}
    BY <2>1, <2>2, LcmMay
  <2>4. CASE at = 7
    <3> DEFINE u == <<"cdev", "class", "devno", "devp">>
    <3>1. List = u
      BY <1>4, <2>4, Holds, LcmColumns, Zenon
    <3>2. u \in Seq(Listed(u)) /\ u # <<>> /\ u[1] = "cdev"
      BY DEF Listed
    <3>3. Gone = {}
      BY <3>1, <3>2, FirstHeld
    <3>4. QED
      BY <1>4, <2>1, <2>4, <3>3, LcmMust DEF CodeLoaded
  <2>5. CASE at = 8
    <3>1. t[8].res = "device"
      BY LcmColumns, Zenon
    <3>2. QED
      BY <1>4, <2>5, <3>1 DEF FailedStep
  <2>6. QED
    BY <2>3, <2>4, <2>5
<1>5. CASE phase \in {"failed", "off"}
  <2>1. "cdev" \in LcmLeaks
    BY <1>5, LcmEnds DEF Marks
  <2>2. FailedStep = "device"
    BY <2>1 DEF LcmLeaks
  <2>3. QED
    BY <1>5, <2>2
<1>6. QED
  BY <1>2, <1>3, <1>4, <1>5 DEF StartInv

LEMMA AtomReady ==
  ASSUME StartInv, drv = "atom_light", phase \notin {"start", "unwind"},
         "cdev" \in held
  PROVE  {"func", "timer"} \subseteq held /\ CodeLoaded
<1> DEFINE last == <<"cdev", "devno", "device", "class">>
<1>1. StepCount("atom_light") = 7 /\ Stops["atom_light"] = last
  BY AtomRows DEF Stops, _atom_remove, StepCount
<1>2. phase \in {"on", "stop"}
  BY AtomEnds DEF StartInv
<1>3. Gone = {}
  <2>1. CASE phase = "on"
    BY <2>1, Holds
  <2>2. CASE phase = "stop"
    <3>1. List = last
      BY <1>1, <2>2, Holds
    <3>2. last \in Seq(Listed(last)) /\ last # <<>> /\ last[1] = "cdev"
      BY DEF Listed
    <3>3. QED
      BY <3>1, <3>2, FirstHeld
  <2>3. QED
    BY <1>2, <2>1, <2>2
<1>4. Must("atom_light", 8) \subseteq held
  BY <1>1, <1>2, <1>3, Holds
<1>5. QED
  BY <1>2, <1>4, AtomMust DEF CodeLoaded

LEMMA LloopReady ==
  ASSUME StartInv, drv = "lloop", phase \notin {"start", "unwind"},
         "ioctl" \in held
  PROVE  /\ {"loop_dev", "disks", "mutex", "queue0", "queue1"} \subseteq held
         /\ CodeLoaded
<1> DEFINE last == <<"ioctl", "added0", "queue0", "disk0", "added1", "queue1",
                     "disk1", "blkdev", "disks", "loop_dev">>
<1>1. StepCount("lloop") = 12 /\ Stops["lloop"] = last
  BY LloopRows DEF Stops, lloop_exit, StepCount
<1>2. phase \in {"on", "stop"}
  BY LloopEnds DEF StartInv
<1>3. Gone = {}
  <2>1. CASE phase = "on"
    BY <2>1, Holds
  <2>2. CASE phase = "stop"
    <3>1. List = last
      BY <1>1, <2>2, Holds
    <3>2. last \in Seq(Listed(last)) /\ last # <<>> /\ last[1] = "ioctl"
      BY DEF Listed
    <3>3. QED
      BY <3>1, <3>2, FirstHeld
  <2>3. QED
    BY <1>2, <2>1, <2>2
<1>4. Must("lloop", 13) \subseteq held
  BY <1>1, <1>2, <1>3, Holds
<1>5. QED
  BY <1>2, <1>4, LloopMust DEF CodeLoaded

LEMMA KdReady ==
  ASSUME StartInv, drv = "kd", phase \in {"on", "stop"}
  PROVE  "counters" \in held
<1> DEFINE last == <<"i2cdrv1", "pdrv1", "i2cdrv2", "pdrv2">>
<1>1. StepCount("kd") = 20 /\ Stops["kd"] = last
  BY KdRows DEF Stops, CAMERA_HW_i2C_exit, StepCount
<1>2. Must("kd", 21) \ Gone \subseteq held
  BY <1>1, Holds
<1>3. "counters" \notin Gone
  <2>1. CASE phase = "on"
    BY <2>1, Holds
  <2>2. CASE phase = "stop"
    <3>1. Gone = {last[i] : i \in 1 .. 4 - Len(todo)}
      <4>1. Len(last) = 4
        OBVIOUS
      <4>2. List = last
        BY <1>1, <2>2, Holds
      <4> HIDE DEF last
      <4>3. QED
        BY <4>1, <4>2 DEF Gone
    <3>2. \A i \in 1 .. 4 : last[i] # "counters"
      OBVIOUS
    <3>3. \A i \in 1 .. 4 - Len(todo) : i \in 1 .. 4
      BY Holds
    <3> HIDE DEF last
    <3>4. QED
      BY <3>1, <3>2, <3>3
  <2>3. QED
    BY <2>1, <2>2
<1>4. QED
  BY <1>2, <1>3, KdMust

LEMMA HeldIsReady == StartInv /\ NodesInv => CallsFindReady
<1> SUFFICES ASSUME StartInv, NodesInv, NEW n \in Open, phase # "start"
             PROVE
    \/ Missing(n) = {} /\ CodeLoaded
    \/ phase = "unwind" /\ drv \in {"lloop", "atom_light"}
    \/ phase # "on" /\ drv = "lcm_info" /\ FailedStep = "device"
    \/ phase \in {"unwind", "failed", "off"} /\ drv \in {"kd", "ncp1854"}
    \/ drv = "atom_light" /\ Missing(n) = {"pins"}
    \/ drv = "kd" /\ Missing(n) \subseteq
         {"regulators", IF n = "cdev" THEN "client2" ELSE "client"}
    \/ drv = "ncp1854"
  BY DEF CallsFindReady
<1>0. /\ drv \in Drivers /\ n \in held /\ n \in DOMAIN Uses[drv]
      /\ phase \in {"start", "unwind", "on", "stop", "failed", "off"}
  BY DEF StartInv, Open
<1>1. CASE drv = "lcm_info"
  <2>1. n = "cdev" /\ Missing(n) = {"devp", "data", "sem", "lock"} \ held
    BY <1>0, <1>1 DEF Uses, Missing
  <2>2. QED
    BY <1>0, <1>1, <2>1, LcmReady
<1>2. CASE drv = "atom_light"
  <2>1. n = "cdev" /\ Missing(n) = {"func", "timer", "pins"} \ held
    BY <1>0, <1>2 DEF Uses, Missing
  <2>2. QED
    BY <1>0, <1>2, <2>1, AtomReady
<1>3. CASE drv = "lloop"
  <2>1. /\ n = "ioctl"
        /\ Missing(n) = {"loop_dev", "disks", "mutex", "queue0", "queue1"} \ held
    BY <1>0, <1>3 DEF Uses, Missing
  <2>2. QED
    BY <1>0, <1>3, <2>1, LloopReady
<1>4. CASE drv = "kd"
  <2>1. /\ n \in {"cdev", "cdev2"}
        /\ Missing(n) = {"client", "client2", "counters", "regulators"} \ held
    BY <1>0, <1>4 DEF Uses, Missing
  <2>2. IF n = "cdev" THEN "client" \in held ELSE "client2" \in held
    BY <1>0, <1>4, <2>1 DEF NodesInv
  <2>3. QED
    BY <1>0, <1>4, <2>1, <2>2, KdReady
<1>5. QED
  BY <1>0, <1>1, <1>2, <1>3, <1>4 DEF Drivers

LEMMA NodesInvariant == StartSpec => []NodesInv
<1>1. StartInit => NodesInv
  BY DEF StartInit, NodesInv
<1>2. QED
  BY <1>1, StartInvariant, NodesStep, PTL DEF StartSpec

\* A call that users can make finds all it uses, but for the exceptions that
\* CallsFindReady lists with their lines (lloop.c:838-850, atom_light.c:423).
THEOREM ReadyTheorem == StartSpec => []CallsFindReady
BY StartInvariant, NodesInvariant, HeldIsReady, PTL

==============================================================================
