-------------------------- MODULE AuditLog_proofs ---------------------------
(* Theorems about AuditLog, for every set of processes and every bound.     *)
EXTENDS AuditLog, WellFoundedInduction, TLAPS

-----------------------------------------------------------------------------
(* Every non-empty set of naturals has a least element.  It is what stands  *)
(* in for induction in this development: a property of all the positions   *)
(* of a sequence is proved by taking the least position that refutes it.   *)
LEMMA LeastNatural ==
  ASSUME NEW T \in SUBSET Nat, T # {}
  PROVE  \E n \in T : \A m \in T : n <= m
<1> DEFINE Below == OpToRel(<, Nat)
<1>1. IsWellFoundedOn(Below, Nat)
  BY NatLessThanWellFounded
<1>2. \A x, y \in Nat : x < y => <<x, y>> \in Below
  BY DEF OpToRel
<1> HIDE DEF Below
<1>3. PICK x \in T : \A y \in T : ~(<<y, x>> \in Below)
  BY <1>1, WFMin
<1>4. \A y \in T : ~(y < x)
  BY <1>2, <1>3
<1>5. QED
  BY <1>4

-----------------------------------------------------------------------------
(* What the constructor computes from a file whose first n lines verify,    *)
(* and of which at most one more line follows, one that does not parse.    *)
EndMac(lines, n) == IF n = 0 THEN Genesis ELSE lines[n].mac

LEMMA CheckedIs ==
  ASSUME NEW lines \in Seq(Lines), NEW n \in 0..Len(lines),
         \A i \in 1..n : Linked(lines, i),
         n < Len(lines) => ~Linked(lines, n + 1)
  PROVE  Checked(lines) = n
<1> DEFINE Stop(m) == /\ \A i \in 1..m : Linked(lines, i)
                      /\ m < Len(lines) => ~Linked(lines, m + 1)
<1>1. Stop(n)
  OBVIOUS
<1>2. \A m \in 0..Len(lines) : Stop(m) => m = n
  <2> SUFFICES ASSUME NEW m \in 0..Len(lines), Stop(m), m # n
               PROVE  FALSE
    OBVIOUS
  <2>1. CASE m < n
    <3>1. m + 1 \in 1..n /\ m < Len(lines)
      BY <2>1
    <3>2. QED
      BY <3>1
  <2>2. CASE n < m
    <3>1. n + 1 \in 1..m /\ n < Len(lines)
      BY <2>2
    <3>2. QED
      BY <3>1
  <2>3. QED
    BY <2>1, <2>2
<1>3. Checked(lines) = CHOOSE m \in 0..Len(lines) : Stop(m)
  BY DEF Checked
<1> HIDE DEF Stop
<1>4. QED
  BY <1>1, <1>2, <1>3

LEMMA LastHmacIs ==
  ASSUME NEW lines \in Seq(Lines), NEW n \in 0..Len(lines),
         \A i \in 1..n : lines[i].text = "json",
         \A i \in 1..Len(lines) : i > n => lines[i].text # "json"
  PROVE  LastHmac(lines) = EndMac(lines, n)
<1> DEFINE readable == {i \in 1..Len(lines) : lines[i].text = "json"}
<1>1. readable = 1..n
  OBVIOUS
<1>2. CASE n = 0
  BY <1>1, <1>2 DEF LastHmac, EndMac
<1>3. CASE n # 0
  <2> DEFINE last == CHOOSE i \in 1..n : \A j \in 1..n : j <= i
  <2>1. n \in 1..n /\ \A j \in 1..n : j <= n
    BY <1>3
  <2>2. last \in 1..n /\ \A j \in 1..n : j <= last
    BY <2>1
  <2>3. last = n
    BY <2>1, <2>2
  <2>4. LastHmac(lines) = lines[last].mac
    BY <1>1, <1>3 DEF LastHmac
  <2>5. QED
    BY <1>3, <2>3, <2>4 DEF EndMac
<1>4. QED
  BY <1>2, <1>3

-----------------------------------------------------------------------------
(* What the constructor computes has the right type, whatever is in the     *)
(* file.                                                                   *)

LEMMA CheckedType ==
  ASSUME NEW lines \in Seq(Lines)
  PROVE  Checked(lines) \in Nat
<1> DEFINE Stops == {n \in 0..Len(lines) : n < Len(lines) => ~Linked(lines, n + 1)}
<1>1. Stops \in SUBSET Nat /\ Len(lines) \in Stops
  OBVIOUS
<1>2. PICK n \in Stops : \A m \in Stops : n <= m
  BY <1>1, LeastNatural
<1>3. ASSUME NEW i \in 1..n, ~Linked(lines, i)
      PROVE  FALSE
  <2>1. /\ i - 1 \in 0..Len(lines)
        /\ (i - 1) + 1 = i
        /\ i - 1 < n /\ n \in Nat
    BY <1>2
  <2>2. i - 1 \in Stops
    BY <1>3, <2>1
  <2> HIDE DEF Stops
  <2>3. n <= i - 1
    BY <1>2, <2>2
  <2>4. QED
    BY <2>1, <2>3
<1>4. QED
  BY <1>2, <1>3, CheckedIs

LEMMA LastHmacType ==
  ASSUME NEW lines \in Seq(Lines)
  PROVE  LastHmac(lines) \in Macs
<1> DEFINE readable == {i \in 1..Len(lines) : lines[i].text = "json"}
           Top(i) == \A j \in readable : j <= i
<1>1. CASE readable = {}
  BY <1>1 DEF LastHmac, Macs
<1>2. CASE readable # {}
  <2> DEFINE FromEnd == {m \in 0..(Len(lines) - 1) : lines[Len(lines) - m].text = "json"}
  <2>1. ASSUME NEW j \in readable
        PROVE  Len(lines) - j \in FromEnd /\ j \in 1..Len(lines)
    <3>1. j \in 1..Len(lines) /\ lines[j].text = "json"
      OBVIOUS
    <3>2. PICK m \in 0..(Len(lines) - 1) : m = Len(lines) - j
      BY <3>1
    <3>3. Len(lines) - m = j
      BY <3>1, <3>2
    <3> HIDE DEF readable
    <3>4. m \in FromEnd
      BY <3>1, <3>3
    <3> HIDE DEF FromEnd
    <3>5. QED
      BY <3>1, <3>2, <3>4
  <2>2. FromEnd \in SUBSET Nat /\ FromEnd # {}
    <3>1. PICK j \in readable : TRUE
      BY <1>2
    <3>2. Len(lines) - j \in FromEnd
      BY <2>1
    <3>3. FromEnd \in SUBSET Nat
      OBVIOUS
    <3> HIDE DEF FromEnd
    <3>4. QED
      BY <3>2, <3>3
  <2>3. PICK d \in FromEnd : \A m \in FromEnd : d <= m
    BY <2>2, LeastNatural
  <2> DEFINE i == Len(lines) - d
  <2>4. i \in readable /\ \A j \in readable : j <= i
    <3>1. i \in readable /\ d \in Nat
      BY <2>3
    <3>2. ASSUME NEW j \in readable
          PROVE  j <= i
      <4>1. Len(lines) - j \in FromEnd /\ j \in 1..Len(lines)
        BY <2>1
      <4> HIDE DEF FromEnd, readable
      <4>2. d <= Len(lines) - j
        BY <2>3, <4>1
      <4>3. QED
        BY <3>1, <4>1, <4>2
    <3>3. QED
      BY <3>1, <3>2
  <2>5. \E k \in readable : Top(k)
    <3> HIDE DEF readable, i
    <3> QED
      BY <2>4
  <2> DEFINE last == CHOOSE k \in readable : Top(k)
  <2>6. last \in readable
    <3> HIDE DEF readable, Top
    <3> QED
      BY <2>5
  <2>7. LastHmac(lines) = lines[last].mac
    BY <1>2 DEF LastHmac
  <2>8. lines[last] \in Lines
    BY <2>6
  <2>9. QED
    BY <2>7, <2>8 DEF Lines, Macs
<1>3. QED
  BY <1>1, <1>2

LEMMA BootstrappedType ==
  ASSUME NEW lines \in Seq(Lines)
  PROVE  Bootstrapped(lines) \in Loggers
BY CheckedType, LastHmacType DEF Bootstrapped, Fresh, Loggers, Steps, Genesis, Macs

(* Bytes added to lines give lines.                                        *)
LEMMA AddedType ==
  ASSUME NEW lines \in Seq(Lines), NEW line \in Lines, ended \/ lines # <<>>
  PROVE  Added(lines, line) \in Seq(Lines)
<1>1. CASE ended
  BY <1>1 DEF Added
<1>2. CASE ~ended
  <2>1. Len(lines) \in 1..Len(lines) /\ lines[Len(lines)] \in Lines
    BY <1>2
  <2>2. Spoilt(lines[Len(lines)], line) \in Lines
    BY <2>1 DEF Spoilt, Lines
  <2>3. QED
    BY <1>2, <2>1, <2>2 DEF Added
<1>3. QED
  BY <1>1, <1>2

LEMMA RetextType ==
  ASSUME NEW lines \in Seq(Lines), lines # <<>>, NEW text \in {"json", "cut", "bytes"}
  PROVE  /\ [lines EXCEPT ![Len(lines)].text = text] \in Seq(Lines)
         /\ Len([lines EXCEPT ![Len(lines)].text = text]) = Len(lines)
<1> DEFINE l == [lines[Len(lines)] EXCEPT !.text = text]
<1>1. Len(lines) \in 1..Len(lines) /\ lines[Len(lines)] \in Lines
  OBVIOUS
<1>2. l \in Lines
  BY <1>1 DEF Lines
<1> HIDE DEF l
<1>3. /\ [lines EXCEPT ![Len(lines)] = l] \in Seq(Lines)
      /\ Len([lines EXCEPT ![Len(lines)] = l]) = Len(lines)
  BY <1>1, <1>2
<1>4. QED
  BY <1>3 DEF l

LEMMA EmptyType == <<>> \in Seq(Lines) /\ Len(<<>>) = 0
OBVIOUS

-----------------------------------------------------------------------------
(* Types: a line without its newline is a line, and who writes one has an   *)
(* entry.                                                                  *)
TypeInv ==
    /\ TypeOK
    /\ ended \/ file # <<>>
    /\ \A p \in Procs : log[p].step \in {"rest", "sync"} => log[p].entry \in Ids

LEMMA StopsShortType ==
  ASSUME TypeInv, NEW p \in Procs, StopsShort(p)
  PROVE  file' \in Seq(Lines) /\ Len(file') = Len(file)
<1>1. CASE At(p, "rest") /\ ~ended
  <2>1. PICK text \in {"json", "cut", "bytes"} :
           file' = [file EXCEPT ![Len(file)].text = text]
    BY <1>1 DEF StopsShort
  <2>2. QED
    BY <1>1, <2>1, RetextType DEF TypeInv, TypeOK
<1>2. CASE ~(At(p, "rest") /\ ~ended)
  BY <1>2 DEF StopsShort, TypeInv, TypeOK
<1>3. QED
  BY <1>1, <1>2

LEMMA EntryType ==
  ASSUME TypeInv, NEW p \in Procs, next \in Ids, NEW text \in {"json", "cut", "bytes"}
  PROVE  Entry(p, text) \in Lines
BY DEF TypeInv, TypeOK, Entry, Lines, Loggers

LEMMA AddedNotEmpty ==
  ASSUME NEW lines \in Seq(Lines), NEW line, ended \/ lines # <<>>
  PROVE  Added(lines, line) # <<>>
BY DEF Added

LEMMA PutType ==
  ASSUME TypeInv, NEW p \in Procs, NEW text \in {"json", "cut", "bytes"},
         NEW step \in Steps, Put(p, text, step), ended' \in BOOLEAN
  PROVE  TypeInv'
<1>1. file' \in Seq(Lines) /\ file' # <<>>
  BY EntryType, AddedType, AddedNotEmpty DEF Put, TypeInv, TypeOK
<1>2. log' \in [Procs -> Loggers]
  <2>1. log[p] \in Loggers /\ next \in Ids
    BY DEF Put, TypeInv, TypeOK
  <2>2. [log[p] EXCEPT !.entry = next, !.step = step] \in Loggers
    BY <2>1 DEF Loggers
  <2>3. log' = [log EXCEPT ![p] = [log[p] EXCEPT !.entry = next, !.step = step]]
    BY DEF Put
  <2>4. QED
    BY <2>2, <2>3 DEF TypeInv, TypeOK
<1>3. QED
  BY <1>1, <1>2, AuditAssumption DEF Put, TypeInv, TypeOK, Ids

LEMMA GotoType ==
  ASSUME TypeInv, NEW p \in Procs, NEW s \in Steps, Goto(p, s), s \notin {"rest", "sync"}
  PROVE  /\ log' \in [Procs -> Loggers]
         /\ \A q \in Procs : log'[q].step \in {"rest", "sync"} => log'[q].entry \in Ids
<1> DEFINE l == [log[p] EXCEPT !.step = s]
<1>1. log' = [log EXCEPT ![p] = l]
  BY DEF Goto
<1>2. log \in [Procs -> Loggers]
  BY DEF TypeInv, TypeOK
<1>3. l \in Loggers /\ l.step = s
  BY <1>2 DEF Loggers
<1> HIDE DEF l
<1>4. log'[p] = l /\ \A q \in Procs \ {p} : log'[q] = log[q]
  BY <1>1, <1>2
<1>5. QED
  BY <1>1, <1>2, <1>3, <1>4 DEF TypeInv

LEMMA TypeInvariant == Spec => []TypeInv
<1> USE AuditAssumption
<1>1. Init => TypeInv
  <2>1. Off \in Loggers /\ Off.step = "idle"
    BY DEF Off, Fresh, Loggers, Steps, Genesis, Macs
  <2> SUFFICES ASSUME Init PROVE TypeInv
    OBVIOUS
  <2>2. log \in [Procs -> Loggers] /\ \A p \in Procs : log[p].step = "idle"
    BY <2>1 DEF Init
  <2>3. next \in 1..(MaxIds + 1) /\ faults \in 0..MaxFaults
    BY DEF Init
  <2>4. QED
    BY <2>2, <2>3, EmptyType DEF Init, TypeInv, TypeOK
<1>2. TypeInv /\ [Next]_vars => TypeInv'
  <2> SUFFICES ASSUME TypeInv, [Next]_vars
               PROVE  TypeInv'
    OBVIOUS
  <2>1. CASE UNCHANGED vars
    BY <2>1 DEF vars, TypeInv, TypeOK
  <2>2. ASSUME NEW p \in Procs, Start(p)
        PROVE  TypeInv'
    BY <2>2, BootstrappedType DEF Start, Bootstrapped, Fresh, TypeInv, TypeOK
  <2>3. ASSUME NEW p \in Procs, StartUnread(p)
        PROVE  TypeInv'
    BY <2>3 DEF StartUnread, Faulty, Fresh, TypeInv, TypeOK, Loggers, Steps, Genesis, Macs
  <2>4. ASSUME NEW p \in Procs, StartWithoutParent(p)
        PROVE  TypeInv'
    BY <2>4 DEF StartWithoutParent, Faulty, Fresh, TypeInv, TypeOK, Loggers, Steps, Genesis, Macs
  <2>5. ASSUME NEW p \in Procs, Exit(p)
        PROVE  TypeInv'
    BY <2>5 DEF Exit, Off, Fresh, TypeInv, TypeOK, Loggers, Steps, Genesis, Macs
  <2>6. ASSUME NEW p \in Procs, Enter(p)
        PROVE  TypeInv'
    <3>1. Goto(p, "unlink") \/ Goto(p, "append")
      BY <2>6 DEF Enter
    <3>2. /\ log' \in [Procs -> Loggers]
          /\ \A q \in Procs : log'[q].step \in {"rest", "sync"} => log'[q].entry \in Ids
      BY <3>1, GotoType DEF Steps
    <3>3. QED
      BY <2>6, <3>2 DEF Enter, TypeInv, TypeOK
  <2>7. ASSUME NEW p \in Procs, UnlinkOld(p)
        PROVE  TypeInv'
    <3>1. /\ log' \in [Procs -> Loggers]
          /\ \A q \in Procs : log'[q].step \in {"rest", "sync"} => log'[q].entry \in Ids
      BY <2>7, GotoType DEF UnlinkOld, Steps
    <3>2. QED
      BY <2>7, <3>1, EmptyType DEF UnlinkOld, TypeInv, TypeOK
  <2>8. ASSUME NEW p \in Procs, MoveAway(p)
        PROVE  TypeInv'
    <3>1. damaged' \in BOOLEAN
      BY <2>8, Zenon DEF MoveAway
    <3>2. log' \in [Procs -> Loggers]
      <4> DEFINE l == [log[p] EXCEPT !.prev = Genesis, !.count = 0, !.step = "append"]
      <4>1. log' = [log EXCEPT ![p] = l]
        BY <2>8 DEF MoveAway
      <4>2. log[p] \in Loggers
        BY DEF TypeInv, TypeOK
      <4>3. l \in Loggers
        BY <4>2 DEF Loggers, Steps, Genesis, Macs
      <4> HIDE DEF l
      <4>4. QED
        BY <4>1, <4>3 DEF TypeInv, TypeOK
    <3>3. file' \in Seq(Lines) /\ old' \in Seq(Lines) /\ ended' = TRUE /\ exists' = FALSE
      BY <2>8, EmptyType DEF MoveAway, TypeInv, TypeOK
    <3>4. \A q \in Procs : log'[q].step \in {"rest", "sync"} => log'[q].entry \in Ids
      BY <2>8 DEF MoveAway, TypeInv, TypeOK, Loggers
    <3>5. QED
      BY <2>8, <3>1, <3>2, <3>3, <3>4 DEF MoveAway, TypeInv, TypeOK
  <2>9. ASSUME NEW p \in Procs, WriteLine(p)
        PROVE  TypeInv'
    BY <2>9, PutType DEF WriteLine, Steps
  <2>10. ASSUME NEW p \in Procs, WritePart(p)
         PROVE  TypeInv'
    BY <2>10, PutType DEF WritePart, Steps
  <2>11. ASSUME NEW p \in Procs, WriteRest(p)
         PROVE  TypeInv'
    <3>1. file' \in Seq(Lines)
      <4>1. CASE MyPart(p) /\ file' = [file EXCEPT ![Len(file)].text = "json"]
        BY <4>1, RetextType DEF MyPart, TypeInv, TypeOK
      <4>2. CASE file' = Added(file, [mac |-> log[p].entry, prev |-> log[p].prev,
                                      ids |-> {log[p].entry}, text |-> "cut"])
        BY <2>11, <4>2, AddedType DEF WriteRest, At, TypeInv, TypeOK, Lines, Loggers
      <4>3. QED
        BY <2>11, <4>1, <4>2 DEF WriteRest
    <3>2. QED
      <4>1. [log[p] EXCEPT !.step = "sync"] \in Loggers
        BY DEF TypeInv, TypeOK, Loggers, Steps
      <4>2. log' = [log EXCEPT ![p] = [log[p] EXCEPT !.step = "sync"]]
        BY <2>11 DEF WriteRest, Goto
      <4>3. damaged' \in BOOLEAN
        BY <2>11, Zenon DEF WriteRest, TypeInv, TypeOK
      <4>4. log' \in [Procs -> Loggers]
        BY <4>1, <4>2 DEF TypeInv, TypeOK
      <4>5. \A q \in Procs : log'[q].step \in {"rest", "sync"} => log'[q].entry \in Ids
        BY <2>11, <4>2 DEF WriteRest, At, TypeInv, TypeOK, Loggers
      <4>6. QED
        BY <2>11, <3>1, <4>3, <4>4, <4>5 DEF WriteRest, TypeInv, TypeOK
  <2>12. ASSUME NEW p \in Procs, Done(p)
         PROVE  TypeInv'
    <3>1. log[p] \in Loggers /\ log[p].entry \in Ids
      BY <2>12 DEF Done, At, TypeInv, TypeOK
    <3>2. [log[p] EXCEPT !.prev = log[p].entry, !.count = @ + 1, !.step = "idle"] \in Loggers
      <4>1. log[p].entry \in Macs /\ log[p].count + 1 \in Nat /\ "idle" \in Steps
        BY <3>1 DEF Loggers, Steps, Macs
      <4>2. QED
        BY <3>1, <4>1 DEF Loggers
    <3>3. log' = [log EXCEPT ![p] = [log[p] EXCEPT !.prev = log[p].entry, !.count = @ + 1,
                                                   !.step = "idle"]]
      BY <2>12 DEF Done
    <3>4. log' \in [Procs -> Loggers]
      BY <3>2, <3>3 DEF TypeInv, TypeOK
    <3>5. \A q \in Procs : log'[q].step \in {"rest", "sync"} => log'[q].entry \in Ids
      BY <3>3 DEF TypeInv, TypeOK
    <3>6. QED
      BY <2>12, <3>1, <3>4, <3>5 DEF Done, TypeInv, TypeOK
  <2>13. ASSUME NEW p \in Procs, Fail(p)
         PROVE  TypeInv'
    <3>1. exists' \in BOOLEAN /\ damaged' \in BOOLEAN
      BY <2>13, Zenon DEF Fail, TypeInv, TypeOK
    <3>2. QED
      BY <2>13, <3>1, StopsShortType DEF Fail, Faulty, AfterError, At, TypeInv, TypeOK, Loggers, Steps
  <2>14. ASSUME NEW p \in Procs, Die(p)
         PROVE  TypeInv'
    <3>1. exists' \in BOOLEAN /\ damaged' \in BOOLEAN
      BY <2>14, Zenon DEF Die, TypeInv, TypeOK
    <3>2. QED
      BY <2>14, <3>1, StopsShortType
         DEF Die, Faulty, At, Off, Fresh, TypeInv, TypeOK, Loggers, Steps, Genesis, Macs
  <2>15. QED
    BY <2>1, <2>2, <2>3, <2>4, <2>5, <2>6, <2>7, <2>8, <2>9, <2>10, <2>11, <2>12, <2>13, <2>14
       DEF Next
<1>3. QED
  BY <1>1, <1>2, PTL DEF Spec

(* Every variable keeps its type.                                          *)
THEOREM AuditTypeCorrect == Spec => []TypeOK
<1>1. TypeInv => TypeOK
  BY DEF TypeInv
<1>2. QED
  BY <1>1, TypeInvariant, PTL

-----------------------------------------------------------------------------
(* The chain.  A logger that is neither in a line nor behind one knows the  *)
(* end of the file: this is what two writers, a short write and an         *)
(* unreadable file break, and what ties the memory to the disk.            *)

\* Lines that have their newline.
Whole == IF ended THEN Len(file) ELSE Len(file) - 1

\* The logger stands behind the n-th line.
Behind(p, n) == log[p].prev = EndMac(file, n) /\ log[p].count = n

\* The last line is the one p is writing, from where p stands.
Writing(p) ==
    /\ file # <<>>
    /\ file[Len(file)].mac = log[p].entry
    /\ Behind(p, Len(file) - 1)

InStep(p) ==
    /\ log[p].step \in {"idle", "unlink", "replace", "append"} => Behind(p, Whole)
    /\ At(p, "append") => log[p].count < MaxEntries
    /\ At(p, "rest") => /\ ~ended
                        /\ Writing(p)
                        /\ file[Len(file)].prev = log[p].prev
                        /\ file[Len(file)].ids = {log[p].entry}
                        /\ file[Len(file)].text = "cut"
    /\ At(p, "sync") => ended /\ Writing(p)

ChainInv ==
    /\ \A p \in Procs : ~At(p, "idle") => log[p].status = "ok"
    /\ \A p \in Procs : At(p, "rest") \/ At(p, "sync") => exists
    /\ ~exists => file = <<>>
    /\ ~damaged =>
          /\ \A i \in 1..Whole : Linked(file, i)
          /\ Len(file) <= MaxEntries
          /\ ended \/ \E p \in Procs : At(p, "rest")
          /\ \A p \in Procs : log[p].status = "ok" => InStep(p)

(* An action of p that leaves the lines alone is judged by p alone.         *)
LEMMA SameLines ==
  ASSUME TypeInv, ChainInv, NEW p \in Procs, log' \in [Procs -> Loggers],
         file' = file, ended' = ended,
         ~damaged' => ~damaged,
         exists => exists', ~exists' => ~exists,
         log'[p].step \in {"rest", "sync"} => exists,
         \A q \in Procs \ {p} : log'[q] = log[q],
         ~At(p, "rest"),
         log'[p].step # "idle" => log'[p].status = "ok",
         ~damaged' /\ log'[p].status = "ok" => InStep(p)'
  PROVE  ChainInv'
<1>1. \A q \in Procs : ~At(q, "idle")' => log'[q].status = "ok"
  BY DEF ChainInv, At
<1>2. ~exists' => file' = <<>>
  BY DEF ChainInv
<1>3. ASSUME ~damaged'
      PROVE  /\ \A i \in 1..Whole' : Linked(file, i)'
             /\ Len(file') <= MaxEntries
             /\ ended' \/ \E q \in Procs : At(q, "rest")'
  BY <1>3 DEF ChainInv, Whole, Linked, MacBefore, At
<1>4. ASSUME ~damaged', NEW q \in Procs, log'[q].status = "ok"
      PROVE  InStep(q)'
  <2>1. CASE q = p
    BY <1>4, <2>1
  <2>2. CASE q # p
    <3>1. InStep(q)
      BY <1>4, <2>2 DEF ChainInv
    <3>2. QED
      BY <3>1, <2>2 DEF InStep, Behind, Writing, EndMac, Whole, At
  <2>3. QED
    BY <2>1, <2>2
<1>5. QED
  <2>1. \A q \in Procs : (At(q, "rest") \/ At(q, "sync"))' => exists'
    BY DEF ChainInv, At
  <2>2. QED
    BY <1>1, <1>2, <1>3, <1>4, <2>1 DEF ChainInv

(* A line without its newline is in the hands of its writer.                *)
LEMMA HalfLine ==
  ASSUME TypeInv, ChainInv, ~damaged, ~ended
  PROVE  \E q \in Procs : At(q, "rest") /\ log[q].status = "ok" /\ InStep(q)
BY DEF ChainInv, At

LEMMA EmptyIsEnded ==
  ASSUME TypeInv, ChainInv, ~damaged, file = <<>>
  PROVE  ended /\ Whole = 0
BY HalfLine DEF InStep, Writing, Whole

LEMMA StartKeepsChain ==
  ASSUME TypeInv, ChainInv, NEW p \in Procs, Start(p)
  PROVE  ChainInv'
<1>1. /\ log' = [log EXCEPT ![p] = Bootstrapped(file)]
      /\ file' = file /\ ended' = ended /\ damaged' = damaged /\ exists' = exists
      /\ log[p].status = "off"
  BY DEF Start
<1>2. log' \in [Procs -> Loggers]
  BY <1>1, BootstrappedType DEF TypeInv, TypeOK
<1>3. log'[p].step = "idle" /\ ~At(p, "rest")
  BY <1>1 DEF Bootstrapped, Fresh, ChainInv, At, TypeInv, TypeOK
<1>4. ASSUME ~damaged, log'[p].status = "ok"
      PROVE  InStep(p)'
  <2>1. \A i \in 1..Whole : Linked(file, i)
    BY <1>4 DEF ChainInv
  <2>2. Whole \in 0..Len(file)
    BY DEF Whole, TypeInv, TypeOK
  <2>3. ASSUME NEW i \in 1..Len(file), i > Whole
        PROVE  i = Whole + 1 /\ file[i].text # "json"
    <3>1. ~ended /\ i = Len(file)
      BY <2>3 DEF Whole, TypeInv, TypeOK
    <3>2. file[Len(file)].text = "cut"
      BY <1>4, <3>1, HalfLine DEF InStep
    <3>3. QED
      BY <3>1, <3>2 DEF Whole
  <2>4. Checked(file) = Whole
    <3>1. Whole < Len(file) => ~Linked(file, Whole + 1)
      BY <2>2, <2>3 DEF Linked
    <3>2. QED
      BY <2>1, <2>2, <3>1, CheckedIs DEF TypeInv, TypeOK
  <2>5. LastHmac(file) = EndMac(file, Whole)
    <3>1. \A i \in 1..Whole : file[i].text = "json"
      BY <2>1 DEF Linked
    <3>2. QED
      BY <2>2, <2>3, <3>1, LastHmacIs DEF TypeInv, TypeOK
  <2>6. log'[p] = Fresh("ok", EndMac(file, Whole), Whole)
    BY <1>1, <1>4, <2>4, <2>5 DEF Bootstrapped, Fresh, TypeInv, TypeOK
  <2>7. Behind(p, Whole)'
    BY <1>1, <2>6 DEF Behind, Fresh, EndMac, Whole
  <2>8. QED
    BY <1>3, <2>7 DEF InStep, At
<1>5. QED
  BY <1>1, <1>2, <1>3, <1>4, SameLines DEF TypeInv, TypeOK

LEMMA IdleKeepsChain ==
  ASSUME TypeInv, TypeInv', ChainInv, NEW p \in Procs,
         StartUnread(p) \/ StartWithoutParent(p) \/ Exit(p)
  PROVE  ChainInv'
<1>1. /\ log'[p].step = "idle"
      /\ \A q \in Procs \ {p} : log'[q] = log[q]
      /\ file' = file /\ ended' = ended /\ exists' = exists
      /\ log' \in [Procs -> Loggers]
  BY DEF StartUnread, StartWithoutParent, Exit, Off, Fresh, TypeInv, TypeOK
<1>2. ~At(p, "rest")
  BY DEF StartUnread, StartWithoutParent, Exit, ChainInv, At
<1>3. ~damaged' => ~damaged
  BY DEF StartUnread, StartWithoutParent, Exit
<1>4. ASSUME ~damaged', log'[p].status = "ok"
      PROVE  InStep(p)'
  <2>1. StartUnread(p)
    BY <1>4 DEF StartWithoutParent, Exit, Off, Fresh, TypeInv, TypeOK
  <2>2. file = <<>>
    BY <1>4, <2>1 DEF StartUnread
  <2>3. Whole' = 0
    BY <1>1, <1>3, <1>4, <2>2, EmptyIsEnded DEF Whole
  <2>4. log'[p].prev = Genesis /\ log'[p].count = 0
    BY <2>1 DEF StartUnread, Fresh, TypeInv, TypeOK
  <2>5. QED
    BY <1>1, <2>3, <2>4 DEF InStep, Behind, EndMac, At
<1>5. QED
  BY <1>1, <1>2, <1>3, <1>4, SameLines

LEMMA EnterKeepsChain ==
  ASSUME TypeInv, TypeInv', ChainInv, NEW p \in Procs, Enter(p)
  PROVE  ChainInv'
<1> USE AuditAssumption
<1>1. /\ file' = file /\ ended' = ended /\ exists' = exists /\ damaged' = damaged
      /\ \A q \in Procs \ {p} : log'[q] = log[q]
      /\ log' \in [Procs -> Loggers]
      /\ log'[p].status = "ok" /\ log'[p].step \in {"unlink", "append"}
      /\ log'[p].prev = log[p].prev /\ log'[p].count = log[p].count
      /\ log[p].status = "ok" /\ At(p, "idle")
  BY DEF Enter, Goto, TypeInv, TypeOK, Loggers
<1>2. ASSUME ~damaged
      PROVE  InStep(p)'
  <2>1. Behind(p, Whole)
    BY <1>1, <1>2 DEF ChainInv, InStep, At
  <2>2. Behind(p, Whole)'
    BY <1>1, <2>1 DEF Behind, EndMac, Whole
  <2>3. ASSUME log'[p].step = "append"
        PROVE  log[p].count < MaxEntries
    <3>1. CASE exists
      BY <1>1, <2>3, <3>1 DEF Enter, Goto, Full, TypeInv, TypeOK, Loggers
    <3>2. CASE ~exists
      BY <1>2, <2>1, <3>2, EmptyIsEnded DEF ChainInv, Behind
    <3>3. QED
      BY <3>1, <3>2
  <2>4. QED
    BY <1>1, <2>2, <2>3 DEF InStep, At
<1>3. QED
  BY <1>1, <1>2, SameLines DEF At

LEMMA UnlinkOldKeepsChain ==
  ASSUME TypeInv, TypeInv', ChainInv, NEW p \in Procs, UnlinkOld(p)
  PROVE  ChainInv'
<1>1. /\ file' = file /\ ended' = ended /\ exists' = exists /\ damaged' = damaged
      /\ \A q \in Procs \ {p} : log'[q] = log[q]
      /\ log' \in [Procs -> Loggers]
      /\ log'[p].status = log[p].status /\ log'[p].step = "replace"
      /\ log'[p].prev = log[p].prev /\ log'[p].count = log[p].count
      /\ At(p, "unlink") /\ log[p].status = "ok"
  BY DEF UnlinkOld, Goto, At, ChainInv, TypeInv, TypeOK, Loggers
<1>2. ASSUME ~damaged
      PROVE  InStep(p)'
  <2>1. Behind(p, Whole)
    BY <1>1, <1>2 DEF ChainInv, InStep, At
  <2>2. QED
    BY <1>1, <2>1 DEF InStep, Behind, EndMac, Whole, At
<1>3. QED
  BY <1>1, <1>2, SameLines DEF At

LEMMA DoneKeepsChain ==
  ASSUME TypeInv, TypeInv', ChainInv, NEW p \in Procs, Done(p)
  PROVE  ChainInv'
<1>1. /\ file' = file /\ ended' = ended /\ exists' = exists /\ damaged' = damaged
      /\ \A q \in Procs \ {p} : log'[q] = log[q]
      /\ log' \in [Procs -> Loggers]
      /\ log'[p].step = "idle"
      /\ log'[p].prev = log[p].entry /\ log'[p].count = log[p].count + 1
      /\ At(p, "sync") /\ log[p].status = "ok"
  BY DEF Done, At, ChainInv, TypeInv, TypeOK, Loggers
<1>2. ASSUME ~damaged
      PROVE  InStep(p)'
  <2>1. ended /\ Writing(p)
    BY <1>1, <1>2 DEF ChainInv, InStep
  <2>2. Behind(p, Whole)'
    BY <1>1, <2>1 DEF Writing, Behind, EndMac, Whole, TypeInv, TypeOK
  <2>3. QED
    BY <1>1, <2>2 DEF InStep, At
<1>3. QED
  BY <1>1, <1>2, SameLines DEF At

(* A rotation by a lone logger starts a new chain.                          *)
LEMMA MoveAwayKeepsChain ==
  ASSUME TypeInv, TypeInv', ChainInv, NEW p \in Procs, MoveAway(p)
  PROVE  ChainInv'
<1> USE AuditAssumption
<1>1. /\ file' = <<>> /\ ended' = TRUE
      /\ \A q \in Procs \ {p} : log'[q] = log[q]
      /\ log'[p].prev = Genesis /\ log'[p].count = 0 /\ log'[p].step = "append"
      /\ log'[p].status = "ok"
  BY DEF MoveAway, At, ChainInv, TypeInv, TypeOK, Loggers
<1>2. Whole' = 0 /\ Len(file') = 0
  BY <1>1 DEF Whole
<1>3. InStep(p)'
  BY <1>1, <1>2 DEF InStep, Behind, EndMac, At
<1>4. ASSUME ~damaged', NEW q \in Procs, log'[q].status = "ok"
      PROVE  q = p
  BY <1>1, <1>4 DEF MoveAway, Rivals
<1>5. \A q \in Procs : ~At(q, "idle")' => log'[q].status = "ok"
  BY <1>1 DEF ChainInv, At
<1>6. ASSUME NEW q \in Procs
      PROVE  ~(At(q, "rest") \/ At(q, "sync"))'
  <2>1. CASE q = p
    BY <1>1, <2>1 DEF At
  <2>2. CASE q # p
    <3>1. log[q].status = "ok" => q \in Rivals(p)
      BY <2>2 DEF Rivals
    <3>2. log[q].step \notin {"rest", "sync"}
      BY <3>1 DEF MoveAway, ChainInv, At
    <3>3. QED
      BY <1>1, <2>2, <3>2 DEF At
  <2>3. QED
    BY <2>1, <2>2
<1>7. QED
  BY <1>1, <1>2, <1>3, <1>4, <1>5, <1>6 DEF ChainInv

(* A write that leaves the file undamaged is that of a lone logger.         *)
LEMMA LoneWrite ==
  ASSUME TypeInv, NEW p \in Procs, damaged' = (damaged \/ Rivals(p) # {}), ~damaged'
  PROVE  ~damaged /\ \A q \in Procs \ {p} : log[q].status # "ok"
BY DEF Rivals

(* The first bytes of a line go behind the last whole one, and the line     *)
(* takes the chain up where that one ends.                                 *)
LEMMA PutKeepsChain ==
  ASSUME TypeInv, TypeInv', ChainInv, NEW p \in Procs,
         NEW text \in {"json", "cut"},
         NEW step \in {"sync", "rest"},
         Put(p, text, step),
         \/ text = "json" /\ step = "sync" /\ ended' = TRUE
         \/ text = "cut" /\ step = "rest" /\ ended' = FALSE
  PROVE  ChainInv'
<1> USE AuditAssumption
<1> DEFINE n == Len(file)
<1>1. /\ \A q \in Procs \ {p} : log'[q] = log[q]
      /\ log'[p].step = step /\ log'[p].entry = next
      /\ log'[p].prev = log[p].prev /\ log'[p].count = log[p].count
      /\ log'[p].status = "ok" /\ log[p].status = "ok"
      /\ At(p, "append") /\ exists' = TRUE
  BY DEF Put, At, ChainInv, TypeInv, TypeOK, Loggers
<1>2. \A q \in Procs : ~At(q, "idle")' => log'[q].status = "ok"
  BY <1>1 DEF ChainInv, At
<1>3. ASSUME ~damaged'
      PROVE  /\ \A i \in 1..Whole' : Linked(file, i)'
             /\ Len(file') <= MaxEntries
             /\ ended' \/ \E q \in Procs : At(q, "rest")'
             /\ \A q \in Procs : log'[q].status = "ok" => InStep(q)'
  <2>1. ~damaged /\ \A q \in Procs \ {p} : log[q].status # "ok"
    BY <1>3, LoneWrite DEF Put
  <2>2. ended
    <3> SUFFICES ASSUME ~ended PROVE FALSE
      OBVIOUS
    <3>1. PICK q \in Procs : At(q, "rest") /\ log[q].status = "ok"
      BY <2>1, HalfLine
    <3>2. QED
      BY <1>1, <2>1, <3>1 DEF At
  <2>3. /\ \A i \in 1..n : Linked(file, i)
        /\ Behind(p, n)
        /\ n < MaxEntries
    BY <1>1, <2>1, <2>2 DEF ChainInv, InStep, Behind, Whole, At
  <2>4. file' = Append(file, Entry(p, text))
    BY <2>2 DEF Put, Added
  <2>5. /\ Len(file') = n + 1 /\ file'[n + 1] = Entry(p, text)
        /\ \A i \in 1..n : file'[i] = file[i]
        /\ n \in Nat
    BY <2>4 DEF TypeInv, TypeOK
  <2>6. EndMac(file', n) = EndMac(file, n)
    BY <2>5 DEF EndMac
  <2>7. \A i \in 1..n : Linked(file, i)'
    BY <2>3, <2>5 DEF Linked, MacBefore
  <2>8. ASSUME text = "json"
        PROVE  Linked(file', n + 1)
    <3>1. MacBefore(file', n + 1) = EndMac(file', n)
      BY <2>5, (n + 1) - 1 = n DEF MacBefore, EndMac
    <3>2. file'[n + 1].text = "json" /\ file'[n + 1].prev = EndMac(file, n)
      BY <2>3, <2>5, <2>8 DEF Entry, Behind
    <3>3. QED
      BY <2>6, <3>1, <3>2 DEF Linked
  <2>9. \A i \in 1..Whole' : Linked(file, i)'
    <3>1. CASE text = "json"
      <4>1. Whole' = n + 1
        BY <2>5, <3>1 DEF Whole
      <4>2. \A i \in 1..(n + 1) : i \in 1..n \/ i = n + 1
        BY <2>5
      <4>3. QED
        BY <2>7, <2>8, <3>1, <4>1, <4>2 DEF Linked
    <3>2. CASE text = "cut"
      BY <2>5, <2>7, <3>2 DEF Whole
    <3>3. QED
      BY <3>1, <3>2
  <2>10. Writing(p)'
    BY <1>1, <2>3, <2>5, <2>6 DEF Writing, Behind, Entry
  <2>11. InStep(p)'
    BY <1>1, <2>5, <2>10 DEF InStep, Entry, At
  <2>12. QED
    BY <1>1, <2>1, <2>3, <2>5, <2>9, <2>11 DEF At
<1>4. QED
  BY <1>1, <1>2, <1>3 DEF ChainInv

(* The rest of a line that nobody came across makes it the next link.       *)
LEMMA WriteRestKeepsChain ==
  ASSUME TypeInv, TypeInv', ChainInv, NEW p \in Procs, WriteRest(p)
  PROVE  ChainInv'
<1> DEFINE n == Len(file)
<1>1. /\ \A q \in Procs \ {p} : log'[q] = log[q]
      /\ log'[p].step = "sync" /\ log'[p].entry = log[p].entry
      /\ log'[p].prev = log[p].prev /\ log'[p].count = log[p].count
      /\ log'[p].status = "ok" /\ log[p].status = "ok"
      /\ At(p, "rest") /\ ended' = TRUE /\ exists' = exists
  BY DEF WriteRest, Goto, At, ChainInv, TypeInv, TypeOK, Loggers
<1>2. \A q \in Procs : ~At(q, "idle")' => log'[q].status = "ok"
  BY <1>1 DEF ChainInv, At
<1>3. exists'
  BY <1>1 DEF ChainInv
<1>4. ASSUME ~damaged'
      PROVE  /\ \A i \in 1..Whole' : Linked(file, i)'
             /\ Len(file') <= MaxEntries
             /\ \A q \in Procs : log'[q].status = "ok" => InStep(q)'
  <2>1. ~damaged /\ \A q \in Procs \ {p} : log[q].status # "ok"
    BY <1>4, LoneWrite DEF WriteRest
  <2>2. /\ InStep(p) /\ n <= MaxEntries
        /\ \A i \in 1..Whole : Linked(file, i)
    BY <1>1, <2>1 DEF ChainInv
  <2>3. /\ ~ended /\ Writing(p)
        /\ file[n].prev = log[p].prev
        /\ file[n].ids = {log[p].entry}
    BY <1>1, <2>2 DEF InStep
  <2>4. file' = [file EXCEPT ![n].text = "json"]
    BY <2>3 DEF WriteRest, MyPart
  <2>5. /\ n \in 1..n /\ file \in Seq(Lines) /\ file[n] \in Lines
    BY <2>3 DEF Writing, TypeInv, TypeOK
  <2>6. /\ Len(file') = n
        /\ \A i \in 1..(n - 1) : file'[i] = file[i]
        /\ file'[n].text = "json" /\ file'[n].mac = file[n].mac
        /\ file'[n].prev = file[n].prev
    <3>1. file'[n] = [file[n] EXCEPT !.text = "json"]
      BY <2>4, <2>5
    <3>2. /\ file'[n].text = "json" /\ file'[n].mac = file[n].mac
          /\ file'[n].prev = file[n].prev
      BY <2>5, <3>1 DEF Lines
    <3>3. Len(file') = n /\ \A i \in 1..(n - 1) : file'[i] = file[i]
      BY <2>4, <2>5
    <3>4. QED
      BY <3>2, <3>3
  <2>7. EndMac(file', n - 1) = EndMac(file, n - 1)
    BY <2>5, <2>6 DEF EndMac
  <2>8. \A i \in 1..(n - 1) : Linked(file, i)'
    BY <2>2, <2>3, <2>5, <2>6 DEF Linked, MacBefore, Whole
  <2>9. Linked(file, n)'
    BY <2>3, <2>5, <2>6, <2>7 DEF Linked, MacBefore, Writing, Behind, EndMac
  <2>10. \A i \in 1..Whole' : Linked(file, i)'
    BY <1>1, <2>5, <2>6, <2>8, <2>9 DEF Whole
  <2>11. Writing(p)'
    BY <1>1, <2>3, <2>5, <2>6, <2>7 DEF Writing, Behind
  <2>12. InStep(p)'
    BY <1>1, <2>11 DEF InStep, At
  <2>13. QED
    BY <1>1, <2>1, <2>2, <2>6, <2>10, <2>12
<1>5. QED
  BY <1>1, <1>2, <1>3, <1>4 DEF ChainInv

(* Whatever stops a write inside its line damages the file; at any other    *)
(* step it leaves the lines as they are.                                   *)
LEMMA StopKeepsChain ==
  ASSUME TypeInv, TypeInv', ChainInv, NEW p \in Procs, Fail(p) \/ Die(p)
  PROVE  ChainInv'
<1>1. /\ log'[p].step = "idle" /\ log'[p].status # "ok"
      /\ \A q \in Procs \ {p} : log'[q] = log[q]
      /\ log' \in [Procs -> Loggers]
      /\ ended' = ended /\ StopsShort(p)
  <2>1. CASE Fail(p)
    BY <2>1 DEF Fail, AfterError, TypeInv, TypeOK, Loggers
  <2>2. CASE Die(p)
    BY <2>2 DEF Die, Off, Fresh, TypeInv, TypeOK
  <2>3. QED
    BY <2>1, <2>2
<1>2. /\ damaged' = (damaged \/ At(p, "rest"))
      /\ exists' \in {exists, exists \/ At(p, "append")}
  BY DEF Fail, Die
<1>3. exists => exists'
  BY <1>2
<1>4. CASE At(p, "rest")
  <2>1. exists
    BY <1>4 DEF ChainInv
  <2>2. \A q \in Procs : ~At(q, "idle")' => log'[q].status = "ok"
    BY <1>1 DEF ChainInv, At
  <2>3. damaged'
    BY <1>2, <1>4
  <2>4. QED
    BY <1>3, <2>1, <2>2, <2>3 DEF ChainInv
<1>5. CASE ~At(p, "rest")
  <2>1. file' = file
    BY <1>1, <1>5 DEF StopsShort
  <2>2. \A q \in Procs : ~At(q, "idle")' => log'[q].status = "ok"
    BY <1>1 DEF ChainInv, At
  <2>3. \A q \in Procs : (At(q, "rest") \/ At(q, "sync"))' => exists'
    BY <1>1, <1>3 DEF ChainInv, At
  <2>4. ~exists' => file' = <<>>
    BY <1>3, <2>1 DEF ChainInv
  <2>5. ~damaged' => ~damaged
    BY <1>2
  <2>6. ASSUME ~damaged'
        PROVE  /\ \A i \in 1..Whole' : Linked(file, i)'
               /\ Len(file') <= MaxEntries
               /\ ended' \/ \E q \in Procs : At(q, "rest")'
    BY <1>1, <1>5, <2>1, <2>5, <2>6 DEF ChainInv, Whole, Linked, MacBefore, At
  <2>7. ASSUME ~damaged', NEW q \in Procs, log'[q].status = "ok"
        PROVE  InStep(q)'
    <3>1. q # p
      BY <1>1, <2>7
    <3>2. InStep(q)
      BY <1>1, <2>5, <2>7, <3>1 DEF ChainInv
    <3>3. QED
      BY <1>1, <2>1, <3>1, <3>2 DEF InStep, Behind, Writing, EndMac, Whole, At
  <2>8. QED
    BY <2>2, <2>3, <2>4, <2>6, <2>7 DEF ChainInv
<1>6. QED
  BY <1>4, <1>5

LEMMA ChainInvariant == Spec => []ChainInv
<1> USE AuditAssumption
<1>1. Init => ChainInv
  BY DEF Init, ChainInv, InStep, Whole, Off, Fresh, At
<1>2. TypeInv /\ TypeInv' /\ ChainInv /\ [Next]_vars => ChainInv'
  <2> SUFFICES ASSUME TypeInv, TypeInv', ChainInv, [Next]_vars
               PROVE  ChainInv'
    OBVIOUS
  <2>1. CASE UNCHANGED vars
    BY <2>1 DEF vars, ChainInv, InStep, Behind, Writing, EndMac, Whole, Linked, MacBefore, At
  <2>2. ASSUME NEW p \in Procs, WriteLine(p)
        PROVE  ChainInv'
    BY <2>2, PutKeepsChain DEF WriteLine
  <2>3. ASSUME NEW p \in Procs, WritePart(p)
        PROVE  ChainInv'
    BY <2>3, PutKeepsChain DEF WritePart
  <2>4. QED
    BY <2>1, <2>2, <2>3, StartKeepsChain, IdleKeepsChain, EnterKeepsChain, UnlinkOldKeepsChain,
       MoveAwayKeepsChain, WriteRestKeepsChain, DoneKeepsChain, StopKeepsChain DEF Next
<1>3. QED
  BY <1>1, <1>2, TypeInvariant, PTL DEF Spec

(* Between two writes a file that nothing damaged verifies, whatever        *)
(* rotations, restarts and errors came before.                             *)
THEOREM ChainCorrect == Spec => []ChainVerifies
<1>1. ChainInv => ChainVerifies
  BY DEF ChainInv, ChainVerifies, Verifies, Whole
<1>2. QED
  BY <1>1, ChainInvariant, PTL

(* It never has more than max_entries lines.                                *)
THEOREM FileCorrect == Spec => []FileBounded
<1>1. ChainInv => FileBounded
  BY DEF ChainInv, FileBounded
<1>2. QED
  BY <1>1, ChainInvariant, PTL

-----------------------------------------------------------------------------
(* Retention: the entries of the file, and those of both files, are all     *)
(* that were written since the oldest of them.                             *)
Holds(lines, e) == \E i \in 1..Len(lines) : e \in lines[i].ids

(* A line is extended, cut or rotated away as a whole, and never while some *)
(* process has a line of its own under way.                                *)
RetentionInv ==
    /\ \A e, g \in Ids : e < g /\ g < next =>
          (Holds(file, e) => Holds(file, g)) /\ (Kept(e) => Kept(g))
    /\ \A e \in acked : e < next
    /\ \A p \in Procs : log[p].step # "idle" => log[p].status = "ok"
    /\ \A p \in Procs : log[p].step \in {"rest", "sync"} =>
          log[p].entry < next /\ Holds(file, log[p].entry)

(* Bytes at the end of a file take no entry away.                          *)
LEMMA AddedHolds ==
  ASSUME NEW lines \in Seq(Lines), NEW line \in Lines, ended \/ lines # <<>>, NEW e
  PROVE  Holds(Added(lines, line), e) <=> Holds(lines, e) \/ e \in line.ids
<1>1. Len(lines) \in Nat
  OBVIOUS
<1>2. CASE ended
  <2> DEFINE more == Append(lines, line)
  <2>1. /\ Len(more) = Len(lines) + 1 /\ more[Len(lines) + 1] = line
        /\ \A i \in 1..Len(lines) : more[i] = lines[i]
    OBVIOUS
  <2> HIDE DEF more
  <2>2. 1..Len(more) = (1..Len(lines)) \cup {Len(lines) + 1}
    BY <1>1, <2>1
  <2>3. Holds(more, e) <=> Holds(lines, e) \/ e \in line.ids
    BY <2>1, <2>2 DEF Holds
  <2>4. QED
    BY <1>2, <2>3 DEF Added, more
<1>3. CASE ~ended
  <2> DEFINE n == Len(lines)
             last == Spoilt(lines[n], line)
             more == [lines EXCEPT ![n] = last]
  <2>1. n \in 1..n /\ lines[n] \in Lines
    BY <1>3
  <2>2. last \in Lines /\ last.ids = lines[n].ids \cup line.ids
    BY <2>1 DEF Spoilt, Lines
  <2> HIDE DEF last
  <2>3. /\ Len(more) = n /\ more[n] = last
        /\ \A i \in 1..n : i # n => more[i] = lines[i]
    BY <2>1, <2>2
  <2> HIDE DEF more
  <2>4. Holds(more, e) <=> Holds(lines, e) \/ e \in line.ids
    BY <2>1, <2>2, <2>3 DEF Holds
  <2>5. QED
    BY <1>3, <2>4 DEF Added, more, last
<1>4. QED
  BY <1>2, <1>3

LEMMA RetextHolds ==
  ASSUME NEW lines \in Seq(Lines), lines # <<>>, NEW text \in {"json", "cut", "bytes"}, NEW e
  PROVE  Holds([lines EXCEPT ![Len(lines)].text = text], e) <=> Holds(lines, e)
<1> DEFINE n == Len(lines)
           last == [lines[n] EXCEPT !.text = text]
           more == [lines EXCEPT ![n] = last]
<1>1. n \in 1..n /\ lines[n] \in Lines
  OBVIOUS
<1>2. last \in Lines /\ last.ids = lines[n].ids
  BY <1>1 DEF Lines
<1> HIDE DEF last
<1>3. /\ Len(more) = n /\ more[n] = last
      /\ \A i \in 1..n : i # n => more[i] = lines[i]
  BY <1>1, <1>2
<1> HIDE DEF more
<1>4. Holds(more, e) <=> Holds(lines, e)
  BY <1>1, <1>2, <1>3 DEF Holds
<1>5. QED
  BY <1>4 DEF more, last

(* What is left alone by a step that writes and rotates nothing.            *)
LEMMA RetentionKept ==
  ASSUME TypeInv, RetentionInv, next' = next,
         \A e : (Holds(file', e) <=> Holds(file, e)) /\ (Holds(old', e) <=> Holds(old, e)),
         \A e \in acked' : e < next,
         \A p \in Procs : log'[p].step # "idle" => log'[p].status = "ok",
         \A p \in Procs : log'[p].step \in {"rest", "sync"} =>
             log'[p].entry = log[p].entry /\ log[p].step \in {"rest", "sync"}
  PROVE  RetentionInv'
<1>1. \A e : Kept(e)' <=> Kept(e)
  BY DEF Kept, Holds
<1>2. QED
  BY <1>1 DEF RetentionInv

LEMMA StopsShortHolds ==
  ASSUME TypeInv, NEW p \in Procs, StopsShort(p), NEW e
  PROVE  Holds(file', e) <=> Holds(file, e)
<1>1. CASE At(p, "rest") /\ ~ended
  <2>1. PICK text \in {"json", "cut", "bytes"} :
           file' = [file EXCEPT ![Len(file)].text = text]
    BY <1>1 DEF StopsShort
  <2>2. QED
    BY <1>1, <2>1, RetextHolds DEF TypeInv, TypeOK
<1>2. CASE ~(At(p, "rest") /\ ~ended)
  BY <1>2 DEF StopsShort
<1>3. QED
  BY <1>1, <1>2

LEMMA PutRetains ==
  ASSUME TypeInv, RetentionInv, NEW p \in Procs, NEW text \in {"json", "cut"},
         NEW step \in {"rest", "sync"}, Put(p, text, step)
  PROVE  RetentionInv'
<1>1. /\ log \in [Procs -> Loggers] /\ next \in Ids /\ next \in Nat /\ next' = next + 1
      /\ old' = old /\ acked' = acked /\ acked \subseteq Ids /\ Ids \subseteq Nat
      /\ log' = [log EXCEPT ![p].entry = next, ![p].step = step]
      /\ log[p].step = "append"
  BY AuditAssumption DEF TypeInv, TypeOK, Put, At, Ids
<1>2. ASSUME NEW e
      PROVE  Holds(file', e) <=> Holds(file, e) \/ e = next
  <2>1. Entry(p, text) \in Lines /\ Entry(p, text).ids = {next}
    BY <1>1, EntryType DEF Entry
  <2>2. QED
    BY <2>1, AddedHolds DEF Put, TypeInv, TypeOK
<1>3. \A e : Kept(e)' <=> Kept(e) \/ e = next
  BY <1>1, <1>2 DEF Kept, Holds
<1>4. ASSUME NEW e \in Ids, NEW g \in Ids, e < g, g < next'
      PROVE  /\ Holds(file', e) => Holds(file', g)
             /\ Kept(e)' => Kept(g)'
  <2>1. e \in Nat /\ g \in Nat /\ e # next /\ (g < next \/ g = next)
    BY <1>1, <1>4
  <2>2. QED
    BY <1>2, <1>3, <1>4, <2>1 DEF RetentionInv
<1>5. log[p] \in Loggers /\ log[p].status = "ok"
  BY <1>1 DEF RetentionInv
<1>6. /\ log'[p].entry = next /\ log'[p].status = "ok"
      /\ \A q \in Procs : q # p => log'[q] = log[q]
  BY <1>1, <1>5 DEF Loggers
<1>7. \A e \in acked' : e < next'
  BY <1>1 DEF RetentionInv
<1>8. \A q \in Procs : log'[q].step # "idle" => log'[q].status = "ok"
  BY <1>6 DEF RetentionInv
<1>9. ASSUME NEW q \in Procs, log'[q].step \in {"rest", "sync"}
      PROVE  log'[q].entry < next' /\ Holds(file', log'[q].entry)
  <2>1. CASE q = p
    BY <1>1, <1>2, <1>6, <2>1
  <2>2. CASE q # p
    <3>1. log[q].step \in {"rest", "sync"} /\ log[q].entry \in Ids /\ log'[q] = log[q]
      BY <1>6, <1>9, <2>2 DEF TypeInv
    <3>2. log[q].entry < next /\ Holds(file, log[q].entry) /\ log[q].entry \in Nat
      BY <1>1, <3>1 DEF RetentionInv
    <3>3. QED
      BY <1>1, <1>2, <3>1, <3>2
  <2>3. QED
    BY <2>1, <2>2
<1>10. QED
  BY <1>4, <1>7, <1>8, <1>9 DEF RetentionInv

LEMMA WriteRestRetains ==
  ASSUME TypeInv, RetentionInv, NEW p \in Procs, WriteRest(p)
  PROVE  RetentionInv'
<1>1. /\ log \in [Procs -> Loggers] /\ log[p] \in Loggers /\ log[p].step = "rest"
      /\ log' = [log EXCEPT ![p].step = "sync"]
      /\ next' = next /\ old' = old /\ acked' = acked
  BY DEF TypeInv, TypeOK, WriteRest, At, Goto
<1>2. log[p].entry \in Ids /\ Holds(file, log[p].entry)
  BY <1>1 DEF TypeInv, RetentionInv
<1>3. ASSUME NEW e
      PROVE  Holds(file', e) <=> Holds(file, e)
  <2>1. CASE MyPart(p) /\ file' = [file EXCEPT ![Len(file)].text = "json"]
    BY <2>1, RetextHolds DEF MyPart, TypeInv, TypeOK
  <2> DEFINE line == [mac |-> log[p].entry, prev |-> log[p].prev,
                      ids |-> {log[p].entry}, text |-> "cut"]
  <2>2. CASE file' = Added(file, line)
    <3>1. line \in Lines /\ line.ids = {log[p].entry}
      BY <1>1, <1>2 DEF Lines, Loggers
    <3>2. QED
      BY <1>2, <2>2, <3>1, AddedHolds DEF TypeInv, TypeOK
  <2>3. QED
    BY <2>1, <2>2 DEF WriteRest
<1>4. /\ log'[p].status = log[p].status /\ log'[p].entry = log[p].entry
      /\ \A q \in Procs : q # p => log'[q] = log[q]
  BY <1>1 DEF Loggers
<1>5. QED
  BY <1>1, <1>3, <1>4, RetentionKept DEF RetentionInv

(* No process has a line under way when the file is moved, so the entries   *)
(* of the file are now those of the old one.                               *)
LEMMA MoveAwayRetains ==
  ASSUME TypeInv, RetentionInv, NEW p \in Procs, MoveAway(p)
  PROVE  RetentionInv'
<1>1. /\ log \in [Procs -> Loggers] /\ log[p] \in Loggers /\ log[p].step = "replace"
      /\ log' = [log EXCEPT ![p].prev = Genesis, ![p].count = 0, ![p].step = "append"]
      /\ next' = next /\ old' = file /\ file' = <<>> /\ acked' = acked
  BY DEF TypeInv, TypeOK, MoveAway, At
<1>2. \A e : ~Holds(file', e) /\ (Kept(e)' <=> Holds(file, e))
  BY <1>1, EmptyType DEF Holds, Kept
<1>3. \A q \in Procs : q # p => log[q].step \notin {"rest", "sync"}
  BY DEF MoveAway, Rivals, RetentionInv
<1>4. /\ log'[p].status = log[p].status /\ log'[p].step = "append"
      /\ \A q \in Procs : q # p => log'[q] = log[q]
  BY <1>1 DEF Loggers
<1>5. QED
  BY <1>1, <1>2, <1>3, <1>4 DEF RetentionInv

LEMMA UnlinkOldRetains ==
  ASSUME TypeInv, RetentionInv, NEW p \in Procs, UnlinkOld(p)
  PROVE  RetentionInv'
<1>1. /\ log \in [Procs -> Loggers] /\ log[p] \in Loggers /\ log[p].step = "unlink"
      /\ log' = [log EXCEPT ![p].step = "replace"]
      /\ next' = next /\ old' = <<>> /\ file' = file /\ acked' = acked
  BY DEF TypeInv, TypeOK, UnlinkOld, At, Goto
<1>2. \A e : Kept(e)' <=> Holds(file, e)
  BY <1>1, EmptyType DEF Holds, Kept
<1>3. /\ log'[p].status = log[p].status /\ log'[p].step = "replace"
      /\ \A q \in Procs : q # p => log'[q] = log[q]
  BY <1>1 DEF Loggers
<1>4. QED
  BY <1>1, <1>2, <1>3 DEF RetentionInv

LEMMA DoneRetains ==
  ASSUME TypeInv, RetentionInv, NEW p \in Procs, Done(p)
  PROVE  RetentionInv'
<1>1. /\ log \in [Procs -> Loggers] /\ log[p] \in Loggers /\ log[p].step = "sync"
      /\ log' = [log EXCEPT ![p].prev = log[p].entry, ![p].count = @ + 1, ![p].step = "idle"]
      /\ next' = next /\ old' = old /\ file' = file /\ acked' = acked \cup {log[p].entry}
  BY DEF TypeInv, TypeOK, Done, At
<1>2. /\ log'[p].step = "idle" /\ \A q \in Procs : q # p => log'[q] = log[q]
  BY <1>1 DEF Loggers
<1>3. \A e \in acked' : e < next
  BY <1>1 DEF RetentionInv
<1>4. QED
  BY <1>1, <1>2, <1>3, RetentionKept DEF RetentionInv

(* A process that starts, ends, fails or enters a call writes nothing.      *)
LEMMA OtherRetains ==
  ASSUME TypeInv, RetentionInv, NEW p \in Procs,
         \/ Start(p) \/ StartUnread(p) \/ StartWithoutParent(p) \/ Exit(p)
         \/ Enter(p) \/ Fail(p) \/ Die(p)
  PROVE  RetentionInv'
<1>1. log \in [Procs -> Loggers] /\ log[p] \in Loggers
  BY DEF TypeInv, TypeOK
<1>2. /\ next' = next /\ old' = old /\ acked' = acked
      /\ \A q \in Procs : q # p => log'[q] = log[q]
  BY <1>1 DEF Start, StartUnread, StartWithoutParent, Exit, Enter, Goto, Fail, Die
<1>3. ASSUME NEW e
      PROVE  Holds(file', e) <=> Holds(file, e)
  <2>1. CASE Fail(p) \/ Die(p)
    BY <2>1, StopsShortHolds DEF Fail, Die
  <2>2. CASE file' = file
    BY <2>2
  <2>3. QED
    BY <2>1, <2>2 DEF Start, StartUnread, StartWithoutParent, Exit, Enter
<1>4. \/ log'[p].step = "idle"
      \/ log'[p].step \in {"unlink", "append"} /\ log'[p].status = "ok"
  <2>1. CASE Enter(p)
    BY <1>1, <2>1 DEF Enter, Goto, Loggers
  <2>2. CASE Fail(p)
    BY <1>1, <2>2 DEF Fail, Loggers
  <2>3. CASE Start(p) \/ StartUnread(p) \/ StartWithoutParent(p) \/ Exit(p) \/ Die(p)
    BY <1>1, <2>3 DEF Start, StartUnread, StartWithoutParent, Exit, Die, Off, Bootstrapped, Fresh
  <2>4. QED
    BY <2>1, <2>2, <2>3
<1>5. QED
  BY <1>2, <1>3, <1>4, RetentionKept DEF RetentionInv

LEMMA RetentionInvariant == Spec => []RetentionInv
<1>1. Init => RetentionInv
  BY EmptyType, AuditAssumption DEF Init, RetentionInv, Holds, Kept, Off, Fresh, Ids
<1>2. TypeInv /\ RetentionInv /\ [Next]_vars => RetentionInv'
  <2> SUFFICES ASSUME TypeInv, RetentionInv, [Next]_vars
               PROVE  RetentionInv'
    OBVIOUS
  <2>1. ASSUME NEW p \in Procs, WriteLine(p) \/ WritePart(p)
        PROVE  RetentionInv'
    BY <2>1, PutRetains DEF WriteLine, WritePart
  <2>2. CASE UNCHANGED vars
    BY <2>2 DEF vars, RetentionInv, Holds, Kept
  <2>3. QED
    BY <2>1, <2>2, OtherRetains, WriteRestRetains, MoveAwayRetains, UnlinkOldRetains, DoneRetains
    DEF Next
<1>3. QED
  BY <1>1, <1>2, TypeInvariant, PTL DEF Spec

(* Rotation drops the oldest entries only, for any number of processes, and *)
(* whatever fails on the way.                                              *)
THEOREM RetentionCorrect == Spec => []RetentionKeepsNewest
<1>1. TypeInv /\ RetentionInv => RetentionKeepsNewest
  BY DEF TypeInv, TypeOK, RetentionInv, RetentionKeepsNewest
<1>2. QED
  BY <1>1, RetentionInvariant, TypeInvariant, PTL

=============================================================================
