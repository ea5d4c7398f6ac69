-------------------------- MODULE RequestList_proofs --------------------------
(***************************************************************************)
(* Proofs about the waiting calls, for every set of devices, any number of  *)
(* rows and whatever an uninitialised count may hold.                       *)
(***************************************************************************)
EXTENDS RequestList, SequenceTheorems, TLAPS

-----------------------------------------------------------------------------
(* The list operations *)

(* Removing the p-th call moves each later one up by one place. *)
LEMMA RemoveAtFacts ==
    ASSUME NEW S, NEW s \in Seq(S), NEW p \in 1 .. Len(s)
    PROVE  /\ RemoveAt(s, p) \in Seq(S)
           /\ Len(RemoveAt(s, p)) = Len(s) - 1
           /\ \A i \in 1 .. Len(s) - 1 :
                  RemoveAt(s, p)[i] = s[IF i < p THEN i ELSE i + 1]
<1> DEFINE a == SubSeq(s, 1, p - 1)
           b == SubSeq(s, p + 1, Len(s))
<1>1. /\ a \in Seq(S) /\ Len(a) = p - 1
      /\ \A i \in 1 .. p - 1 : a[i] = s[i]
  BY SubSeqProperties
<1>2. /\ b \in Seq(S) /\ Len(b) = Len(s) - p
      /\ \A i \in 1 .. Len(s) - p : b[i] = s[p + i]
  BY SubSeqProperties
<1>3. RemoveAt(s, p) = a \o b
  BY DEF RemoveAt
<1> HIDE DEF a, b
<1>4. /\ a \o b \in Seq(S)
      /\ Len(a \o b) = Len(a) + Len(b)
      /\ \A i \in 1 .. Len(a) + Len(b) :
             (a \o b)[i] = IF i <= Len(a) THEN a[i] ELSE b[i - Len(a)]
  BY <1>1, <1>2, ConcatProperties
<1>5. /\ Len(s) \in Nat /\ p \in 1 .. Len(s)
      /\ Len(a) + Len(b) = Len(s) - 1
  BY <1>1, <1>2
<1>6. ASSUME NEW i \in 1 .. Len(s) - 1
      PROVE  (a \o b)[i] = s[IF i < p THEN i ELSE i + 1]
  <2>1. CASE i < p
    BY <2>1, <1>1, <1>4, <1>5
  <2>2. CASE ~(i < p)
    <3>1. i - (p - 1) \in 1 .. Len(s) - p /\ p + (i - (p - 1)) = i + 1
      BY <2>2, <1>5
    <3>2. (a \o b)[i] = b[i - (p - 1)]
      BY <2>2, <1>1, <1>4, <1>5
    <3>3. b[i - (p - 1)] = s[i + 1]
      BY <3>1, <1>2
    <3> QED
      BY <2>2, <3>2, <3>3
  <2> QED
    BY <2>1, <2>2
<1> QED
  BY <1>3, <1>4, <1>5, <1>6

(* No call is in the list twice. *)
Distinct(l) == \A i, j \in 1 .. Len(l) : l[i] = l[j] => i = j

(* insert_list keeps a list of calls, and keeps them distinct. *)
LEMMA InsertFacts ==
    ASSUME NEW l \in Seq(Calls), NEW r \in Calls
    PROVE  /\ insert_list(l, r) \in Seq(Calls)
           /\ Distinct(l) => Distinct(insert_list(l, r))
  BY DEF insert_list, query_list, Distinct

(* So does deletes_list. *)
LEMMA DeleteFacts ==
    ASSUME NEW l \in Seq(Calls), NEW r
    PROVE  /\ deletes_list(l, r) \in Seq(Calls)
           /\ Distinct(l) => Distinct(deletes_list(l, r))
<1> DEFINE p == CHOOSE i \in 1 .. Len(l) : l[i] = r
<1>1. CASE query_list(l, r)
  <2>1. p \in 1 .. Len(l)
    BY <1>1 DEF query_list
  <2>2. deletes_list(l, r) = RemoveAt(l, p)
    BY <1>1 DEF deletes_list
  <2> DEFINE d == RemoveAt(l, p)
             before(i) == IF i < p THEN i ELSE i + 1
  <2> HIDE DEF p, d
  <2>3. /\ d \in Seq(Calls) /\ Len(d) = Len(l) - 1 /\ Len(l) \in Nat
        /\ \A i \in 1 .. Len(l) - 1 : d[i] = l[before(i)]
    BY <2>1, RemoveAtFacts DEF d
  <2>4. ASSUME Distinct(l), NEW i \in 1 .. Len(d), NEW j \in 1 .. Len(d),
               d[i] = d[j]
        PROVE  i = j
    <3>1. /\ before(i) \in 1 .. Len(l) /\ before(j) \in 1 .. Len(l)
          /\ before(i) = before(j) => i = j
      BY <2>1, <2>3
    <3>2. l[before(i)] = l[before(j)]
      BY <2>3, <2>4
    <3> QED
      BY <2>4, <3>1, <3>2 DEF Distinct
  <2> QED
    BY <2>2, <2>3, <2>4 DEF Distinct, d
<1>2. CASE ~query_list(l, r)
  BY <1>2 DEF deletes_list
<1> QED
  BY <1>1, <1>2

-----------------------------------------------------------------------------
(* What a package does to a list and its count *)

ListCodes == {4, 9}     \* the codes that redraw a list

LEMMA CodesOfLists == Seq(ListCodes) \subseteq Seq(Codes)
BY DEF ListCodes, Codes

LEMMA RefreshType ==
    ASSUME NEW n
    PROVE  Refresh(n) \in Seq(ListCodes)
<1>1. <<9>> \in Seq(ListCodes) /\ <<4>> \in Seq(ListCodes) /\ <<>> \in Seq(ListCodes)
  BY DEF ListCodes
<1> QED
  BY <1>1, ConcatProperties DEF Refresh

(* Kind k may come to hold list l with count n: a list of calls, none       *)
(* twice if none was before, with its length as the count, or 0 (PCU) or    *)
(* whatever the unset variable held (BCU).                                  *)
Change(k, l, n) ==
    /\ list' = [list EXCEPT ![k] = l] /\ number' = [number EXCEPT ![k] = n]
    /\ c_todo' \in Seq(ListCodes)
    /\ Distinct(list[k]) => Distinct(l)
    /\ n = Len(l) \/ n \in (IF k = "PCU" THEN {0} ELSE Garbage)

LEMMA UpdateIsChange ==
    ASSUME NEW k \in Kinds, NEW l \in Seq(Calls), NEW n \in Nat,
           NEW redraw \in BOOLEAN, Update(k, l, n, redraw),
           Distinct(list[k]) => Distinct(l),
           n = Len(l) \/ n \in (IF k = "PCU" THEN {0} ELSE Garbage)
    PROVE  \E ll \in Seq(Calls), nn \in Nat : Change(k, ll, nn)
<1> DEFINE shown == IF redraw /\ l = <<>> THEN <<ShowCode(k)>> ELSE <<>>
           fresh == Refresh([number EXCEPT ![k] = n])
<1>1. shown \in Seq(ListCodes) /\ fresh \in Seq(ListCodes)
  <2>1. fresh \in Seq(ListCodes)
    BY RefreshType
  <2>2. shown = <<>> \/ shown = <<4>> \/ shown = <<9>>
    BY DEF ShowCode
  <2>3. <<9>> \in Seq(ListCodes) /\ <<4>> \in Seq(ListCodes) /\ <<>> \in Seq(ListCodes)
    BY DEF ListCodes
  <2> QED
    BY <2>1, <2>2, <2>3
<1>2. shown \o fresh \in Seq(ListCodes)
  <2> HIDE DEF shown, fresh
  <2> QED
    BY <1>1, ConcatProperties
<1>3. /\ list' = [list EXCEPT ![k] = l] /\ number' = [number EXCEPT ![k] = n]
      /\ c_todo' = shown \o fresh
  BY DEF Update
<1>4. Change(k, l, n)
  <2> HIDE DEF shown, fresh
  <2> QED
    BY <1>2, <1>3 DEF Change
<1> QED
  BY <1>4

(* IphRequestInsertLink and the other ...Link functions only make such a    *)
(* change.                                                                  *)
LEMMA LinkIsChange ==
    ASSUME NEW k \in Kinds, NEW p \in PackageType,
           list \in [Kinds -> Seq(Calls)],
           \/ RequestInsertLink(k, p) \/ UpdateLink(k, p)
           \/ DeleteLink(k, p) \/ DropCall(k, p)
    PROVE  \E l \in Seq(Calls), n \in Nat : Change(k, l, n)
<1> DEFINE r == <<p.car, p.dev>>
<1>1. r \in Calls /\ list[k] \in Seq(Calls) /\ Len(list[k]) \in Nat
  BY DEF Calls, PackageType
<1>2. CASE RequestInsertLink(k, p)
  <2> DEFINE l == insert_list(list[k], r)
  <2>1. Update(k, l, Len(l), FALSE)
    BY <1>2 DEF RequestInsertLink
  <2>2. l \in Seq(Calls) /\ Len(l) \in Nat /\ (Distinct(list[k]) => Distinct(l))
    BY <1>1, InsertFacts
  <2> HIDE DEF l, r
  <2> QED
    BY <2>1, <2>2, UpdateIsChange
<1>3. CASE DropCall(k, p)
  <2> DEFINE l == deletes_list(list[k], r)
  <2>1. Update(k, l, Len(l), TRUE)
    BY <1>3 DEF DropCall
  <2>2. l \in Seq(Calls) /\ Len(l) \in Nat /\ (Distinct(list[k]) => Distinct(l))
    BY <1>1, DeleteFacts
  <2> HIDE DEF l, r
  <2> QED
    BY <2>1, <2>2, UpdateIsChange
<1>4. CASE UpdateLink(k, p)
  <2>1. CASE DropCall(k, p)
    BY <2>1, <1>3
  <2>2. CASE Update(k, list[k], Len(list[k]), TRUE)
    <3> DEFINE l == list[k]
    <3>1. l \in Seq(Calls) /\ Len(l) \in Nat /\ Update(k, l, Len(l), TRUE)
      BY <2>2, <1>1
    <3> HIDE DEF l
    <3>2. (Distinct(list[k]) => Distinct(l)) /\ TRUE \in BOOLEAN
      BY DEF l
    <3> QED
      BY <3>1, <3>2, UpdateIsChange
  <2> QED
    BY <2>1, <2>2, <1>4 DEF UpdateLink
<1>5. CASE DeleteLink(k, p)
  <2>1. CASE DropCall(k, p)
    BY <2>1, <1>3
  <2>2. ASSUME NEW n \in IF k = "PCU" THEN {0} ELSE Garbage,
               Update(k, list[k], n, FALSE)
        PROVE  \E l \in Seq(Calls), m \in Nat : Change(k, l, m)
    <3>1. n \in Nat
      BY <2>2, NumbersAssumption
    <3> DEFINE l == list[k]
    <3>2. l \in Seq(Calls) /\ Update(k, l, n, FALSE)
      BY <2>2, <1>1
    <3> HIDE DEF l
    <3>3. (Distinct(list[k]) => Distinct(l)) /\ FALSE \in BOOLEAN
      BY DEF l
    <3> QED
      BY <2>2, <3>1, <3>2, <3>3, UpdateIsChange
  <2> QED
    BY <2>1, <2>2, <1>5 DEF DeleteLink
<1> QED
  BY <1>2, <1>3, <1>4, <1>5

(* A package leaves the lists alone or makes one such change, and what the  *)
(* control thread then owes the screen are known codes.                     *)
LEMMA PackageStep ==
    ASSUME TypeOK, ProbeBigCommPackage
    PROVE  /\ c_todo' \in Seq(ListCodes)
           /\ \/ UNCHANGED lists
              \/ \E k \in Kinds, l \in Seq(Calls), n \in Nat : Change(k, l, n)
<1> DEFINE p == Head(server_recv)
           Goal == \E k \in Kinds, l \in Seq(Calls), n \in Nat : Change(k, l, n)
<1>1. p \in PackageType
  BY DEF TypeOK, ProbeBigCommPackage
<1>2. \/ IscsReceive(p) \/ IscsRefuse(p) \/ IscsElsewhere(p) \/ LinkPackage(p)
  BY DEF ProbeBigCommPackage
<1>3. c_todo = <<>> /\ c_todo \in Seq(ListCodes) /\ list \in [Kinds -> Seq(Calls)]
  BY DEF TypeOK, ProbeBigCommPackage, At, ListCodes
<1> HIDE DEF p
<1>4. ASSUME NEW k \in Kinds, \/ RequestInsertLink(k, p) \/ UpdateLink(k, p)
                             \/ DeleteLink(k, p) \/ DropCall(k, p)
      PROVE  c_todo' \in Seq(ListCodes) /\ Goal
  <2>1. PICK l \in Seq(Calls), n \in Nat : Change(k, l, n)
    BY <1>1, <1>3, <1>4, LinkIsChange
  <2>2. c_todo' \in Seq(ListCodes)
    BY <2>1 DEF Change
  <2> QED
    BY <2>1, <2>2
<1>5. "PCU" \in Kinds /\ "BCU" \in Kinds
  BY DEF Kinds
<1>6. CASE IscsReceive(p)
  BY <1>6, RefreshType DEF IscsReceive
<1>7. CASE IscsRefuse(p)
  BY <1>7, <1>3 DEF IscsRefuse
<1>8. CASE IscsElsewhere(p)
  BY <1>8, <1>4, <1>5, RefreshType DEF IscsElsewhere
<1>9. CASE LinkPackage(p)
  BY <1>9, <1>4, <1>5 DEF LinkPackage, BcuUpdateLink
<1> QED
  BY <1>2, <1>6, <1>7, <1>8, <1>9

(* No other step of any thread touches a list or a count. *)
LEMMA ListsStep ==
    ASSUME TypeOK, [Next]_vars
    PROVE  \/ UNCHANGED lists
           \/ \E k \in Kinds, l \in Seq(Calls), n \in Nat : Change(k, l, n)
<1>1. CASE ProbeBigCommPackage
  BY <1>1, PackageStep
<1>2. CASE ControlStep /\ ~ProbeBigCommPackage
  BY <1>2 DEF ControlStep, Alarm, ProbeMetalButton, ProbeD2DButton, ControlCancel,
     ChangeButtons, NothingToRead, ControlRefuse, ControlWrite, CheckSoundRespnes
<1>3. CASE TouchStep
  BY <1>3 DEF TouchStep
<1>4. ASSUME NEW p \in Packages, NetworkRecv(p)
      PROVE  UNCHANGED lists
  BY <1>4 DEF NetworkRecv
<1>5. CASE UNCHANGED vars
  BY <1>5 DEF vars
<1> QED
  BY <1>1, <1>2, <1>3, <1>4, <1>5 DEF Next

-----------------------------------------------------------------------------
(* The type invariant *)

LEMMA PackagesTyped == Packages \subseteq PackageType
  BY NumbersAssumption DEF Packages, Package, PackageType

(* The parts of TypeOK that the operators shared by several actions change. *)
LEMMA PutType ==
    ASSUME TypeOK, NEW p \in PackageType, Put(p)
    PROVE  server_recv' \in Seq(PackageType) /\ Len(server_recv') <= 1
  BY DEF TypeOK, Put

RowsTyped == /\ DOMAIN rows = Kinds
             /\ \A k \in Kinds : rows[k] \in [RowsOf(k) -> Calls \union {Hidden}]

LEMMA ShowRequestsType ==
    ASSUME TypeOK, NEW k \in Kinds, ShowRequests(k)
    PROVE  RowsTyped'
<1> DEFINE drawn == [i \in RowsOf(k) |->
                        IF i > number[k] THEN Hidden
                        ELSE IF i <= Len(list[k]) THEN list[k][i] ELSE rows[k][i]]
<1>1. rows' = [rows EXCEPT ![k] = drawn]
  BY DEF ShowRequests
<1>2. drawn \in [RowsOf(k) -> Calls \union {Hidden}]
  <2> SUFFICES ASSUME NEW i \in RowsOf(k)
               PROVE  drawn[i] \in Calls \union {Hidden}
    OBVIOUS
  <2>1. i \in Nat \ {0}
    BY RowsAssumption DEF RowsOf
  <2>2. list[k] \in Seq(Calls) /\ rows[k][i] \in Calls \union {Hidden}
    BY DEF TypeOK
  <2> QED
    BY <2>1, <2>2
<1> HIDE DEF drawn
<1>3. DOMAIN rows = Kinds /\ \A j \in Kinds : rows[j] \in [RowsOf(j) -> Calls \union {Hidden}]
  BY DEF TypeOK
<1> QED
  BY <1>1, <1>2, <1>3 DEF RowsTyped

(* A refusal is a package again. *)
LEMMA RefusalType ==
    ASSUME NEW p \in PackageType, NEW car \in Nat
    PROVE  Refusal(p, car) \in PackageType
  BY DEF Refusal, Package, PackageType

(* The control thread's steps *)
LEMMA ControlType == TypeOK /\ ControlStep => TypeOK'
<1> SUFFICES ASSUME TypeOK, ControlStep
             PROVE  TypeOK'
  OBVIOUS
<1>0. /\ <<>> \in Seq(Codes) /\ <<17>> \in Seq(Codes) /\ <<3>> \in Seq(Codes)
      /\ <<13, 2>> \in Seq(Codes)
      /\ c_todo \in Seq(Codes)
      /\ c_todo # <<>> => Head(c_todo) \in Codes /\ Tail(c_todo) \in Seq(Codes)
  BY DEF TypeOK, Codes
<1> USE DEF lists, choice, touch, d2p
<1>1. CASE Alarm
  BY <1>1, <1>0 DEF Alarm, TypeOK
<1>2. CASE ProbeMetalButton
  <2>1. c_todo' \in Seq(Codes)
    BY <1>2, <1>0 DEF ProbeMetalButton
  <2> QED
    BY <1>2, <2>1 DEF ProbeMetalButton, TypeOK
<1>3. CASE ProbeD2DButton
  BY <1>3 DEF ProbeD2DButton, TypeOK
<1>4. CASE ControlCancel
  <2>1. CancelPackage \in PackageType
    BY DEF CancelPackage, Package, PackageType, TypeOK, Calls
  <2>2. server_recv' \in Seq(PackageType) /\ Len(server_recv') <= 1
    BY <1>4, <2>1, PutType DEF ControlCancel
  <2> QED
    BY <1>4, <2>2 DEF ControlCancel, TypeOK
<1>5. CASE ChangeButtons
  <2>1. c_todo' \in Seq(Codes)
    BY <1>5, <1>0 DEF ChangeButtons, LightButton, DarkenButton, KeepButton
  <2>2. /\ whether_ts_is_running' \in {0, 1}
        /\ whether_intercomm_button_is_active' \in {0, 1}
    BY <1>5 DEF ChangeButtons, LightButton, DarkenButton, KeepButton, TypeOK
  <2> QED
    BY <1>5, <2>1, <2>2 DEF ChangeButtons, TypeOK
<1>6. CASE ProbeBigCommPackage
  <2>1. list' \in [Kinds -> Seq(Calls)] /\ number' \in [Kinds -> Nat]
    <3>1. list \in [Kinds -> Seq(Calls)] /\ number \in [Kinds -> Nat]
      BY DEF TypeOK
    <3> QED
      BY <3>1, <1>6, PackageStep DEF Change
  <2>2. c_todo' \in Seq(Codes)
    BY <1>6, PackageStep, CodesOfLists
  <2> DEFINE p == Head(server_recv)
  <2>3. p \in PackageType
    BY <1>6 DEF ProbeBigCommPackage, TypeOK
  <2>4. UNCHANGED <<rows, devices_no, switchFlag, whether_ts_is_running,
                    whether_intercomm_button_is_active, d2d_flag, touch>>
    BY <1>6 DEF ProbeBigCommPackage
  <2>5. \/ IscsReceive(p) \/ IscsRefuse(p) \/ IscsElsewhere(p) \/ LinkPackage(p)
    BY <1>6 DEF ProbeBigCommPackage
  <2> HIDE DEF p
  <2>6. <<>> \in Seq(PackageType)
    OBVIOUS
  <2>7. CASE IscsReceive(p)
    <3>1. iph_select_intercom' \in PackageType
      BY <2>3, <2>7 DEF IscsReceive, Package, PackageType, TypeOK
    <3>2. server_recv' \in Seq(PackageType) /\ Len(server_recv') <= 1
      BY <2>7, <3>1 DEF IscsReceive
    <3> QED
      BY <2>1, <2>2, <2>4, <2>7, <3>1, <3>2 DEF IscsReceive, RecvD2PRequest, TypeOK
  <2>8. CASE IscsRefuse(p)
    <3>1. iph_select_intercom' \in PackageType
      BY <2>3, <2>8, RefusalType DEF IscsRefuse, PackageType, TypeOK
    <3> QED
      BY <2>1, <2>2, <2>4, <2>6, <2>8, <3>1 DEF IscsRefuse, TypeOK
  <2>9. CASE IscsElsewhere(p)
    BY <2>1, <2>2, <2>4, <2>6, <2>9, SMTT(30) DEF IscsElsewhere, TypeOK
  <2>10. CASE LinkPackage(p)
    BY <2>1, <2>2, <2>4, <2>6, <2>10 DEF LinkPackage, TypeOK
  <2> QED
    BY <2>5, <2>7, <2>8, <2>9, <2>10
<1>7. CASE NothingToRead
  BY <1>7 DEF NothingToRead, TypeOK
<1>8. CASE ControlRefuse
  BY <1>8 DEF ControlRefuse, RefuseD2PRequest, TypeOK
<1>9. CASE ControlWrite
  <2>1. server_recv' \in Seq(PackageType) /\ Len(server_recv') <= 1
    BY <1>9, PutType DEF ControlWrite, TypeOK
  <2>2. c_todo' \in Seq(Codes)
    BY <1>9, RefreshType, CodesOfLists DEF ControlWrite
  <2> QED
    BY <1>9, <2>1, <2>2 DEF ControlWrite, TypeOK
<1>10. CASE CheckSoundRespnes
  BY <1>10 DEF CheckSoundRespnes, TypeOK
<1> QED
  BY <1>1, <1>2, <1>3, <1>4, <1>5, <1>6, <1>7, <1>8, <1>9, <1>10 DEF ControlStep

(* What is read back from a label is a call again. *)
LEMMA LabelType ==
    ASSUME NEW r \in Calls
    PROVE  /\ parse_btn_lable_value(r) \subseteq Calls
           /\ parse_btn_lable_value_bcu(r) \subseteq Calls
<1>1. FirstDigit(r[1]) \subseteq Nat /\ FirstDigit(r[2]) \subseteq Nat
  BY DEF FirstDigit
<1>2. r[1] \in Nat /\ r[2] \in Nat
  BY DEF Calls
<1>3. CarRead(r[1]) \subseteq Nat
  BY <1>1, <1>2 DEF CarRead
<1> DEFINE dev == IF FirstDigit(r[2]) \subseteq 1 .. 8
                  THEN FirstDigit(r[2]) ELSE 1 .. 8
           car_bcu == IF r[1] = 0 THEN Garbage ELSE CarRead(r[1])
           dev_bcu == IF r[2] \in 1 .. 2 THEN {r[2]} ELSE Garbage \union 1 .. 2
<1>4. dev \subseteq Nat /\ car_bcu \subseteq Nat /\ dev_bcu \subseteq Nat
  <2>1. dev \subseteq Nat
    <3>1. dev = FirstDigit(r[2]) \/ dev = 1 .. 8
      OBVIOUS
    <3> HIDE DEF dev
    <3> QED
      BY <1>1, <3>1
  <2>2. car_bcu \subseteq Nat
    <3>1. car_bcu = Garbage \/ car_bcu = CarRead(r[1])
      OBVIOUS
    <3> HIDE DEF car_bcu
    <3> QED
      BY <1>3, <3>1, NumbersAssumption
  <2>3. dev_bcu \subseteq Nat
    <3>1. dev_bcu = {r[2]} \/ dev_bcu = Garbage \union 1 .. 2
      OBVIOUS
    <3>2. 1 .. 2 \subseteq Nat
      OBVIOUS
    <3> HIDE DEF dev_bcu
    <3>3. CASE dev_bcu = {r[2]}
      BY <1>2, <3>3
    <3>4. CASE dev_bcu = Garbage \union 1 .. 2
      BY <3>2, <3>4, NumbersAssumption
    <3> QED
      BY <3>1, <3>3, <3>4
  <2> QED
    BY <2>1, <2>2, <2>3
<1>5. /\ parse_btn_lable_value(r) = CarRead(r[1]) \X dev
      /\ parse_btn_lable_value_bcu(r) = car_bcu \X dev_bcu
  BY DEF parse_btn_lable_value, parse_btn_lable_value_bcu
<1> HIDE DEF dev, car_bcu, dev_bcu
<1> QED
  BY <1>3, <1>4, <1>5 DEF Calls

(* A choice from a row makes a package of type 9. *)
LEMMA SelectType ==
    ASSUME TypeOK, NEW r \in Calls, SelectPcu(r)
    PROVE  iph_select_intercom' \in PackageType
  BY DEF TypeOK, SelectPcu, Package, PackageType, Calls

(* Callbacks of the touch screen *)
LEMMA CallbackType == TypeOK /\ AnyCallback /\ UNCHANGED switchFlag
                      /\ UNCHANGED <<lists, devices_no, control>> => TypeOK'
<1> SUFFICES ASSUME TypeOK, AnyCallback, UNCHANGED switchFlag,
                    UNCHANGED <<lists, devices_no, control>>
             PROVE  TypeOK'
  OBVIOUS
<1> USE DEF lists, choice, control, d2p, Callback
<1>1. "PCU" \in Kinds /\ "BCU" \in Kinds
  BY DEF Kinds
<1>2. CASE cb_btn_intercomm
  <2>1. RowsTyped'
    BY <1>1, <1>2, ShowRequestsType DEF cb_btn_intercomm, ShowD2Ppage
  <2>2. d2p_button_state' \in 0 .. 2
    BY <1>2 DEF cb_btn_intercomm, ShowD2Ppage
  <2> QED
    BY <1>2, <2>1, <2>2 DEF cb_btn_intercomm, ShowD2Ppage, RowsTyped, TypeOK
<1>3. CASE cb_btn_intercomm_accept
  <2>1. server_recv' \in Seq(PackageType) /\ Len(server_recv') <= 1
    BY <1>3, PutType DEF cb_btn_intercomm_accept, TypeOK
  <2>2. /\ buttons' \subseteq {"intercomm", "accept", "refuse", "d2d_rows"}
        /\ d2p_button_state' \in 0 .. 2 /\ is_intercomming_with_pcu' \in {0, 1}
    BY <1>3 DEF cb_btn_intercomm_accept, RecvD2PRequest, TypeOK
  <2> QED
    BY <1>3, <2>1, <2>2 DEF cb_btn_intercomm_accept, TypeOK
<1>4. CASE cb_btn_intercomm_refuse
  <2>1. iph_select_intercom' \in PackageType
    BY <1>4, RefusalType DEF cb_btn_intercomm_refuse, TypeOK, PackageType
  <2> QED
    BY <1>4, <2>1 DEF cb_btn_intercomm_refuse, TypeOK
<1>5. CASE cb_canenl_d2d
  BY <1>5 DEF cb_canenl_d2d, TypeOK
<1>6. CASE NoCallback
  BY <1>6 DEF NoCallback, TypeOK
<1>7. ASSUME NEW i \in RowsOf("PCU"), cb_btn_d2p_request(i)
      PROVE  TypeOK'
  <2>1. rows["PCU"][i] \in Calls
    BY <1>1, <1>7 DEF cb_btn_d2p_request, TypeOK
  <2>2. iph_select_intercom' \in PackageType
    BY <1>7, <2>1, SelectType, LabelType DEF cb_btn_d2p_request
  <2> QED
    BY <1>7, <2>2 DEF cb_btn_d2p_request, SelectPcu, TypeOK
<1>8. ASSUME NEW i \in RowsOf("BCU"), cb_btn_d2d(i)
      PROVE  TypeOK'
  <2>1. gwCurD2d' \in Calls
    <3>1. rows["BCU"][LabelRead(i)] \in Calls
      BY <1>1, <1>8 DEF cb_btn_d2d, TypeOK
    <3> QED
      BY <1>8, <3>1, LabelType DEF cb_btn_d2d, SetD2dCmdPackage
  <2> QED
    BY <1>8, <2>1 DEF cb_btn_d2d, SetD2dCmdPackage, TypeOK
<1> QED
  BY <1>2, <1>3, <1>4, <1>5, <1>6, <1>7, <1>8 DEF AnyCallback

(* The touch screen thread's steps *)
LEMMA TouchType == TypeOK /\ TouchStep => TypeOK'
<1> SUFFICES ASSUME TypeOK, TouchStep
             PROVE  TypeOK'
  OBVIOUS
<1> USE DEF lists, choice, control, d2p
<1>1. UNCHANGED <<lists, devices_no, control>>
  BY DEF TouchStep
<1>2. CASE AnyCallback /\ UNCHANGED switchFlag
  BY <1>1, <1>2, CallbackType
<1>3. CASE TouchRefuse
  BY <1>1, <1>3 DEF TouchRefuse, RefuseD2PRequest, TypeOK
<1>4. CASE TouchWrite
  <2>1. server_recv' \in Seq(PackageType) /\ Len(server_recv') <= 1
    BY <1>4, PutType DEF TouchWrite, TypeOK
  <2> QED
    BY <1>1, <1>4, <2>1 DEF TouchWrite, TypeOK
<1>5. CASE TouchCancel
  <2>1. CancelPackage \in PackageType
    BY DEF CancelPackage, Package, PackageType, TypeOK, Calls
  <2>2. server_recv' \in Seq(PackageType) /\ Len(server_recv') <= 1
    BY <1>5, <2>1, PutType DEF TouchCancel
  <2> QED
    BY <1>1, <1>5, <2>2 DEF TouchCancel, TypeOK
<1>6. CASE NoAlarm
  BY <1>1, <1>6 DEF NoAlarm, TypeOK
<1>7. CASE HandleButton
  <2>1. buttons' \subseteq {"intercomm", "accept", "refuse", "d2d_rows"}
    BY <1>7 DEF HandleButton, TypeOK
  <2> QED
    BY <1>1, <1>7, <2>1 DEF HandleButton, AlarmDone, TypeOK
<1>8. ASSUME NEW k \in Kinds, HandleShow(k)
      PROVE  TypeOK'
  <2>1. RowsTyped'
    BY <1>8, ShowRequestsType DEF HandleShow
  <2> QED
    BY <1>1, <1>8, <2>1 DEF HandleShow, AlarmDone, RowsTyped, TypeOK
<1>9. CASE HandleMetalShow
  <2>1. "PCU" \in Kinds
    BY DEF Kinds
  <2>2. RowsTyped'
    BY <1>9, <2>1, ShowRequestsType DEF HandleMetalShow, ShowD2Ppage
  <2> QED
    BY <1>1, <1>9, <2>2 DEF HandleMetalShow, ShowD2Ppage, AlarmDone, RowsTyped, TypeOK
<1>10. CASE HandleMetalReceive
  BY <1>1, <1>10 DEF HandleMetalReceive, RecvD2PRequest, AlarmDone, TypeOK
<1>11. CASE HandleMetalNothing
  BY <1>1, <1>11 DEF HandleMetalNothing, AlarmDone, TypeOK
<1>12. CASE HandleMetalRefuse
  <2>1. iph_select_intercom' \in PackageType
    BY <1>12, RefusalType DEF HandleMetalRefuse, TypeOK, PackageType
  <2> QED
    BY <1>1, <1>12, <2>1 DEF HandleMetalRefuse, TypeOK
<1> QED
  BY <1>2, <1>3, <1>4, <1>5, <1>6, <1>7, <1>8, <1>9, <1>10, <1>11, <1>12 DEF TouchStep

(* Whatever packages arrive and whatever the driver presses, each variable  *)
(* keeps its type: the lists stay lists of calls, the rows show calls, the  *)
(* buffer holds at most its one package.                                    *)
THEOREM TypeCorrect == Spec => []TypeOK
<1>1. Init => TypeOK
  <2> SUFFICES ASSUME Init
               PROVE  TypeOK
    OBVIOUS
  <2>1. /\ list \in [Kinds -> Seq(Calls)] /\ number \in [Kinds -> Nat]
        /\ DOMAIN rows = Kinds
        /\ \A k \in Kinds : rows[k] \in [RowsOf(k) -> Calls \union {Hidden}]
    BY DEF Init
  <2>2. iph_select_intercom \in PackageType
    BY DEF Init, NoPackage, Package, PackageType
  <2>3. /\ server_recv \in Seq(PackageType) /\ Len(server_recv) <= 1
        /\ c_todo \in Seq(Codes)
    BY DEF Init
  <2>4. gwCurD2d \in Calls /\ devices_no \in Nat
    BY NumbersAssumption DEF Init, Calls
  <2>5. /\ switchFlag \in Codes \union {0} /\ d2d_flag \in {0, 1}
        /\ whether_ts_is_running \in {0, 1}
        /\ whether_intercomm_button_is_active \in {0, 1}
        /\ buttons \subseteq {"intercomm", "accept", "refuse", "d2d_rows"}
        /\ d2p_button_state \in 0 .. 2
        /\ d2p_page_select_iph_btn_state \in {0, 1}
        /\ is_intercomming_with_pcu \in {0, 1}
    BY DEF Init
  <2>6. /\ c_pc \in {"metal", "d2d", "cancel", "buttons", "read", "refuse",
                     "write", "check"}
        /\ t_pc \in {"wait", "look", "refuse", "write", "cancel"}
    BY DEF Init
  <2>7. t_handler \in BOOLEAN
    BY DEF Init
  <2> QED
    BY <2>1, <2>2, <2>3, <2>4, <2>5, <2>6, <2>7 DEF TypeOK
<1>2. TypeOK /\ [Next]_vars => TypeOK'
  <2> SUFFICES ASSUME TypeOK, [Next]_vars
               PROVE  TypeOK'
    OBVIOUS
  <2>1. ASSUME NEW p \in Packages, NetworkRecv(p)
        PROVE  TypeOK'
    <3>1. p \in PackageType
      BY PackagesTyped
    <3>2. server_recv' \in Seq(PackageType) /\ Len(server_recv') <= 1
      BY <2>1, <3>1 DEF NetworkRecv
    <3> QED
      BY <2>1, <3>2 DEF NetworkRecv, TypeOK, lists, choice, control, touch, d2p
  <2>2. CASE UNCHANGED vars
    BY <2>2 DEF vars, TypeOK, lists, choice, control, touch, d2p
  <2> QED
    BY <2>1, <2>2, ControlType, TouchType DEF Next
<1> QED
  BY <1>1, <1>2, PTL DEF Spec

-----------------------------------------------------------------------------
(* The lists *)

DistinctCalls == \A k \in Kinds : Distinct(list[k])

(* Every change keeps the calls distinct. *)
LEMMA DistinctStep == TypeOK /\ DistinctCalls /\ [Next]_vars => DistinctCalls'
<1> SUFFICES ASSUME TypeOK, DistinctCalls, [Next]_vars
             PROVE  DistinctCalls'
  OBVIOUS
<1>1. CASE UNCHANGED lists
  BY <1>1 DEF lists, DistinctCalls
<1>2. ASSUME NEW k \in Kinds, NEW l \in Seq(Calls), NEW n \in Nat, Change(k, l, n)
      PROVE  DistinctCalls'
  <2>1. list' = [list EXCEPT ![k] = l] /\ Distinct(l) /\ DOMAIN list = Kinds
    BY <1>2 DEF Change, DistinctCalls, TypeOK
  <2>2. ASSUME NEW j \in Kinds
        PROVE  Distinct(list'[j])
    BY <2>1 DEF DistinctCalls
  <2> QED
    BY <2>2 DEF DistinctCalls
<1> QED
  BY <1>1, <1>2, ListsStep

(* A device that calls again while it waits is listed once, whatever the    *)
(* network delivers, repeats or reorders and whatever the driver refuses:   *)
(* one deletion ends its call.                                              *)
THEOREM ListedOnce == Spec => []NoDuplicates
<1>1. Init => DistinctCalls
  BY DEF Init, DistinctCalls, Distinct
<1>2. DistinctCalls => NoDuplicates
  BY DEF DistinctCalls, Distinct, NoDuplicates
<1> QED
  BY <1>1, <1>2, DistinctStep, TypeCorrect, PTL DEF Spec

(* Every step keeps each count the length of its list, or 0 for the PCUs,   *)
(* or what BcuDeleteLink never set for the BCUs.                            *)
LEMMA CountStep == TypeOK /\ CountsTellLength /\ [Next]_vars => CountsTellLength'
<1> SUFFICES ASSUME TypeOK, CountsTellLength, [Next]_vars
             PROVE  CountsTellLength'
  OBVIOUS
<1>1. CASE UNCHANGED lists
  BY <1>1 DEF lists, CountsTellLength
<1>2. ASSUME NEW k \in Kinds, NEW l \in Seq(Calls), NEW n \in Nat, Change(k, l, n)
      PROVE  CountsTellLength'
  <2>1. /\ list' = [list EXCEPT ![k] = l] /\ number' = [number EXCEPT ![k] = n]
        /\ n = Len(l) \/ n \in (IF k = "PCU" THEN {0} ELSE Garbage)
        /\ DOMAIN list = Kinds /\ DOMAIN number = Kinds
    BY <1>2 DEF Change, TypeOK
  <2>2. "PCU" \in Kinds /\ "BCU" \in Kinds /\ (k = "PCU" \/ k = "BCU")
    BY DEF Kinds
  <2> QED
    BY <2>1, <2>2 DEF CountsTellLength
<1> QED
  BY <1>1, <1>2, ListsStep

(* The count on which pages, button and tones decide is the length of its   *)
(* list or one of the two values that a foreign refusal leaves, after any   *)
(* sequence of packages.                                                    *)
THEOREM CountsTell == Spec => []CountsTellLength
<1>1. Init => CountsTellLength
  BY DEF Init, CountsTellLength, Kinds
<1> QED
  BY <1>1, CountStep, TypeCorrect, PTL DEF Spec

-----------------------------------------------------------------------------
(* The intercom button *)

Lit == whether_intercomm_button_is_active = 1

(* While the control thread waits for the handlers of 13, 2 or 3 in this    *)
(* turn of its loop, it remembers what it asks for.                         *)
Asked ==
    \/ Lit /\ switchFlag = 0 /\ c_todo = <<13, 2>>
    \/ Lit /\ switchFlag \in {0, 13} /\ c_todo = <<2>>
    \/ Lit /\ switchFlag = 2 /\ c_todo = <<>>
    \/ ~Lit /\ switchFlag = 0 /\ c_todo = <<3>>
    \/ ~Lit /\ switchFlag = 3 /\ c_todo = <<>>
Told == "intercomm" \in buttons <=> Lit

(* Both flags are one, a refusal from the metal button keeps its code until *)
(* it is over, and nothing but this part of the loop asks for the button.   *)
ButtonInv ==
    /\ whether_ts_is_running = whether_intercomm_button_is_active
    /\ t_handler /\ t_pc # "wait" => switchFlag = 17
    /\ c_pc = "read" => /\ Lit <=> number["PCU"] > 0
                        /\ Asked \/ (Told /\ switchFlag = 0 /\ c_todo = <<>>)
    /\ c_pc # "read" => /\ Told /\ switchFlag \notin {2, 3, 13}
                        /\ \A i \in 1 .. Len(c_todo) : c_todo[i] \notin {2, 3, 13}

LEMMA ButtonControl == TypeOK /\ ButtonInv /\ ControlStep => ButtonInv'
<1> SUFFICES ASSUME TypeOK, ButtonInv, ControlStep
             PROVE  ButtonInv'
  OBVIOUS
<1>0. /\ c_todo \in Seq(Codes) /\ number["PCU"] \in Nat
      /\ whether_ts_is_running \in {0, 1}
      /\ whether_intercomm_button_is_active \in {0, 1}
  BY DEF TypeOK, Kinds
<1>1. CASE Alarm /\ c_pc = "read"
  <2>1. \/ Lit /\ c_todo = <<13, 2>> /\ switchFlag' = 13 /\ c_todo' = <<2>>
        \/ Lit /\ c_todo = <<2>> /\ switchFlag' = 2 /\ c_todo' = <<>>
        \/ ~Lit /\ c_todo = <<3>> /\ switchFlag' = 3 /\ c_todo' = <<>>
    <3>1. c_todo = <<13, 2>> => Head(c_todo) = 13 /\ Tail(c_todo) = <<2>>
      OBVIOUS
    <3>2. c_todo = <<2>> => Head(c_todo) = 2 /\ Tail(c_todo) = <<>>
      OBVIOUS
    <3>3. c_todo = <<3>> => Head(c_todo) = 3 /\ Tail(c_todo) = <<>>
      OBVIOUS
    <3>4. /\ c_todo # <<>> /\ switchFlag = 0
          /\ switchFlag' = Head(c_todo) /\ c_todo' = Tail(c_todo)
      BY <1>1 DEF Alarm
    <3>5. Asked
      BY <1>1, <3>4 DEF ButtonInv
    <3> QED
      BY <3>1, <3>2, <3>3, <3>4, <3>5 DEF Asked
  <2> QED
    BY <1>1, <2>1 DEF Alarm, ButtonInv, Asked, Lit, lists, touch
<1>2. CASE Alarm /\ c_pc # "read"
  <2>1. /\ switchFlag' = c_todo[1] /\ c_todo' = Tail(c_todo) /\ Len(c_todo) > 0
        /\ Len(c_todo') = Len(c_todo) - 1 /\ Len(c_todo) \in Nat
        /\ \A i \in 1 .. Len(c_todo) - 1 : c_todo'[i] = c_todo[i + 1]
    BY <1>0, <1>2 DEF Alarm
  <2>2. switchFlag' \notin {2, 3, 13}
    BY <1>2, <2>1 DEF ButtonInv
  <2>3. \A i \in 1 .. Len(c_todo') : c_todo'[i] \notin {2, 3, 13}
    BY <1>2, <2>1 DEF ButtonInv
  <2>4. ~(t_handler /\ t_pc # "wait")
    BY <1>2 DEF Alarm, ButtonInv
  <2> QED
    BY <1>2, <2>2, <2>3, <2>4 DEF Alarm, ButtonInv, Told, Lit, touch
<1>3. CASE ChangeButtons
  <2>1. Told /\ switchFlag' = 0 /\ ~(t_handler /\ t_pc # "wait") /\ c_todo = <<>>
    BY <1>3 DEF ChangeButtons, At, ButtonInv
  <2>2. CASE LightButton
    BY <1>3, <2>1, <2>2 DEF ChangeButtons, LightButton, ButtonInv, Asked, Lit, lists, touch
  <2>3. CASE DarkenButton
    BY <1>3, <2>1, <2>3 DEF ChangeButtons, DarkenButton, ButtonInv, Asked, Lit, lists, touch
  <2>4. CASE KeepButton
    BY <1>0, <1>3, <2>1, <2>4
       DEF ChangeButtons, KeepButton, ButtonInv, Told, Lit, lists, touch
  <2> QED
    BY <1>3, <2>2, <2>3, <2>4 DEF ChangeButtons
<1>4. CASE ProbeBigCommPackage
  <2>1. /\ c_pc = "read" /\ c_pc' # "read" /\ Told /\ switchFlag' = 0 /\ switchFlag = 0
        /\ UNCHANGED <<touch, whether_ts_is_running, whether_intercomm_button_is_active>>
    BY <1>4 DEF ProbeBigCommPackage, At, ButtonInv, Asked, IscsReceive, IscsRefuse,
                IscsElsewhere, LinkPackage
  <2>2. "intercomm" \in buttons' <=> "intercomm" \in buttons
    BY <1>4 DEF ProbeBigCommPackage, IscsReceive, IscsRefuse, IscsElsewhere, LinkPackage,
                RecvD2PRequest
  <2>3. \A i \in 1 .. Len(c_todo') : c_todo'[i] \notin {2, 3, 13}
    <3>1. c_todo' \in Seq(ListCodes)
      BY <1>4, PackageStep
    <3> QED
      BY <3>1 DEF ListCodes
  <2> QED
    BY <2>1, <2>2, <2>3 DEF ButtonInv, Told, Lit, touch
<1>5. CASE ProbeMetalButton
  <2>1. \A i \in 1 .. Len(c_todo') : c_todo'[i] \notin {2, 3, 13}
    BY <1>5 DEF ProbeMetalButton
  <2> QED
    BY <1>5, <2>1 DEF ProbeMetalButton, At, ButtonInv, Told, Lit, touch
<1>6. CASE NothingToRead
  BY <1>6 DEF NothingToRead, At, ButtonInv, Asked, Told, Lit, touch
<1>7. CASE ProbeD2DButton \/ ControlCancel \/ CheckSoundRespnes
  BY <1>7 DEF ProbeD2DButton, ControlCancel, CheckSoundRespnes, At, ButtonInv, Told, Lit,
              touch
<1>8. CASE ControlRefuse
  BY <1>8 DEF ControlRefuse, RefuseD2PRequest, At, ButtonInv, Told, Lit, touch
<1>9. CASE ControlWrite
  <2>1. \A i \in 1 .. Len(c_todo') : c_todo'[i] \notin {2, 3, 13}
    <3>1. c_todo' \in Seq(ListCodes)
      BY <1>9, RefreshType, CodesOfLists DEF ControlWrite
    <3> QED
      BY <3>1 DEF ListCodes
  <2> QED
    BY <1>9, <2>1 DEF ControlWrite, At, ButtonInv, Told, Lit, touch
<1> QED
  BY <1>1, <1>2, <1>3, <1>4, <1>5, <1>6, <1>7, <1>8, <1>9 DEF ControlStep

LEMMA ButtonTouch == TypeOK /\ ButtonInv /\ TouchStep => ButtonInv'
<1> SUFFICES ASSUME TypeOK, ButtonInv, TouchStep
             PROVE  ButtonInv'
  OBVIOUS
<1>1. UNCHANGED <<number, c_pc, c_todo, whether_ts_is_running,
                  whether_intercomm_button_is_active>>
  BY DEF TouchStep, lists, control
<1>2. ASSUME "intercomm" \in buttons' <=> "intercomm" \in buttons, UNCHANGED switchFlag,
             t_handler' /\ t_pc' # "wait" => switchFlag = 17
      PROVE  ButtonInv'
  BY <1>1, <1>2 DEF ButtonInv, Asked, Told, Lit
<1>3. CASE AnyCallback /\ UNCHANGED switchFlag
  <2>1. ~t_handler'
    BY <1>3 DEF AnyCallback, cb_btn_intercomm, cb_btn_d2p_request, cb_btn_intercomm_accept,
                cb_btn_intercomm_refuse, cb_btn_d2d, cb_canenl_d2d, NoCallback, Callback
  <2>2. "intercomm" \in buttons' <=> "intercomm" \in buttons
    BY <1>3 DEF AnyCallback, cb_btn_intercomm, cb_btn_d2p_request, cb_btn_intercomm_accept,
                cb_btn_intercomm_refuse, cb_btn_d2d, cb_canenl_d2d, NoCallback,
                SelectPcu, RecvD2PRequest, SetD2dCmdPackage
  <2> QED
    BY <1>2, <1>3, <2>1, <2>2
<1>4. CASE TouchRefuse \/ TouchCancel \/ NoAlarm
  <2>1. t_handler' = t_handler /\ t_pc # "wait" /\ UNCHANGED switchFlag
    BY <1>4 DEF TouchRefuse, TouchCancel, NoAlarm
  <2>2. "intercomm" \in buttons' <=> "intercomm" \in buttons
    BY <1>4 DEF TouchRefuse, TouchCancel, NoAlarm, RefuseD2PRequest
  <2> QED
    BY <1>2, <2>1, <2>2 DEF ButtonInv
(* The handler of any other code is over, or the code is not there. *)
<1>5. ASSUME switchFlag \notin {2, 3, 13}, switchFlag' = 0, t_pc' = "wait",
             "intercomm" \in buttons' <=> "intercomm" \in buttons
      PROVE  ButtonInv'
  BY <1>1, <1>5 DEF ButtonInv, Asked, Told, Lit
<1>6. CASE TouchWrite
  <2>1. CASE t_handler
    BY <1>5, <1>6, <2>1 DEF TouchWrite, ButtonInv
  <2>2. CASE ~t_handler
    BY <1>2, <1>6, <2>2 DEF TouchWrite, ButtonInv
  <2> QED
    BY <2>1, <2>2, <1>6 DEF TypeOK
<1>7. ASSUME NEW k \in Kinds, HandleShow(k)
      PROVE  ButtonInv'
  BY <1>5, <1>7 DEF HandleShow, AlarmDone, ShowCode
<1>8. CASE HandleButton
  <2>1. switchFlag \in {2, 3, 13} /\ c_pc = "read" /\ Asked /\ switchFlag' = 0 /\ t_pc' = "wait"
    BY <1>8 DEF HandleButton, AlarmDone, ButtonInv
  <2>2. \/ switchFlag = 2 /\ buttons' = buttons \union {"intercomm"}
        \/ switchFlag = 3 /\ buttons' = buttons \ {"intercomm"}
        \/ switchFlag = 13 /\ buttons' = buttons
    BY <1>8, <2>1 DEF HandleButton
  <2>3. CASE switchFlag = 13
    <3>1. Lit /\ c_todo = <<2>>
      BY <2>1, <2>3 DEF Asked
    <3> QED
      BY <1>1, <2>1, <3>1 DEF ButtonInv, Asked, Lit
  <2>4. CASE switchFlag # 13
    <3>1. c_todo = <<>> /\ Told'
      BY <1>1, <2>1, <2>2, <2>4 DEF Asked, Told, Lit
    <3> QED
      BY <1>1, <2>1, <3>1 DEF ButtonInv, Lit
  <2> QED
    BY <2>3, <2>4
<1>9. CASE HandleMetalShow \/ HandleMetalReceive \/ HandleMetalNothing
  <2>1. "intercomm" \in buttons' <=> "intercomm" \in buttons
    BY <1>9 DEF HandleMetalShow, HandleMetalReceive, HandleMetalNothing, RecvD2PRequest
  <2> QED
    BY <1>5, <1>9, <2>1 DEF HandleMetalShow, HandleMetalReceive, HandleMetalNothing, AlarmDone
<1>10. CASE HandleMetalRefuse
  BY <1>2, <1>10 DEF HandleMetalRefuse
<1> QED
  BY <1>3, <1>4, <1>6, <1>7, <1>8, <1>9, <1>10 DEF TouchStep

LEMMA ButtonStep == TypeOK /\ ButtonInv /\ [Next]_vars => ButtonInv'
<1> SUFFICES ASSUME TypeOK, ButtonInv, [Next]_vars
             PROVE  ButtonInv'
  OBVIOUS
<1>1. CASE UNCHANGED <<number, c_pc, c_todo, whether_ts_is_running, switchFlag,
                       whether_intercomm_button_is_active, touch, buttons>>
  BY <1>1 DEF ButtonInv, Asked, Told, Lit, touch
<1>2. (\E p \in Packages : NetworkRecv(p)) \/ UNCHANGED vars
      => UNCHANGED <<number, c_pc, c_todo, whether_ts_is_running, switchFlag,
                     whether_intercomm_button_is_active, touch, buttons>>
  BY DEF NetworkRecv, vars, lists, control
<1> QED
  BY <1>1, <1>2, ButtonControl, ButtonTouch DEF Next

(* When ChangeIntercommButtonColor has done its part of the loop, the       *)
(* button that opens the D2P page is active exactly when the count is       *)
(* positive, whatever either thread did since the flags were set and        *)
(* however the handshakes fell between the driver's presses.                *)
THEOREM ButtonFollows == Spec => []ButtonFollowsCount
<1>1. Init => ButtonInv
  BY DEF Init, ButtonInv, Told, Lit
<1>3. TypeOK /\ ButtonInv => ButtonFollowsCount
  BY DEF ButtonInv, ButtonFollowsCount, At, Asked, Told, Lit
<1> QED
  BY <1>1, <1>3, ButtonStep, TypeCorrect, PTL DEF Spec

-----------------------------------------------------------------------------
(* The rows *)

(* A row shows nothing or the call at its place.                            *)
InPlace(k) == \A i \in RowsOf(k) :
    rows[k][i] # Hidden => i <= Len(list[k]) /\ rows[k][i] = list[k][i]

AsCounted(k) == number[k] > 0 => \A i \in RowsOf(k) :
    rows[k][i] = IF i <= number[k] /\ i <= Len(list[k]) THEN list[k][i] ELSE Hidden

(* What a redraw will repair: the count is the length, so that every row is *)
(* set, or the count is unset, and then the list is still the one drawn.    *)
RowsInv(k) == /\ Drawn(k) => InPlace(k) /\ AsCounted(k)
              /\ ~Drawn(k) => number[k] = Len(list[k]) \/ InPlace(k)

(* A redraw sets the rows right, asked for or not.                          *)
LEMMA RedrawnRight ==
    ASSUME NEW k \in Kinds, TypeOK, RowsInv(k), ShowRequests(k), UNCHANGED lists
    PROVE  InPlace(k)' /\ AsCounted(k)'
<1>1. /\ rows[k] \in [RowsOf(k) -> Calls \union {Hidden}] /\ DOMAIN rows = Kinds
      /\ list[k] \in Seq(Calls) /\ Len(list[k]) \in Nat /\ number[k] \in Nat
      /\ list' = list /\ number' = number
  BY DEF TypeOK, lists
<1>2. \A i \in RowsOf(k) :
         rows'[k][i] = IF i > number[k] THEN Hidden
                       ELSE IF i <= Len(list[k]) THEN list[k][i] ELSE rows[k][i]
  BY <1>1 DEF ShowRequests
<1>3. RowsOf(k) \subseteq Nat
  BY RowsAssumption DEF RowsOf
<1>4. number[k] = Len(list[k]) \/ InPlace(k)
  BY DEF RowsInv
<1>5. ASSUME NEW i \in RowsOf(k)
      PROVE  rows'[k][i] = IF i <= number[k] /\ i <= Len(list[k]) THEN list[k][i]
                           ELSE Hidden
  BY <1>1, <1>2, <1>3, <1>4 DEF InPlace
<1> QED
  BY <1>1, <1>5 DEF InPlace, AsCounted

(* A redraw of the other kind, or no redraw at all.                         *)
LEMMA RowsKept ==
    ASSUME NEW k \in Kinds, RowsInv(k), rows'[k] = rows[k], list'[k] = list[k],
           number'[k] = number[k], Drawn(k) \/ (Drawn(k)' <=> Drawn(k))
    PROVE  RowsInv(k)'
<1>1. (InPlace(k)' <=> InPlace(k)) /\ (AsCounted(k)' <=> AsCounted(k))
  BY DEF InPlace, AsCounted
<1> QED
  BY <1>1 DEF RowsInv

(* Update owes a redraw for a count that is not 0 and for an emptied list.  *)
LEMMA UpdateOwes ==
    ASSUME NEW k \in Kinds, NEW l \in Seq(Calls), NEW n \in Nat, NEW redraw \in BOOLEAN,
           number \in [Kinds -> Nat], Update(k, l, n, redraw), Drawn(k)'
    PROVE  n = 0 /\ (redraw => l # <<>>)
<1> DEFINE c == [number EXCEPT ![k] = n]
           shown == IF redraw /\ l = <<>> THEN <<ShowCode(k)>> ELSE <<>>
           bcu == IF c["BCU"] # 0 THEN <<9>> ELSE <<>>
           pcu == IF c["PCU"] # 0 THEN <<4>> ELSE <<>>
<1>1. c_todo' = shown \o (bcu \o pcu) /\ c[k] = n
  BY DEF Update, Refresh
<1>2. \A i \in 1 .. Len(c_todo') : c_todo'[i] # ShowCode(k)
  BY DEF Drawn, ShowCode
<1>3. shown \in Seq({4, 9}) /\ bcu \in Seq({4, 9}) /\ pcu \in Seq({4, 9})
  <2>1. <<4>> \in Seq({4, 9}) /\ <<9>> \in Seq({4, 9}) /\ <<>> \in Seq({4, 9})
    OBVIOUS
  <2>2. shown = <<>> \/ shown = <<4>> \/ shown = <<9>>
    BY DEF ShowCode
  <2>3. (bcu = <<>> \/ bcu = <<9>>) /\ (pcu = <<>> \/ pcu = <<4>>)
    OBVIOUS
  <2> QED
    BY <2>1, <2>2, <2>3
<1>4. /\ Len(shown) \in 0 .. 1 /\ Len(bcu) \in 0 .. 1 /\ Len(pcu) \in 0 .. 1
      /\ (redraw /\ l = <<>>) => Len(shown) = 1 /\ shown[1] = ShowCode(k)
      /\ c["BCU"] # 0 => Len(bcu) = 1 /\ bcu[1] = 9
      /\ c["PCU"] # 0 => Len(pcu) = 1 /\ pcu[1] = 4
  OBVIOUS
<1> HIDE DEF shown, bcu, pcu, c
<1>5. /\ bcu \o pcu \in Seq({4, 9}) /\ Len(bcu \o pcu) = Len(bcu) + Len(pcu)
      /\ \A i \in 1 .. Len(bcu) + Len(pcu) :
             (bcu \o pcu)[i] = IF i <= Len(bcu) THEN bcu[i] ELSE pcu[i - Len(bcu)]
  BY <1>3, ConcatProperties
<1>6. /\ Len(c_todo') = Len(shown) + Len(bcu \o pcu)
      /\ \A i \in 1 .. Len(shown) + Len(bcu \o pcu) :
             c_todo'[i] = IF i <= Len(shown) THEN shown[i]
                          ELSE (bcu \o pcu)[i - Len(shown)]
  BY <1>1, <1>3, <1>5, ConcatProperties
<1>7. ~(redraw /\ l = <<>>)
  <2> SUFFICES ASSUME redraw /\ l = <<>>
               PROVE  FALSE
    OBVIOUS
  <2>0. Len(shown) = 1 /\ shown[1] = ShowCode(k) /\ Len(bcu \o pcu) \in Nat
    BY <1>4, <1>5
  <2>1. 1 \in 1 .. Len(c_todo') /\ c_todo'[1] = ShowCode(k)
    BY <2>0, <1>6
  <2> QED
    BY <2>1, <1>2
<1>8. CASE k = "BCU"
  <2> SUFFICES ASSUME n # 0
               PROVE  FALSE
    BY <1>7
  <2>1. Len(bcu) = 1 /\ bcu[1] = 9 /\ ShowCode(k) = 9
    BY <1>1, <1>4, <1>8 DEF ShowCode
  <2> DEFINE i == Len(shown) + 1
  <2>2. i \in 1 .. Len(c_todo') /\ c_todo'[i] = 9
    BY <2>1, <1>4, <1>5, <1>6
  <2> QED
    BY <2>1, <2>2, <1>2
<1>9. CASE k = "PCU"
  <2> SUFFICES ASSUME n # 0
               PROVE  FALSE
    BY <1>7
  <2>1. Len(pcu) = 1 /\ pcu[1] = 4 /\ ShowCode(k) = 4
    BY <1>1, <1>4, <1>9 DEF ShowCode
  <2> DEFINE i == Len(shown) + (Len(bcu) + 1)
  <2>2. (bcu \o pcu)[Len(bcu) + 1] = 4
    BY <2>1, <1>4, <1>5
  <2>3. i \in 1 .. Len(c_todo') /\ c_todo'[i] = 4
    BY <2>1, <2>2, <1>4, <1>5, <1>6
  <2> QED
    BY <2>1, <2>3, <1>2
<1> QED
  BY <1>8, <1>9 DEF Kinds

LEMMA UpdateRows ==
    ASSUME NEW k \in Kinds, NEW j \in Kinds, NEW l \in Seq(Calls), NEW n \in Nat,
           NEW redraw \in BOOLEAN, TypeOK, InPlace(j), AsCounted(j), Drawn(j),
           Update(k, l, n, redraw), UNCHANGED rows,
           l = list[k] \/ (n = Len(l) /\ (n # 0 \/ redraw))
    PROVE  RowsInv(j)'
<1>1. /\ list' = [list EXCEPT ![k] = l] /\ number' = [number EXCEPT ![k] = n]
      /\ list \in [Kinds -> Seq(Calls)] /\ number \in [Kinds -> Nat]
  BY DEF Update, TypeOK
<1>2. CASE j # k
  <2>1. list'[j] = list[j] /\ number'[j] = number[j] /\ rows'[j] = rows[j]
    BY <1>1, <1>2
  <2>2. RowsInv(j)
    BY DEF RowsInv
  <2> QED
    BY <2>1, <2>2, RowsKept
<1>3. CASE j = k
  <2>1. list'[k] = l /\ number'[k] = n /\ Len(l) \in Nat
    BY <1>1
  <2>2. Drawn(k)' => n = 0 /\ (redraw => l # <<>>)
    BY <1>1, UpdateOwes
  <2>3. n = 0 => AsCounted(k)'
    BY <2>1 DEF AsCounted
  <2>4. l = list[k] => InPlace(k)'
    BY <1>3, <2>1 DEF InPlace
  <2>5. CASE l = list[k]
    BY <1>3, <2>2, <2>3, <2>4, <2>5 DEF RowsInv
  <2>6. CASE n = Len(l) /\ (n # 0 \/ redraw)
    <3>1. ~Drawn(k)'
      BY <2>2, <2>6
    <3>2. number'[k] = Len(list'[k])
      BY <2>1, <2>6
    <3> QED
      BY <1>3, <3>1, <3>2 DEF RowsInv
  <2> QED
    BY <2>5, <2>6
<1> QED
  BY <1>2, <1>3

(* A package leaves a redraw to come, or rows that need none.               *)
LEMMA PackageRows ==
    ASSUME NEW j \in Kinds, TypeOK, RowsInv(j), ProbeBigCommPackage
    PROVE  RowsInv(j)'
<1> DEFINE p == Head(server_recv)
           r == <<p.car, p.dev>>
<1>1. /\ p \in PackageType /\ r \in Calls
      /\ list \in [Kinds -> Seq(Calls)] /\ number \in [Kinds -> Nat]
  <2>1. p \in PackageType
    BY DEF TypeOK, ProbeBigCommPackage
  <2>2. r \in Calls
    BY <2>1 DEF PackageType, Calls
  <2> QED
    BY <2>1, <2>2 DEF TypeOK
<1>2. \/ IscsReceive(p) \/ IscsRefuse(p) \/ IscsElsewhere(p) \/ LinkPackage(p)
  BY DEF ProbeBigCommPackage
<1>3. Drawn(j) /\ InPlace(j) /\ AsCounted(j) /\ UNCHANGED rows
  BY DEF ProbeBigCommPackage, At, Drawn, ShowCode, RowsInv
<1>4. CASE UNCHANGED lists
  BY <1>3, <1>4, RowsKept DEF lists
<1> HIDE DEF p
<1>5. ASSUME NEW k \in Kinds, RequestInsertLink(k, p)
      PROVE  RowsInv(j)'
  <2> DEFINE l == insert_list(list[k], r)
  <2>1. Update(k, l, Len(l), FALSE)
    BY <1>5 DEF RequestInsertLink
  <2>2. l \in Seq(Calls) /\ Len(l) \in Nat
    BY <1>1, InsertFacts
  <2>3. Len(l) # 0
    <3>1. list[k] \in Seq(Calls) /\ Len(list[k]) \in Nat
      BY <1>1
    <3>2. CASE query_list(list[k], r)
      BY <3>1, <3>2 DEF insert_list, query_list
    <3>3. CASE ~query_list(list[k], r)
      <4>1. Len(Append(list[k], r)) = Len(list[k]) + 1
        BY <1>1, <3>1, AppendProperties
      <4> QED
        BY <3>1, <3>3, <4>1 DEF insert_list
    <3> QED
      BY <3>2, <3>3
  <2> HIDE DEF l, r
  <2> QED
    BY <1>3, <2>1, <2>2, <2>3, UpdateRows
<1>6. ASSUME NEW k \in Kinds, DropCall(k, p)
      PROVE  RowsInv(j)'
  <2> DEFINE l == deletes_list(list[k], r)
  <2>1. Update(k, l, Len(l), TRUE)
    BY <1>6 DEF DropCall
  <2>2. l \in Seq(Calls) /\ Len(l) \in Nat
    BY <1>1, DeleteFacts
  <2> HIDE DEF l, r
  <2> QED
    BY <1>3, <2>1, <2>2, UpdateRows
<1>7. ASSUME NEW k \in Kinds, NEW n \in Nat, NEW b \in BOOLEAN, Update(k, list[k], n, b)
      PROVE  RowsInv(j)'
  <2>1. list[k] \in Seq(Calls)
    BY <1>1
  <2> QED
    BY <1>3, <1>7, <2>1, UpdateRows
<1>8. ASSUME NEW k \in Kinds, UpdateLink(k, p)
      PROVE  RowsInv(j)'
  <2>1. DropCall(k, p) \/ Update(k, list[k], Len(list[k]), TRUE)
    BY <1>8 DEF UpdateLink
  <2>2. Len(list[k]) \in Nat /\ TRUE \in BOOLEAN
    BY <1>1
  <2> QED
    BY <1>6, <1>7, <2>1, <2>2
<1>9. ASSUME NEW k \in Kinds, DeleteLink(k, p)
      PROVE  RowsInv(j)'
  <2>1. CASE DropCall(k, p)
    BY <1>6, <2>1
  <2>2. ASSUME NEW n \in IF k = "PCU" THEN {0} ELSE Garbage, Update(k, list[k], n, FALSE)
        PROVE  RowsInv(j)'
    <3>1. n \in Nat /\ FALSE \in BOOLEAN
      BY NumbersAssumption
    <3> QED
      BY <1>7, <2>2, <3>1
  <2> QED
    BY <1>9, <2>1, <2>2 DEF DeleteLink
<1>10. "PCU" \in Kinds /\ "BCU" \in Kinds
  BY DEF Kinds
<1>11. CASE IscsReceive(p) \/ IscsRefuse(p)
  BY <1>4, <1>11 DEF IscsReceive, IscsRefuse
<1>12. CASE IscsElsewhere(p)
  BY <1>4, <1>6, <1>10, <1>12 DEF IscsElsewhere
<1>13. CASE LinkPackage(p)
  <2>1. \/ RequestInsertLink("PCU", p) \/ RequestInsertLink("BCU", p)
        \/ UpdateLink("PCU", p) \/ UpdateLink("BCU", p)
        \/ DeleteLink("PCU", p) \/ DeleteLink("BCU", p)
    BY <1>13 DEF LinkPackage, BcuUpdateLink
  <2> QED
    BY <2>1, <1>5, <1>8, <1>9, <1>10
<1> QED
  BY <1>2, <1>11, <1>12, <1>13

(* The other steps of the control thread ask for a redraw or do not.        *)
LEMMA ControlRows ==
    ASSUME NEW j \in Kinds, TypeOK, RowsInv(j), ControlStep, ~ProbeBigCommPackage
    PROVE  RowsInv(j)'
<1>1. UNCHANGED <<list, number, rows>>
  BY DEF ControlStep, Alarm, ProbeMetalButton, ProbeD2DButton, ControlCancel,
     ChangeButtons, NothingToRead, ControlRefuse, ControlWrite, CheckSoundRespnes, lists
<1>2. CASE Alarm
  <2>1. /\ c_todo \in Seq(Codes) /\ c_todo # <<>> /\ switchFlag = 0
        /\ switchFlag' = Head(c_todo) /\ c_todo' = Tail(c_todo)
    BY <1>2 DEF Alarm, TypeOK
  <2>2. /\ switchFlag' = c_todo[1] /\ Len(c_todo) \in Nat \ {0}
        /\ Len(c_todo') = Len(c_todo) - 1
        /\ \A i \in 1 .. Len(c_todo) - 1 : c_todo'[i] = c_todo[i + 1]
    BY <2>1
  <2>3. Drawn(j)' <=> Drawn(j)
    <3>1. Drawn(j) => Drawn(j)'
      BY <2>2 DEF Drawn, ShowCode
    <3>2. ASSUME Drawn(j)', NEW i \in 1 .. Len(c_todo)
          PROVE  c_todo[i] # ShowCode(j)
      <4>1. CASE i = 1
        BY <2>2, <3>2, <4>1 DEF Drawn, ShowCode
      <4>2. CASE i # 1
        <5>1. i - 1 \in 1 .. Len(c_todo') /\ c_todo'[i - 1] = c_todo[i]
          BY <2>2, <4>2
        <5> QED
          BY <3>2, <5>1 DEF Drawn, ShowCode
      <4> QED
        BY <4>1, <4>2
    <3>3. switchFlag # ShowCode(j)
      BY <2>1 DEF ShowCode
    <3> QED
      BY <3>1, <3>2, <3>3 DEF Drawn
  <2> QED
    BY <1>1, <2>3, RowsKept
<1>3. CASE ~Alarm
  <2>1. Drawn(j)
    BY <1>3 DEF ControlStep, ProbeMetalButton, ProbeD2DButton, ControlCancel,
       ChangeButtons, NothingToRead, ControlRefuse, ControlWrite, CheckSoundRespnes,
       At, Drawn, ShowCode
  <2> QED
    BY <1>1, <2>1, RowsKept
<1> QED
  BY <1>2, <1>3

LEMMA TouchRows ==
    ASSUME NEW j \in Kinds, TypeOK, ButtonInv, RowsInv(j), TouchStep
    PROVE  RowsInv(j)'
<1>1. UNCHANGED <<lists, list, number, c_todo>>
  BY DEF TouchStep, lists, control
<1>2. ASSUME ShowRequests(j)
      PROVE  RowsInv(j)'
  BY <1>1, <1>2, RedrawnRight DEF RowsInv
<1>3. ASSUME NEW k \in Kinds, ShowRequests(k), k # j
      PROVE  rows'[j] = rows[j]
  BY <1>3 DEF ShowRequests, TypeOK
<1>4. ASSUME rows'[j] = rows[j],
             switchFlag' = switchFlag \/ (switchFlag' = 0 /\ switchFlag # ShowCode(j))
      PROVE  RowsInv(j)'
  <2>1. Drawn(j)' <=> Drawn(j)
    BY <1>1, <1>4 DEF Drawn, ShowCode
  <2> QED
    BY <1>1, <1>4, <2>1, RowsKept
<1>5. "PCU" \in Kinds /\ "BCU" \in Kinds
  BY DEF Kinds
<1>6. CASE AnyCallback /\ UNCHANGED switchFlag
  <2>1. ShowRequests("PCU") \/ UNCHANGED rows
    BY <1>6 DEF AnyCallback, cb_btn_intercomm, cb_btn_d2p_request, cb_btn_intercomm_accept,
                cb_btn_intercomm_refuse, cb_btn_d2d, cb_canenl_d2d, NoCallback, ShowD2Ppage
  <2> QED
    BY <1>2, <1>3, <1>4, <1>5, <1>6, <2>1
<1>7. CASE TouchRefuse \/ TouchCancel \/ NoAlarm \/ HandleMetalRefuse
  BY <1>4, <1>7 DEF TouchRefuse, TouchCancel, NoAlarm, HandleMetalRefuse
<1>8. CASE TouchWrite
  <2>1. t_handler => switchFlag = 17
    BY <1>8 DEF TouchWrite, ButtonInv
  <2> QED
    BY <1>4, <1>8, <2>1 DEF TouchWrite, ShowCode
<1>9. ASSUME NEW k \in Kinds, HandleShow(k)
      PROVE  RowsInv(j)'
  <2>1. ShowRequests(k) /\ switchFlag = ShowCode(k) /\ switchFlag' = 0
    BY <1>9 DEF HandleShow, AlarmDone
  <2>2. CASE k # j
    <3>1. ShowCode(k) # ShowCode(j)
      BY <2>2 DEF ShowCode, Kinds
    <3> QED
      BY <1>3, <1>4, <2>1, <2>2, <3>1
  <2> QED
    BY <1>2, <2>1, <2>2
<1>10. CASE HandleMetalShow
  <2>1. ShowRequests("PCU") /\ switchFlag = 17 /\ switchFlag' = 0
    BY <1>10 DEF HandleMetalShow, AlarmDone, ShowD2Ppage
  <2> QED
    BY <1>2, <1>3, <1>4, <1>5, <2>1 DEF ShowCode
<1>11. CASE HandleButton \/ HandleMetalReceive \/ HandleMetalNothing
  BY <1>4, <1>11 DEF HandleButton, HandleMetalReceive, HandleMetalNothing, AlarmDone,
                     ShowCode
<1> QED
  BY <1>6, <1>7, <1>8, <1>9, <1>10, <1>11 DEF TouchStep

(* For any number of rows, calls and seats, and whatever BcuDeleteLink      *)
(* never set: once the handshakes of a package are over, the rows that the  *)
(* driver may press name only calls that still wait, and as many as the     *)
(* count says are on the screen in the order in which they came.            *)
THEOREM RowsShow == Spec => []RowsShowRequests
<1> DEFINE Rows == \A j \in Kinds : RowsInv(j)
<1>1. Init => Rows
  BY DEF Init, RowsInv, InPlace, AsCounted
<1>2. Init => ButtonInv
  BY DEF Init, ButtonInv, Told, Lit
<1>3. TypeOK /\ ButtonInv /\ Rows /\ [Next]_vars => Rows'
  <2> SUFFICES ASSUME TypeOK, ButtonInv, Rows, [Next]_vars, NEW j \in Kinds
               PROVE  RowsInv(j)'
    OBVIOUS
  <2>1. RowsInv(j)
    OBVIOUS
  <2>2. CASE (\E p \in Packages : NetworkRecv(p)) \/ UNCHANGED vars
    <3>1. UNCHANGED <<list, number, rows, switchFlag, c_todo>>
      BY <2>2 DEF NetworkRecv, vars, lists, control
    <3>2. Drawn(j)' <=> Drawn(j)
      BY <3>1 DEF Drawn
    <3> QED
      BY <2>1, <3>1, <3>2, RowsKept
  <2> HIDE DEF Rows
  <2> QED
    BY <2>1, <2>2, PackageRows, ControlRows, TouchRows DEF Next
<1>4. TypeOK /\ Rows => RowsShowRequests
  <2> SUFFICES ASSUME TypeOK, Rows, NEW k \in Kinds, Drawn(k), NEW i \in RowsOf(k)
               PROVE  /\ rows[k][i] # Hidden => query_list(list[k], rows[k][i])
                      /\ number[k] > 0 =>
                            rows[k][i] = IF i <= number[k] /\ i <= Len(list[k])
                                         THEN list[k][i] ELSE Hidden
    BY DEF RowsShowRequests
  <2>1. InPlace(k) /\ AsCounted(k)
    BY DEF RowsInv
  <2>2. i \in Nat /\ i >= 1
    BY RowsAssumption DEF RowsOf
  <2>3. Len(list[k]) \in Nat
    BY DEF TypeOK
  <2> QED
    BY <2>1, <2>2, <2>3 DEF InPlace, AsCounted, query_list
<1> HIDE DEF Rows
<1> QED
  BY <1>1, <1>2, <1>3, <1>4, ButtonStep, TypeCorrect, PTL DEF Spec
==============================================================================
