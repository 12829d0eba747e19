---------------------------- MODULE IntakeProofs ----------------------------
(***************************************************************************)
(* Proofs about the way of an order in, for any order_uids, transactions,  *)
(* widths of the columns and number of lines.                              *)
(***************************************************************************)
EXTENDS Intake, TLAPS

\* What the tool counts, with the lines it has seen and sent.
Counts == /\ tool \in {"off", "json", "jsonl", "exit0", "exit1"}
          /\ res \in [valid : Nat, invalid : Nat]
          /\ seen \in Nat /\ sent \in Nat /\ others \in 0 .. MaxLines

\* A tool that goes on, or succeeded, has counted every line it has seen and
\* sent every line it counted as valid; one that gave up did so at a line it
\* did not count, and which may have got out.
CountsAgree ==
    /\ tool \in {"off", "json"} => seen = 0
    /\ tool # "exit1" => res.valid + res.invalid = seen /\ sent = res.valid
    /\ res.valid + res.invalid \in {seen - 1, seen}
    /\ sent \in {res.valid, res.valid + 1}

Pipe == Counts /\ CountsAgree
-----------------------------------------------------------------------------
\* One more line, of which ValidLine and ValidateFile write the order.
LEMMA WriteKeepsPipe ==
    ASSUME Pipe, tool \in {"json", "jsonl"}, NEW l, NEW next,
           next \in {"jsonl", "exit0"},
           seen' = seen + 1, UNCHANGED others, Write(l, next)
    PROVE  Pipe'
<1>1. /\ res.valid \in Nat /\ res.invalid \in Nat
      /\ res.valid + res.invalid = seen /\ sent = res.valid
  BY DEF Pipe, Counts, CountsAgree
<1>2. CASE sent' = sent + 1 /\ res' = [res EXCEPT !.valid = @ + 1] /\ tool' = next
  <2>1. /\ res'.valid = res.valid + 1 /\ res'.invalid = res.invalid
        /\ res' \in [valid : Nat, invalid : Nat]
    BY <1>1, <1>2 DEF Pipe, Counts
  <2> QED
    BY <1>1, <1>2, <2>1 DEF Pipe, Counts, CountsAgree
<1>3. CASE (sent' = sent + 1 \/ sent' = sent) /\ res' = res /\ tool' = "exit1"
  BY <1>1, <1>3 DEF Pipe, Counts, CountsAgree
<1> QED
  BY <1>2, <1>3 DEF Write

LEMMA InvalidKeepsPipe ==
    ASSUME Pipe, tool \in {"json", "jsonl"}, seen' = seen + 1,
           res' \in [valid : Nat, invalid : Nat],
           res'.valid = res.valid, res'.invalid = res.invalid + 1,
           tool' \in {"jsonl", "exit1"},
           sent' = sent, others' = others
    PROVE  Pipe'
<1>1. /\ res.valid \in Nat /\ res.invalid \in Nat
      /\ res.valid + res.invalid = seen /\ sent = res.valid
  BY DEF Pipe, Counts, CountsAgree
<1> QED
  BY <1>1 DEF Pipe, Counts, CountsAgree

\* The count of an invalid line.
LEMMA CountsInvalid ==
    ASSUME Pipe, res' = [res EXCEPT !.invalid = @ + 1]
    PROVE  /\ res' \in [valid : Nat, invalid : Nat]
           /\ res'.valid = res.valid /\ res'.invalid = res.invalid + 1
BY DEF Pipe, Counts

\* A step that leaves the counters alone and does not end the tool in failure
\* or success, or ends it at the end of the file.
LEMMA RestKeepsPipe ==
    ASSUME Pipe, UNCHANGED <<res, seen, sent>>, others' \in 0 .. MaxLines,
           \/ tool' = tool
           \/ tool = "off" /\ tool' \in {"json", "jsonl", "exit1"}
           \/ tool = "jsonl" /\ tool' = "exit0"
    PROVE  Pipe'
BY DEF Pipe, Counts, CountsAgree

LEMMA ScanFailsKeepsPipe == ASSUME Pipe, ScanFails PROVE Pipe'
<1>1. /\ res.valid \in Nat /\ res.invalid \in Nat
      /\ res.valid + res.invalid = seen /\ sent = res.valid
  BY DEF Pipe, Counts, CountsAgree, ScanFails
<1> QED
  BY <1>1 DEF Pipe, Counts, CountsAgree, ScanFails

LEMMA NextPipe == Pipe /\ [Next]_vars => Pipe'
<1> SUFFICES ASSUME Pipe, [Next]_vars PROVE Pipe'
  OBVIOUS
<1>1. ASSUME NEW flag, NEW path, Start(flag, path) PROVE Pipe'
  <2>1. tool = "off" /\ tool' \in {"json", "jsonl", "exit1"}
        /\ UNCHANGED <<res, seen, sent, others>>
    BY <1>1 DEF Start
  <2> QED
    BY <2>1, RestKeepsPipe DEF Pipe, Counts
<1>2. ASSUME NEW l, ValidateFile(l) PROVE Pipe'
  <2>1. tool \in {"json", "jsonl"} /\ seen' = seen + 1 /\ UNCHANGED others
    BY <1>2 DEF ValidateFile
  <2>2. CASE Write(l, "exit0")
    BY <2>1, <2>2, WriteKeepsPipe
  <2>3. CASE /\ res' = [res EXCEPT !.invalid = @ + 1]
             /\ tool' = "exit1" /\ UNCHANGED sent
    <3>1. /\ res' \in [valid : Nat, invalid : Nat]
          /\ res'.valid = res.valid /\ res'.invalid = res.invalid + 1
      BY <2>3, CountsInvalid
    <3>2. tool' \in {"jsonl", "exit1"} /\ sent' = sent
      BY <2>3
    <3> QED
      BY <2>1, <3>1, <3>2, InvalidKeepsPipe
  <2> QED
    BY <1>2, <2>2, <2>3 DEF ValidateFile
<1>3. ASSUME NEW l, ValidLine(l) PROVE Pipe'
  <2>1. tool = "jsonl" /\ seen' = seen + 1 /\ UNCHANGED others /\ Write(l, "jsonl")
    BY <1>3 DEF ValidLine
  <2> QED
    BY <2>1, WriteKeepsPipe
<1>4. ASSUME NEW l, InvalidLine(l) PROVE Pipe'
  <2>1. /\ tool = "jsonl" /\ tool' = tool /\ seen' = seen + 1
        /\ sent' = sent /\ others' = others
    BY <1>4 DEF InvalidLine
  <2>2. /\ res' \in [valid : Nat, invalid : Nat]
        /\ res'.valid = res.valid /\ res'.invalid = res.invalid + 1
    BY <1>4, CountsInvalid DEF InvalidLine
  <2> QED
    BY <2>1, <2>2, InvalidKeepsPipe
<1>5. ASSUME NEW l, Publish(l) PROVE Pipe'
  <2>1. UNCHANGED <<tool, res, seen, sent>> /\ others' \in 0 .. MaxLines
    BY <1>5, IntakeAssumption DEF Publish, pipe, Room, Pipe, Counts
  <2> QED
    BY <2>1, RestKeepsPipe
<1>6. CASE ScanFails
  BY <1>6, ScanFailsKeepsPipe
<1>7. CASE EndOfFile
  <2>1. tool = "jsonl" /\ tool' = "exit0" /\ UNCHANGED <<res, seen, sent, others>>
    BY <1>7 DEF EndOfFile
  <2> QED
    BY <2>1, RestKeepsPipe DEF Pipe, Counts
<1>8. CASE Reject \/ SaveRefused \/ SaveFails \/ Save \/ Done \/ UNCHANGED vars
  <2>1. UNCHANGED <<tool, res, seen, sent, others>>
    BY <1>8 DEF Reject, SaveRefused, SaveFails, Save, Done, Handled, pipe, vars
  <2> QED
    BY <2>1, RestKeepsPipe DEF Pipe, Counts
<1> QED
  BY <1>1, <1>2, <1>3, <1>4, <1>5, <1>6, <1>7, <1>8 DEF Next
-----------------------------------------------------------------------------
\* An order that is written or read has the fields that readers count on.
HasFields(o) == {"order_uid", "transaction", "track_number", "entry", "customer_id",
                 "currency", "date_created", "email", "amount", "items"}
                   \subseteq DOMAIN o

LEMMA AroundHasFields ==
    ASSUME NEW u, NEW x, NEW o \in Around(Good(u, x)) PROVE HasFields(o)
<1>1. HasFields(Good(u, x))
  BY DEF HasFields, Good
<1>2. DOMAIN o = DOMAIN Good(u, x)
  BY DEF Around
<1> QED
  BY <1>1, <1>2 DEF HasFields

LEMMA LinesHaveFields ==
    ASSUME NEW l \in Lines PROVE HasFields(l.order)
<1>1. ASSUME NEW o \in Orders PROVE HasFields(o)
  <2>1. CASE \E u \in UIDs, x \in Trans : o \in Around(Good(u, x))
    BY <2>1, AroundHasFields
  <2>2. CASE \E u, x : o = Good(u, x)
    BY <2>2 DEF Good, HasFields
  <2>3. \/ \E u \in UIDs, x \in Trans : o \in Around(Good(u, x))
        \/ \E x \in Trans : o = Good("empty", x)
        \/ \E u \in UIDs : o = Good(u, "empty")
    <3>1. \/ \E u \in UIDs, x \in Trans : o \in Around(Good(u, x))
          \/ o \in {Good("empty", x) : x \in Trans}
          \/ o \in {Good(u, "empty") : u \in UIDs}
      BY DEF Orders
    <3> QED
      BY <3>1
  <2> QED
    BY <2>1, <2>2, <2>3
<1>2. ASSUME NEW u, NEW x PROVE HasFields(Good(u, x))
  BY DEF Good, HasFields
<1>3. HasFields(Zero)
  BY DEF Zero, Good, HasFields
<1> QED
  BY <1>1, <1>2, <1>3 DEF Lines, Line

\* What the tool writes of a valid line is a line again.
LEMMA WritesLines ==
    ASSUME NEW l \in Lines, ValidateOrderFromJSON(l) = "valid"
    PROVE  Line("order", l.order) \in Lines
<1>1. l.form \notin {"unknown", "trailing", "text", "blank"} /\ Validate(l.order)
  BY DEF ValidateOrderFromJSON, Decodes
<1>2. Zero.order_uid = "empty"
  BY DEF Zero, Good
<1>3. l.order # Zero
  BY <1>1, <1>2 DEF Validate, validateCore
<1>4. \E o \in Orders : l = Line("order", o)
  BY <1>1, <1>3 DEF Lines, Line
<1> QED
  BY <1>4 DEF Lines, Line
-----------------------------------------------------------------------------
\* What is to be handled, and what is stored under which order_uid.
Tables == /\ topic \in Seq(Lines)
          /\ DOMAIN rows = UIDs
          /\ \A u \in UIDs : rows[u] # None => rows[u].order_uid = u

LEMMA WriteKeepsTopic ==
    ASSUME topic \in Seq(Lines), NEW l \in Lines, NEW next, Write(l, next),
           ValidateOrderFromJSON(l) = "valid"
    PROVE  topic' \in Seq(Lines)
BY WritesLines DEF Write

LEMMA SaveKeepsTables == ASSUME Tables, Save PROVE Tables'
<1> DEFINE o == Message.order
<1>1. topic # << >> /\ topic' = Tail(topic) /\ Message \in Lines
  BY DEF Save, Handled, Tables, Message
<1>2. topic' \in Seq(Lines)
  BY <1>1 DEF Tables
<1>3. HasFields(o)
  BY <1>1, LinesHaveFields
<1>4. Stored(o).order_uid = o.order_uid
  BY <1>3 DEF Stored, HasFields
<1>5. rows' = [rows EXCEPT ![o.order_uid] = Stored(o)]
  BY DEF Save
<1> HIDE DEF o
<1> QED
  BY <1>2, <1>4, <1>5 DEF Tables

LEMMA NextTables == Tables /\ [Next]_vars => Tables'
<1> SUFFICES ASSUME Tables, [Next]_vars PROVE Tables'
  OBVIOUS
<1>1. ASSUME UNCHANGED <<topic, rows>> PROVE Tables'
  BY <1>1 DEF Tables
<1>2. ASSUME NEW flag, NEW path, Start(flag, path) PROVE Tables'
  BY <1>1, <1>2 DEF Start
<1>3. ASSUME NEW l \in Lines, ValidateFile(l) \/ ValidLine(l) PROVE Tables'
  <2>1. UNCHANGED rows /\ topic' \in Seq(Lines)
    BY <1>3, WriteKeepsTopic DEF ValidateFile, ValidLine, Tables
  <2> QED
    BY <2>1 DEF Tables
<1>4. ASSUME NEW l \in Lines, InvalidLine(l) PROVE Tables'
  BY <1>1, <1>4 DEF InvalidLine
<1>5. ASSUME NEW l \in Lines, Publish(l) PROVE Tables'
  BY <1>5 DEF Publish, Tables
<1>6. CASE ScanFails \/ EndOfFile \/ Done \/ UNCHANGED vars
  BY <1>1, <1>6 DEF ScanFails, EndOfFile, Done, vars
<1>7. CASE Reject \/ SaveRefused \/ SaveFails
  <2>1. topic # << >> /\ topic' = Tail(topic) /\ UNCHANGED rows
    BY <1>7 DEF Reject, SaveRefused, SaveFails, Handled
  <2> QED
    BY <2>1 DEF Tables
<1>8. CASE Save
  BY <1>8, SaveKeepsTables
<1> QED
  BY <1>2, <1>3, <1>4, <1>5, <1>6, <1>7, <1>8 DEF Next

\* What the fields of an order may be that the readers count on.
TextKinds == {"given", "empty", "nul"}

GoodFields(o) == /\ HasFields(o)
                 /\ \A f \in Texts : o[f] \in TextKinds
                 /\ o.date_created \in {"ok", "early"}
                 /\ o.email \in {"ok", "empty", "bad"}
                 /\ \A f \in Ints \cup {"payment_dt"} : o[f] \in Int

GoodItems(o) == \A i \in DOMAIN o.items :
                   /\ o.items[i].name \in TextKinds
                   /\ \A f \in ItemInts : o.items[i][f] \in Int

Shaped(o) == GoodFields(o) /\ GoodItems(o)

LEMMA GoodIsShaped == ASSUME NEW u, NEW x PROVE Shaped(Good(u, x))
<1>1. GoodFields(Good(u, x))
  BY DEF Good, GoodFields, HasFields, Texts, TextKinds, Ints
<1>2. GoodItems(Good(u, x))
  BY DEF Good, GoodItem, GoodItems, TextKinds, ItemInts
<1> QED
  BY <1>1, <1>2 DEF Shaped

LEMMA NumbersAreInt == Numbers \subseteq Int
BY IntakeAssumption DEF Numbers

LEMMA ItemsShaped ==
    ASSUME NEW i \in Items
    PROVE  i.name \in TextKinds /\ \A f \in ItemInts : i[f] \in Int
<1>1. CASE i \in {[GoodItem EXCEPT !.name = s] : s \in {"empty", "nul"}}
  BY <1>1 DEF GoodItem, TextKinds, ItemInts
<1>2. CASE i \in {[GoodItem EXCEPT ![f] = n] : f \in ItemInts, n \in Numbers}
  BY <1>2, NumbersAreInt DEF GoodItem, TextKinds, ItemInts
<1> QED
  BY <1>1, <1>2 DEF Items

LEMMA AroundIsShaped ==
    ASSUME NEW u, NEW x, NEW o \in Around(Good(u, x)) PROVE Shaped(o)
<1> DEFINE g == Good(u, x)
<1>g. GoodFields(g) /\ GoodItems(g) /\ HasFields(g)
  BY GoodIsShaped DEF Shaped, GoodFields
<1>d. DOMAIN g = {"order_uid", "transaction", "track_number", "entry", "customer_id",
                  "currency", "text", "date_created", "email", "amount", "payment_dt",
                  "delivery_cost", "goods_total", "custom_fee", "sm_id", "items"}
  BY DEF Good
<1> HIDE DEF g
<1>h. HasFields(o)
  BY AroundHasFields
<1>1. ASSUME NEW f \in Texts, NEW s \in TextKinds, o = [g EXCEPT ![f] = s]
      PROVE  Shaped(o)
  <2>1. o.items = g.items /\ o.email = g.email /\ o.date_created = g.date_created
        /\ \A h \in Ints \cup {"payment_dt"} : o[h] = g[h]
    BY <1>1, <1>d DEF Texts, Ints
  <2>2. \A h \in Texts : o[h] \in TextKinds
    BY <1>1, <1>d, <1>g DEF Texts, GoodFields
  <2> QED
    BY <2>1, <2>2, <1>g, <1>h DEF Shaped, GoodFields, GoodItems
<1>2. ASSUME NEW f \in Ints \cup {"payment_dt"}, NEW n \in Numbers, o = [g EXCEPT ![f] = n]
      PROVE  Shaped(o)
  <2>1. o.items = g.items /\ o.email = g.email /\ o.date_created = g.date_created
    BY <1>2, <1>d DEF Ints
  <2>2. \A h \in Texts : o[h] = g[h]
    BY <1>2, <1>d DEF Texts, Ints
  <2>3. \A h \in Ints \cup {"payment_dt"} : o[h] \in {g[h], n}
    BY <1>2, <1>d DEF Ints
  <2>4. \A h \in Ints \cup {"payment_dt"} : o[h] \in Int
    BY <2>3, <1>g, NumbersAreInt DEF GoodFields
  <2> QED
    BY <2>1, <2>2, <2>4, <1>g, <1>h DEF Shaped, GoodFields, GoodItems
<1>3. ASSUME o = [g EXCEPT !.date_created = "early"] PROVE Shaped(o)
  <2>1. /\ o.items = g.items /\ o.email = g.email /\ o.date_created = "early"
        /\ \A h \in Texts \cup Ints \cup {"payment_dt"} : o[h] = g[h]
    BY <1>3, <1>d DEF Texts, Ints
  <2> QED
    BY <2>1, <1>g, <1>h DEF Shaped, GoodFields, GoodItems
<1>4. ASSUME NEW e \in {"empty", "bad"}, o = [g EXCEPT !.email = e] PROVE Shaped(o)
  <2>1. /\ o.items = g.items /\ o.email = e /\ o.date_created = g.date_created
        /\ \A h \in Texts \cup Ints \cup {"payment_dt"} : o[h] = g[h]
    BY <1>4, <1>d DEF Texts, Ints
  <2> QED
    BY <2>1, <1>g, <1>h DEF Shaped, GoodFields, GoodItems
<1>5. ASSUME NEW s, o = [g EXCEPT !.items = s],
             \A i \in DOMAIN s : /\ s[i].name \in TextKinds
                                 /\ \A f \in ItemInts : s[i][f] \in Int
      PROVE  Shaped(o)
  <2>1. /\ o.items = s /\ o.email = g.email /\ o.date_created = g.date_created
        /\ \A h \in Texts \cup Ints \cup {"payment_dt"} : o[h] = g[h]
    BY <1>5, <1>d DEF Texts, Ints
  <2> QED
    BY <2>1, <1>5, <1>g, <1>h DEF Shaped, GoodFields, GoodItems
<1>6. ASSUME NEW i \in Items, o = [g EXCEPT !.items = <<GoodItem, i>>] PROVE Shaped(o)
  <2>1. GoodItem.name \in TextKinds /\ \A f \in ItemInts : GoodItem[f] \in Int
    BY DEF GoodItem, TextKinds, ItemInts
  <2>2. \A j \in DOMAIN <<GoodItem, i>> :
           LET t == <<GoodItem, i>>[j]
           IN  t.name \in TextKinds /\ \A f \in ItemInts : t[f] \in Int
    BY <2>1, ItemsShaped
  <2> QED
    BY <2>2, <1>5, <1>6
<1>7. o = [g EXCEPT !.items = << >>] => Shaped(o)
  BY <1>5
<1>8. \/ \E f \in Texts, s \in TextKinds : o = [g EXCEPT ![f] = s]
      \/ \E f \in Ints \cup {"payment_dt"}, n \in Numbers : o = [g EXCEPT ![f] = n]
      \/ o = [g EXCEPT !.date_created = "early"]
      \/ \E e \in {"empty", "bad"} : o = [g EXCEPT !.email = e]
      \/ o = [g EXCEPT !.items = << >>]
      \/ \E i \in Items : o = [g EXCEPT !.items = <<GoodItem, i>>]
  <2> DEFINE A == {[g EXCEPT ![f] = s] : f \in Texts, s \in {"given", "empty", "nul"}}
             B == {[g EXCEPT ![f] = n] : f \in Ints \cup {"payment_dt"}, n \in Numbers}
             C == {[g EXCEPT !.date_created = "early"]}
             D == {[g EXCEPT !.email = e] : e \in {"empty", "bad"}}
             E == {[g EXCEPT !.items = << >>]}
             F == {[g EXCEPT !.items = <<GoodItem, i>>] : i \in Items}
  <2>1. o \in A \cup B \cup C \cup D \cup E \cup F
    <3>1. o \in Around(g)
      BY DEF g
    <3>2. Around(g) = A \cup B \cup C \cup D \cup E \cup F
      BY DEF Around
    <3> QED
      BY <3>1, <3>2
  <2>2. o \in A => \E f \in Texts, s \in TextKinds : o = [g EXCEPT ![f] = s]
    BY DEF TextKinds
  <2>3. o \in B => \E f \in Ints \cup {"payment_dt"}, n \in Numbers :
                      o = [g EXCEPT ![f] = n]
    OBVIOUS
  <2>4. o \in C => o = [g EXCEPT !.date_created = "early"]
    BY Zenon
  <2>5. o \in D => \E e \in {"empty", "bad"} : o = [g EXCEPT !.email = e]
    BY Zenon
  <2>6. o \in E => o = [g EXCEPT !.items = << >>]
    BY Zenon
  <2>7. o \in F => \E i \in Items : o = [g EXCEPT !.items = <<GoodItem, i>>]
    BY Zenon
  <2> HIDE DEF A, B, C, D, E, F
  <2> QED
    BY <2>1, <2>2, <2>3, <2>4, <2>5, <2>6, <2>7, Zenon
<1> QED
  BY <1>1, <1>2, <1>3, <1>4, <1>6, <1>7, <1>8

LEMMA ValidIsShaped ==
    ASSUME NEW l \in Lines, MessageVerdict(l) = "valid"
    PROVE  Validate(l.order) /\ Shaped(l.order)
<1>1. Validate(l.order)
  BY DEF MessageVerdict
<1>2. l.order # Zero
  BY <1>1 DEF Validate, validateCore, Zero, Good
<1>3. ASSUME NEW o \in Orders PROVE Shaped(o)
  <2>1. \/ \E u \in UIDs, x \in Trans : o \in Around(Good(u, x))
        \/ o \in {Good("empty", x) : x \in Trans}
        \/ o \in {Good(u, "empty") : u \in UIDs}
    BY DEF Orders
  <2> QED
    BY <2>1, AroundIsShaped, GoodIsShaped
<1> QED
  BY <1>1, <1>2, <1>3, GoodIsShaped DEF Lines, Line

\* What StoredIsOrder asks of one order.
Usable(o) ==
    /\ o.transaction # "empty"
    /\ \A f \in {"track_number", "entry", "customer_id", "currency"} : o[f] = "given"
    /\ o.date_created = "ok" /\ o.email = "ok"
    /\ o.items # << >>
    /\ \A i \in DOMAIN o.items : /\ o.items[i].name = "given"
                                 /\ o.items[i].price \in 0 .. maxInt4
                                 /\ o.items[i].total_price \in 0 .. maxInt4
    /\ o.amount \in 0 .. maxInt4

AllUsable == \A u \in UIDs : rows[u] # None => Usable(rows[u])

\* The validator, Save's own check and the columns each do their part.
LEMMA AcceptedIsUsable ==
    ASSUME NEW o, Shaped(o), Validate(o), o.customer_id # "empty", Fits(o)
    PROVE  Usable(o)
<1>1. o.transaction # "empty" /\ o.date_created = "ok" /\ o.email = "ok"
      /\ o.items # << >>
  BY DEF Shaped, GoodFields, Validate, validateCore, validatePayment,
         validateDelivery, validateItems
<1>2. ASSUME NEW f \in {"track_number", "entry", "customer_id", "currency"}
      PROVE  o[f] = "given"
  <2>1. o[f] \in TextsOf(o) /\ o[f] \in TextKinds
    BY DEF TextsOf, Texts, Shaped, GoodFields
  <2>2. o[f] # "empty"
    BY DEF Validate, validateCore, validatePayment
  <2> QED
    BY <2>1, <2>2 DEF Fits, TextKinds
<1>3. o.amount \in 0 .. maxInt4
  <2>1. o["amount"] \in IntsOf(o) /\ o.amount >= 0 /\ o["amount"] \in Int
    BY DEF IntsOf, Ints, Validate, validatePayment, Shaped, GoodFields
  <2> QED
    BY <2>1, IntakeAssumption DEF Fits
<1>4. ASSUME NEW i \in DOMAIN o.items
      PROVE  /\ o.items[i].name = "given"
             /\ o.items[i].price \in 0 .. maxInt4
             /\ o.items[i].total_price \in 0 .. maxInt4
  <2>1. o.items[i].name \in TextsOf(o)
    BY DEF TextsOf
  <2>2. o.items[i].name \in TextKinds /\ o.items[i].name # "empty"
    BY DEF Shaped, GoodItems, Validate, validateItems
  <2>3. o.items[i]["price"] \in IntsOf(o) /\ o.items[i]["total_price"] \in IntsOf(o)
    <3>1. {o.items[i][f] : f \in ItemInts} \subseteq IntsOf(o)
      BY DEF IntsOf
    <3> QED
      BY <3>1 DEF ItemInts
  <2>4. /\ o.items[i].price >= 0 /\ o.items[i]["price"] \in Int
        /\ o.items[i].total_price >= 0 /\ o.items[i]["total_price"] \in Int
    BY DEF Shaped, GoodItems, Validate, validateItems, ItemInts
  <2>5. o.items[i].name = "given"
    BY <2>1, <2>2 DEF Fits, TextKinds
  <2> QED
    BY <2>3, <2>4, <2>5, IntakeAssumption DEF Fits
<1> QED
  BY <1>1, <1>2, <1>3, <1>4 DEF Usable

LEMMA NextUsable == Tables /\ AllUsable /\ [Next]_vars => AllUsable'
<1> SUFFICES ASSUME Tables, AllUsable, [Next]_vars PROVE AllUsable'
  OBVIOUS
<1>1. CASE Save
  <2> DEFINE o == Message.order
  <2>1. Message \in Lines /\ MessageVerdict(Message) = "valid"
    BY <1>1 DEF Save, Tables, Message
  <2>2. Shaped(o) /\ Usable(o) /\ HasFields(o)
    <3>1. o.customer_id # "empty" /\ Fits(o)
      BY <1>1 DEF Save
    <3> QED
      BY <2>1, <3>1, ValidIsShaped, AcceptedIsUsable DEF Shaped, GoodFields
  <2>3. rows' = [rows EXCEPT ![o.order_uid] = Stored(o)]
    BY <1>1 DEF Save
  <2> HIDE DEF o
  <2>4. ASSUME o.order_uid \in UIDs PROVE Usable(Stored(o))
    <3>1. CASE rows[o.order_uid] = None
      BY <2>2, <3>1 DEF Stored
    <3>2. CASE rows[o.order_uid] # None
      <4> DEFINE t == rows[o.order_uid].transaction
                 p == [o EXCEPT !.transaction = t]
      <4>1. t # "empty"
        BY <2>4, <3>2 DEF AllUsable, Usable
      <4>2. /\ p.transaction = t /\ p.date_created = o.date_created
            /\ p.email = o.email /\ p.items = o.items /\ p.amount = o.amount
            /\ \A f \in {"track_number", "entry", "customer_id", "currency"} :
                  p[f] = o[f]
        BY <2>2 DEF HasFields
      <4>3. Stored(o) = p
        BY <3>2 DEF Stored
      <4> HIDE DEF p, t
      <4> QED
        BY <2>2, <4>1, <4>2, <4>3 DEF Usable
    <3> QED
      BY <3>1, <3>2
  <2> QED
    BY <2>3, <2>4 DEF AllUsable, Tables
<1>2. CASE UNCHANGED rows
  BY <1>2 DEF AllUsable
<1>3. Save \/ UNCHANGED rows
  BY DEF Next, vars, Start, ValidateFile, ValidLine, InvalidLine, Publish, ScanFails,
         EndOfFile, Reject, SaveRefused, SaveFails, Done
<1> QED
  BY <1>1, <1>2, <1>3

-----------------------------------------------------------------------------
\* What became of the message handled last follows from its verdict and its gaps.
HandledOk == SameRules /\ RefusedInGap

\* The columns and CHECKs ask of a valid order no more than Gap says.
LEMMA GapIsTheRest ==
    ASSUME NEW o, Shaped(o), Validate(o)
    PROVE  Gap(o) <=> o.customer_id = "empty" \/ ~Fits(o)
<1>1. \A n \in IntsOf(o) : n \in Int
  BY DEF IntsOf, Shaped, GoodFields, GoodItems
<1>2. \A f \in Ints \cup {"payment_dt"} : o[f] \in Int
  BY DEF Shaped, GoodFields
<1>3. \A i \in DOMAIN o.items : o.items[i]["sale"] \in Int
  BY DEF Shaped, GoodItems, ItemInts
<1>4. /\ o.amount >= 0
      /\ \A i \in DOMAIN o.items : o.items[i].price >= 0 /\ o.items[i].total_price >= 0
  BY DEF Validate, validatePayment, validateItems
<1>5. (\A n \in IntsOf(o) : -1 - maxInt4 <= n /\ n <= maxInt4)
         <=> ~ \E n \in IntsOf(o) : n > maxInt4 \/ n < -1 - maxInt4
  BY <1>1, IntakeAssumption
<1>6. (\A f \in {"amount", "payment_dt", "delivery_cost", "goods_total",
                 "custom_fee"} : o[f] >= 0)
         <=> ~ \E f \in {"payment_dt", "delivery_cost", "goods_total", "custom_fee"} :
                  o[f] < 0
  BY <1>2, <1>4 DEF Ints
<1>7. (\A i \in DOMAIN o.items : \A f \in {"price", "sale", "total_price"} :
          o.items[i][f] >= 0)
         <=> ~ \E i \in DOMAIN o.items : o.items[i].sale < 0
  BY <1>3, <1>4
<1> QED
  BY <1>5, <1>6, <1>7, Zenon DEF Gap, Fits

LEMMA SameVerdict == ASSUME NEW l PROVE MessageVerdict(l) = ValidateOrderFromJSON(l)
BY DEF MessageVerdict, ValidateOrderFromJSON

LEMMA VerdictKinds == ASSUME NEW l PROVE MessageVerdict(l) \in {"notJSON", "invalid", "valid"}
BY DEF MessageVerdict

LEMMA NextHandledOk == Tables /\ HandledOk /\ [Next]_vars => HandledOk'
<1> SUFFICES ASSUME Tables, HandledOk, [Next]_vars PROVE HandledOk'
  OBVIOUS
<1> DEFINE v == MessageVerdict(Message)
           o == Message.order
           t == v = "valid" /\ Taken(o)
<1>1. ASSUME NEW r, topic # << >>, Handled(Message, r)
      PROVE  /\ Message \in Lines
             /\ last'.line = Message /\ last'.outcome = r /\ last'.taken = t
  BY <1>1 DEF Handled, Tables, Message
<1>2. CASE Reject
  <2>1. v \in {"notJSON", "invalid"} /\ last'.line = Message /\ last'.outcome = v
    BY <1>1, <1>2, VerdictKinds DEF Reject
  <2> QED
    BY <2>1, SameVerdict DEF HandledOk, SameRules, RefusedInGap
<1>3. ASSUME NEW r \in {"refused", "failed", "saved"}, v = "valid",
             topic # << >>, Handled(Message, r),
             r = "refused" => o.customer_id = "empty" \/ ~Fits(o) \/ Taken(o),
             r = "saved" => o.customer_id # "empty" /\ Fits(o) /\ ~Taken(o)
      PROVE  HandledOk'
  <2>1. Message \in Lines /\ last'.line = Message /\ last'.outcome = r
    BY <1>1, <1>3
  <2>t. last'.taken <=> Taken(o)
    <3>1. last'.taken = t
      BY <1>1, <1>3
    <3> QED
      BY <1>3, <3>1, Zenon
  <2>2. Gap(o) <=> o.customer_id = "empty" \/ ~Fits(o)
    BY <1>3, <2>1, ValidIsShaped, GapIsTheRest
  <2>3. ValidateOrderFromJSON(last'.line) = "valid" /\ last'.line.order = o
    BY <1>3, <2>1, SameVerdict
  <2>4. SameRules'
    BY <1>3, <2>1, <2>3 DEF SameRules
  <2> HIDE DEF o
  <2>5. RefusedInGap'
    BY <1>3, <2>1, <2>2, <2>3, <2>t DEF RefusedInGap
  <2> QED
    BY <2>4, <2>5 DEF HandledOk
<1>4. CASE SaveRefused
  BY <1>3, <1>4 DEF SaveRefused
<1>5. CASE SaveFails
  BY <1>3, <1>5 DEF SaveFails
<1>6. CASE Save
  BY <1>3, <1>6 DEF Save
<1>7. CASE UNCHANGED last
  BY <1>7 DEF HandledOk, SameRules, RefusedInGap
<1>8. Reject \/ SaveRefused \/ SaveFails \/ Save \/ UNCHANGED last
  BY DEF Next, vars, Start, ValidateFile, ValidLine, InvalidLine, Publish, ScanFails,
         EndOfFile, Done
<1> QED
  BY <1>2, <1>4, <1>5, <1>6, <1>7, <1>8

LEMMA Invariance == Spec => [](Pipe /\ Tables /\ AllUsable /\ HandledOk)
<1>1. Init => Pipe /\ Tables /\ AllUsable
  BY IntakeAssumption DEF Init, Pipe, Counts, CountsAgree, Tables, AllUsable
<1>2. Init => HandledOk
  BY DEF Init, HandledOk, SameRules, RefusedInGap
<1> QED
  BY <1>1, <1>2, NextPipe, NextTables, NextUsable, NextHandledOk, PTL DEF Spec
-----------------------------------------------------------------------------
\* The types: every line of the file is counted once, but for the one at which
\* the tool gives up, and an order is stored under its own order_uid.
THEOREM TypeCorrect == Spec => []ITypeOK
<1>1. Pipe /\ Tables => ITypeOK
  BY DEF Pipe, Counts, CountsAgree, Tables, ITypeOK
<1> QED
  BY <1>1, Invariance, PTL

\* The exit status of the tool says whether all it counted was published.
THEOREM ExitStatus == Spec => []ExitOkMeansAllSent
<1>1. Pipe => ExitOkMeansAllSent
  BY DEF Pipe, Counts, CountsAgree, ExitOkMeansAllSent
<1> QED
  BY <1>1, Invariance, PTL

\* Whoever published it, a stored order is one that the readers may count on.
THEOREM StoredOrders == Spec => []StoredIsOrder
<1>1. AllUsable => StoredIsOrder
  BY DEF AllUsable, Usable, StoredIsOrder
<1> QED
  BY <1>1, Invariance, PTL

\* README, "Producer-side": the service takes exactly what the tool takes.
THEOREM SameRulesTwice == Spec => []SameRules
<1>1. HandledOk => SameRules
  BY DEF HandledOk
<1> QED
  BY <1>1, Invariance, PTL

\* A valid order is refused only for what Gap lists, or for a transaction that
\* is another order's; the validator and the CHECKs agree on the rest.
THEOREM RefusedOrders == Spec => []RefusedInGap
<1>1. HandledOk => RefusedInGap
  BY DEF HandledOk
<1> QED
  BY <1>1, Invariance, PTL
=============================================================================
