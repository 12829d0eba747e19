------------------------------- MODULE Intake --------------------------------
(***************************************************************************)
(* The way of an order in: the command-line tool that checks a file before *)
(* it is published (cmd/validate-orders, pkg/validate), the same rules once*)
(* more in SaveFromMessage (internal/usecase), the checks of Save          *)
(* (internal/repo/postgres) and the constraints of the tables (migrations).*)
(*                                                                         *)
(* Texts are told apart by what the rules ask of them, numbers by the      *)
(* widths of the columns and of Go's int.  Save is the step of its commit, *)
(* and the consumer of the topic is reduced to one message after another.  *)
(***************************************************************************)
EXTENDS Integers, Sequences

CONSTANTS
    UIDs,       \* order_uids
    Trans,      \* payment.transaction values
    None,       \* no order stored; no message handled
    maxInt4,    \* the largest INTEGER
    maxInt8,    \* the largest BIGINT, and Go int
    MaxLines    \* bound: lines of the file and messages of other producers

ASSUME IntakeAssumption == /\ {"empty", "nul"} \cap (UIDs \cup Trans) = {}
                           /\ maxInt4 \in Nat /\ maxInt8 \in Nat
                           /\ maxInt4 < maxInt8
                           /\ MaxLines \in Nat

VARIABLES
    tool,    \* validate-orders: off, reads a file of lines or of JSON, exited
    res,     \* JSONLResult: the lines it counted
    seen,    \* history: the lines of the file that are not blank, so far
    sent,    \* history: the lines it wrote
    topic,   \* the messages to handle
    others,  \* the messages of other producers
    rows,    \* the stored orders
    last     \* history: the latest message handled and what became of it

pipe == <<tool, res, seen, sent>>
vars == <<pipe, topic, others, rows, last>>

-----------------------------------------------------------------------------
(* Orders: nul is a text with a NUL character, text stands for every text  *)
(* without a rule, sm_id and chrt_id for every number without one.         *)

GoodItem == [name |-> "given", price |-> 0, total_price |-> 0, sale |-> 0,
             chrt_id |-> 0]

Good(u, x) == [order_uid |-> u, transaction |-> x, track_number |-> "given",
               entry |-> "given", customer_id |-> "given", currency |-> "given",
               text |-> "given", date_created |-> "ok", email |-> "ok",
               amount |-> 0, payment_dt |-> 0, delivery_cost |-> 0,
               goods_total |-> 0, custom_fee |-> 0, sm_id |-> 0,
               items |-> <<GoodItem>>]

Texts   == {"track_number", "entry", "customer_id", "currency", "text"}
Ints    == {"amount", "delivery_cost", "goods_total", "custom_fee", "sm_id"}
ItemInts == {"price", "total_price", "sale", "chrt_id"}
Numbers == {-2 - maxInt8, -2 - maxInt4, -1, 0, maxInt4, maxInt4 + 1, maxInt8 + 1}

\* An item, and an order, with at most one field that is out of the ordinary.
Items  == {[GoodItem EXCEPT !.name = s] : s \in {"empty", "nul"}}
          \cup {[GoodItem EXCEPT ![f] = n] : f \in ItemInts, n \in Numbers}
Around(g) ==
    {[g EXCEPT ![f] = s] : f \in Texts, s \in {"given", "empty", "nul"}}
    \cup {[g EXCEPT ![f] = n] : f \in Ints \cup {"payment_dt"}, n \in Numbers}
    \cup {[g EXCEPT !.date_created = "early"]}
    \cup {[g EXCEPT !.email = e] : e \in {"empty", "bad"}}
    \cup {[g EXCEPT !.items = << >>]}
    \cup {[g EXCEPT !.items = <<GoodItem, i>>] : i \in Items}
Orders == (UNION {Around(Good(u, x)) : u \in UIDs, x \in Trans})
          \cup {Good("empty", x) : x \in Trans} \cup {Good(u, "empty") : u \in UIDs}

\* What json.Decode leaves of "null": an order that nothing was filled in.
Zero == [Good("empty", "empty") EXCEPT
            !.track_number = "empty", !.entry = "empty", !.customer_id = "empty",
            !.currency = "empty", !.text = "empty", !.date_created = "early",
            !.email = "empty", !.items = << >>]

\* A line: a JSON order, one with an unknown field, one with more behind it,
\* null, no JSON, or nothing but blanks.
Line(f, o) == [form |-> f, order |-> o]
Lines == {Line("order", o) : o \in Orders}
         \cup {Line(f, Good(u, x)) : f \in {"unknown", "trailing"},
                                     u \in UIDs, x \in Trans}
         \cup {Line(f, Zero) : f \in {"null", "text", "blank"}}

\* json.Decoder: a number that Go's int does not hold is an error of its type.
IntsOf(o) == {o[f] : f \in Ints}
             \cup UNION {{o.items[i][f] : f \in ItemInts} : i \in DOMAIN o.items}
Overflows(n) == n > maxInt8 \/ n < -1 - maxInt8
Decodes(l) == /\ l.form \in {"order", "unknown", "trailing", "null"}
              /\ \A n \in IntsOf(l.order) \cup {l.order.payment_dt} : ~Overflows(n)
-----------------------------------------------------------------------------
(* The domain rules: OrderValidator.                                       *)

validateCore(o) == /\ o.order_uid # "empty"
                   /\ o.track_number # "empty"
                   /\ o.entry # "empty"
                   /\ o.date_created # "early"

validatePayment(o) == /\ o.transaction # "empty"
                      /\ o.currency # "empty"
                      /\ o.amount >= 0

validateDelivery(o) == o.email # "empty" /\ o.email # "bad"

\* Mutant: the price of an item is not looked at.
validateItems_NoPrice(items) ==
    /\ items # << >>
    /\ \A i \in DOMAIN items :
          /\ items[i].name # "empty"
          /\ items[i].total_price >= 0

\* Mutant: an order without items is taken.
validateItems_MayBeEmpty(items) ==
    \A i \in DOMAIN items :
       /\ items[i].name # "empty"
       /\ items[i].price >= 0
       /\ items[i].total_price >= 0

validateItems(items) ==
    /\ items # << >>
    /\ \A i \in DOMAIN items :
          /\ items[i].name # "empty"
          /\ items[i].price >= 0
          /\ items[i].total_price >= 0

Validate(o) == /\ validateCore(o)
               /\ validatePayment(o)
               /\ validateDelivery(o)
               /\ validateItems(o.items)

\* The tool's verdict on a line.
ValidateOrderFromJSON(l) ==
    IF ~Decodes(l) \/ l.form \in {"unknown", "trailing"} THEN "notJSON"
    ELSE IF Validate(l.order) THEN "valid" ELSE "invalid"

\* Mutant: unknown fields are let through.
MessageVerdict_Lenient(l) ==
    IF ~Decodes(l) \/ l.form = "trailing" THEN "notJSON"
    ELSE IF Validate(l.order) THEN "valid" ELSE "invalid"

\* The service's, in its own copy of the code.
MessageVerdict(l) ==
    IF ~Decodes(l) \/ l.form \in {"unknown", "trailing"} THEN "notJSON"
    ELSE IF Validate(l.order) THEN "valid" ELSE "invalid"
-----------------------------------------------------------------------------
(* The tables.                                                             *)

TextsOf(o) == {o[f] : f \in Texts}
              \cup {o.items[i].name : i \in DOMAIN o.items}

\* The columns: no NUL in a text, the width of INTEGER, and CHECK.
Fits(o) ==
    /\ "nul" \notin TextsOf(o)
    /\ \A n \in IntsOf(o) : -1 - maxInt4 <= n /\ n <= maxInt4
    /\ \A f \in {"amount", "payment_dt", "delivery_cost", "goods_total",
                 "custom_fee"} : o[f] >= 0
    /\ \A i \in DOMAIN o.items : \A f \in {"price", "sale", "total_price"} :
          o.items[i][f] >= 0

\* Another order's payment has the transaction, and this order has none yet.
Taken(o) == /\ rows[o.order_uid] = None
            /\ \E w \in UIDs \ {o.order_uid} :
                  rows[w] # None /\ rows[w].transaction = o.transaction

Stored(o) == IF rows[o.order_uid] = None THEN o
             ELSE [o EXCEPT !.transaction = rows[o.order_uid].transaction]
-----------------------------------------------------------------------------
Init == /\ tool = "off"
        /\ res = [valid |-> 0, invalid |-> 0]
        /\ seen = 0 /\ sent = 0
        /\ topic = << >>
        /\ others = 0
        /\ rows = [u \in UIDs |-> None]
        /\ last = None

\* The format a file is read in: by the flag, then by the extension; what is
\* read from standard input, without a flag, is a file of lines.
Format(flag, path) ==
    IF flag # "auto" THEN flag
    ELSE IF path \in {"x.jsonl", "stdin"} THEN "jsonl" ELSE "json"

\* TOOL: starts with -format and -in; the file may not open, the format may be
\* none of the two.
Start(flag, path) ==
    /\ tool = "off"
    /\ LET f == Format(flag, path)
       IN  \/ f \in {"json", "jsonl"} /\ tool' = f
           \/ tool' = "exit1"
    /\ UNCHANGED <<res, seen, sent, topic, others, rows, last>>

Room == seen + others < MaxLines

\* TOOL: writes an order in canonical form: next is where it goes when both
\* writes succeed; when one fails the order may have got out.
Write(l, next) ==
    LET out == Append(topic, Line("order", l.order))
    IN  \/ /\ topic' = out /\ sent' = sent + 1
           /\ res' = [res EXCEPT !.valid = @ + 1]
           /\ tool' = next
        \/ /\ \/ topic' = out /\ sent' = sent + 1
              \/ UNCHANGED <<topic, sent>>
           /\ UNCHANGED res
           /\ tool' = "exit1"

\* TOOL: the only order of a JSON file, however it is laid out.
ValidateFile(l) ==
    /\ tool = "json" /\ Room
    /\ seen' = seen + 1
    /\ IF ValidateOrderFromJSON(l) = "valid" THEN Write(l, "exit0")
       ELSE /\ res' = [res EXCEPT !.invalid = @ + 1]
            /\ tool' = "exit1"
            /\ UNCHANGED <<topic, sent>>
    /\ UNCHANGED <<others, rows, last>>

\* TOOL: a valid line is written and counted; a write error ends the tool.
ValidLine(l) ==
    /\ tool = "jsonl" /\ Room /\ ValidateOrderFromJSON(l) = "valid"
    /\ seen' = seen + 1
    /\ Write(l, tool)
    /\ UNCHANGED <<others, rows, last>>

\* Mutant: blank lines are counted too.
InvalidLine_CountsBlank(l) ==
    /\ tool = "jsonl" /\ Room
    /\ ValidateOrderFromJSON(l) # "valid"
    /\ seen' = IF l.form = "blank" THEN seen ELSE seen + 1
    /\ res' = [res EXCEPT !.invalid = @ + 1]
    /\ UNCHANGED <<tool, sent, topic, others, rows, last>>

\* TOOL: any other line is counted and dropped; a blank one is not counted.
InvalidLine(l) ==
    /\ tool = "jsonl" /\ Room /\ l.form # "blank"
    /\ ValidateOrderFromJSON(l) # "valid"
    /\ seen' = seen + 1
    /\ res' = [res EXCEPT !.invalid = @ + 1]
    /\ UNCHANGED <<tool, sent, topic, others, rows, last>>

\* Mutant: Scan's end is taken for the end of the file.
ScanFails_Unnoticed ==
    /\ tool = "jsonl" /\ Room
    /\ seen' = seen + 1
    /\ tool' = "exit0"
    /\ UNCHANGED <<res, sent, topic, others, rows, last>>

\* TOOL: a line is too long for the scanner, or cannot be read.
ScanFails ==
    /\ tool = "jsonl" /\ Room
    /\ seen' = seen + 1
    /\ tool' = "exit1"
    /\ UNCHANGED <<res, sent, topic, others, rows, last>>

\* TOOL: the file ends; lines that were dropped are no error.
EndOfFile ==
    /\ tool = "jsonl"
    /\ tool' = "exit0"
    /\ UNCHANGED <<res, seen, sent, topic, others, rows, last>>

\* PRODUCER: another one publishes what it likes.
Publish(l) ==
    /\ Room
    /\ topic' = Append(topic, l)
    /\ others' = others + 1
    /\ UNCHANGED <<pipe, rows, last>>
-----------------------------------------------------------------------------
\* The next message has outcome r.
Handled(l, r) == /\ topic' = Tail(topic)
                 /\ last' = [line |-> l, outcome |-> r,
                             taken |-> MessageVerdict(l) = "valid" /\ Taken(l.order)]
                 /\ UNCHANGED <<pipe, others>>

Message == Head(topic)

\* SERVICE: SaveFromMessage refuses the message.
Reject == /\ topic # << >>
          /\ MessageVerdict(Message) # "valid"
          /\ Handled(Message, MessageVerdict(Message))
          /\ UNCHANGED rows

\* SERVICE: Save refuses an order without customer, or PostgreSQL a value or
\* the transaction of another order; nothing of the order is stored.
SaveRefused ==
    /\ topic # << >>
    /\ MessageVerdict(Message) = "valid"
    /\ LET o == Message.order
       IN  o.customer_id = "empty" \/ ~Fits(o) \/ Taken(o)
    /\ Handled(Message, "refused")
    /\ UNCHANGED rows

\* SERVICE: Save fails for the connection or the time.
SaveFails == /\ topic # << >>
             /\ MessageVerdict(Message) = "valid"
             /\ Handled(Message, "failed")
             /\ UNCHANGED rows

\* SERVICE: the order is stored.
Save == /\ topic # << >>
        /\ MessageVerdict(Message) = "valid"
        /\ LET o == Message.order
           IN  /\ o.customer_id # "empty" /\ Fits(o) /\ ~Taken(o)
               /\ rows' = [rows EXCEPT ![o.order_uid] = Stored(o)]
        /\ Handled(Message, "saved")

\* The bound is reached and every message handled.
Done == topic = << >> /\ ~Room /\ UNCHANGED vars

Next == \/ \E flag \in {"auto", "json", "jsonl", "other"} :
              \E path \in {"x.json", "x.jsonl", "x", "stdin"} : Start(flag, path)
        \/ \E l \in Lines : \/ ValidateFile(l) \/ ValidLine(l) \/ InvalidLine(l)
                            \/ Publish(l)
        \/ ScanFails \/ EndOfFile
        \/ Reject \/ SaveRefused \/ SaveFails \/ Save \/ Done

Spec == Init /\ [][Next]_vars
-----------------------------------------------------------------------------
(* Properties.                                                             *)

\* The types; a line of the file is counted once, as valid or as invalid, but
\* for the one at which the tool gives up.
ITypeOK ==
    /\ tool \in {"off", "json", "jsonl", "exit0", "exit1"}
    /\ topic \in Seq(Lines) /\ others \in 0 .. MaxLines
    /\ \A u \in UIDs : rows[u] # None => rows[u].order_uid = u
    /\ res.valid + res.invalid + (IF tool = "exit1" THEN 1 ELSE 0) >= seen
    /\ res.valid + res.invalid <= seen

\* When the tool succeeds every line of the file was counted and every line
\* counted as valid was published; when it fails at most one more was.
ExitOkMeansAllSent ==
    /\ tool = "exit0" => res.valid + res.invalid = seen
    /\ tool # "exit1" => sent = res.valid
    /\ sent \in {res.valid, res.valid + 1}

\* README, "Producer-side": each record is validated by the same rules before
\* it is published.  The service, which has its own copy of the decoding, takes
\* exactly what the tool takes, in canonical form too.
SameRules ==
    last # None =>
       (last.outcome \in {"notJSON", "invalid"}
            <=> ValidateOrderFromJSON(last.line) # "valid")

\* What validation lets through although no table can hold it.
Gap(o) == \/ o.customer_id = "empty"
          \/ "nul" \in TextsOf(o)
          \/ \E n \in IntsOf(o) : n > maxInt4 \/ n < -1 - maxInt4
          \/ \E f \in {"payment_dt", "delivery_cost", "goods_total",
                       "custom_fee"} : o[f] < 0
          \/ \E i \in DOMAIN o.items : o.items[i].sale < 0

\* A valid order is refused for good, each time it is read again, only for
\* one of these reasons or for a transaction that is another order's; the
\* rules of the validator and the CHECKs of the tables agree on all the rest.
RefusedInGap ==
    last # None =>
       /\ last.outcome = "refused" => Gap(last.line.order) \/ last.taken
       /\ last.outcome = "saved" => ~Gap(last.line.order) /\ ~last.taken

\* Whoever published it: a stored order is one that the readers may count on,
\* with its texts, an address, items, and amounts that are not negative.
StoredIsOrder ==
    \A u \in UIDs : rows[u] # None =>
       LET o == rows[u]
       IN  /\ o.transaction # "empty"
           /\ \A f \in {"track_number", "entry", "customer_id", "currency"} :
                 o[f] = "given"
           /\ o.date_created = "ok" /\ o.email = "ok"
           /\ o.items # << >>
           /\ \A i \in DOMAIN o.items :
                 /\ o.items[i].name = "given"
                 /\ o.items[i].price \in 0 .. maxInt4
                 /\ o.items[i].total_price \in 0 .. maxInt4
           /\ o.amount \in 0 .. maxInt4
=============================================================================
