----------------------------- MODULE BracketFlow -----------------------------
(***************************************************************************)
(* The order manager working one bracket of one account: an entry, its     *)
(* protective stop, its profit targets, and the close and reduce orders    *)
(* that leave it early.  The manager is single-threaded and keeps no state *)
(* of its own: every decision is read from the ledger's fold (book) and    *)
(* every command is a program of appends and broker calls.  The program    *)
(* that runs is `call`, the broker call in progress, and `todo`, the work  *)
(* that follows.  An error drops both, and so does a crash: the ledger is  *)
(* all that is left.  The venue moves between any two steps.               *)
(***************************************************************************)
EXTENDS Allocation

CONSTANTS
    Entry, Stop, Close,  \* the order ids of the entry, its stop and its close order
    Commands,            \* the command ids callers choose
    Setups               \* the brackets, venues and callers that are considered

VARIABLES
    setup,     \* the bracket, its venue and its callers: chosen once
    book,      \* the ledger's fold: the account's orders
    seen,      \* the venue fills recorded in the ledger, by index in fills
    journal,   \* the fills enqueued for the journal, by index in fills
    requests,  \* the replace requests recorded in the ledger
    cancels,   \* the command ids of the pending cancels recorded in the ledger
    reads,     \* the command ids of the read-backs recorded in the ledger
    watched,   \* the price observations recorded in the ledger
    call,      \* the broker call the running command is in
    todo,      \* the tasks the running command still has to do
    lost,      \* an error or a crash dropped work since the last synchronize began
    venue,     \* what the venue knows of each order
    fills,     \* the venue's fills, in order
    sent,      \* how often each order was handed to the venue
    crashes    \* how often a command was cut short

ledger == <<book, seen, journal, requests, cancels, reads, watched>>
world  == <<setup, venue, fills, sent, crashes>>
vars   == <<ledger, call, todo, lost, world>>

Targets     == setup.targets      \* the order ids of the profit targets, in order
Planned     == setup.planned      \* the planned quantity of each target
Reduces     == setup.reduces      \* the order ids of the reduce orders, in order of creation
Quantity    == setup.quantity     \* the entry's planned quantity
MaxSize     == setup.most         \* bound: the largest quantity replace asks for the entry
Offered     == setup.offered      \* the commands callers use besides submit and reconcile_after
Cancellable == setup.cancellable  \* the orders callers cancel
Bars        == setup.bars         \* whether reconcile_after is called for a bar too
Journaled   == setup.journaled    \* whether the account has a journal account
NativeStops == setup.native       \* whether the venue takes stop orders itself
Answers     == setup.answers      \* the acknowledgements the venue gives a working order
Expiring    == setup.expiring     \* the orders whose time in force the venue can end
MaxCrashes  == setup.crashes      \* how often a command may be cut short

OrdersOf(s) == <<Entry, Stop>> \o s.targets \o Append(s.reduces, Close)
Closers  == Append(Reduces, Close)
Orders   == Range(OrdersOf(setup))
Children == Orders \ {Entry}

ASSUME SetupsAssumption ==
    \A s \in Setups :
        /\ s.targets \in Seq(Range(s.targets)) /\ s.reduces \in Seq(Range(s.reduces))
        /\ IsInjective(OrdersOf(s))
        /\ s.quantity \in Nat \ {0} /\ s.most \in Nat
        /\ s.planned \in Seq(Nat \ {0}) /\ Len(s.planned) = Len(s.targets)
        /\ SumFunction(s.planned) <= s.quantity
        /\ s.answers \subseteq {"ACCEPTED", "PENDING", "REJECTED"}
        /\ {s.native, s.bars, s.journaled} \subseteq BOOLEAN /\ s.crashes \in Nat
        /\ s.expiring \cup s.cancellable \subseteq Range(OrdersOf(s))

(***************************************************************************)
(* The fold.                                                               *)
(***************************************************************************)
terminal == {"FILLED", "CANCELLED", "REJECTED", "EXPIRED"}
States   == {"ABSENT", "NEW", "SUBMITTED", "ACCEPTED", "PARTIALLY_FILLED",
             "PENDING_UNKNOWN"} \cup terminal

allowed(from) ==
    CASE from = "NEW" -> {"SUBMITTED", "CANCELLED", "REJECTED"}
      [] from = "SUBMITTED" ->
           {"ACCEPTED", "PARTIALLY_FILLED", "FILLED", "REJECTED", "CANCELLED", "PENDING_UNKNOWN"}
      [] from = "ACCEPTED" ->
           {"PARTIALLY_FILLED", "FILLED", "CANCELLED", "EXPIRED", "REJECTED", "PENDING_UNKNOWN"}
      [] from = "PARTIALLY_FILLED" ->
           {"PARTIALLY_FILLED", "FILLED", "CANCELLED", "EXPIRED", "PENDING_UNKNOWN"}
      [] from = "PENDING_UNKNOWN" ->
           {"SUBMITTED", "ACCEPTED", "PARTIALLY_FILLED"} \cup terminal
      [] OTHER -> {}

Legal(from, to) == to = from \/ to \in allowed(from)

\* An order of ORDERS_CREATED.
created(q) == [state |-> "NEW", qty |-> q, filled |-> 0, vid |-> FALSE, emulation |-> "none"]
Absent     == [created(0) EXCEPT !.state = "ABSENT"]

Exists(o) == book[o].state # "ABSENT"
Filled(o) == book[o].filled
Working(S) == {o \in S : Exists(o) /\ book[o].state \notin terminal}
\* The entry's filled quantity less what its children exited.
Open == Filled(Entry) - SumFunction([o \in Children |-> Filled(o)])

\* A state event (on_order_state): the state, and the confirmed venue id.
stated(o, st)   == [book EXCEPT ![o].state = st]
answered(o, st) == [book EXCEPT ![o].state = st, ![o].vid = TRUE]

(***************************************************************************)
(* Running a command.                                                      *)
(***************************************************************************)
NoCall == [step |-> "none"]

Idle == call = NoCall /\ todo = <<>>
Do(t) == call = NoCall /\ todo # <<>> /\ Head(todo).task = t
InCall(s) == call.step = s

next(tasks) == todo' = tasks \o Tail(todo)
proceed     == call' = NoCall /\ UNCHANGED <<todo, lost>>
\* The ORDER_REFUSED event of a refusal changes no order; what is left of the command is
\* dropped.
raise       == call' = NoCall /\ todo' = <<>> /\ lost' = TRUE

task_submit(o)      == [task |-> "submit", o |-> o]
task_sync(cause)    == [task |-> "sync", cause |-> cause]
task_size(o, n, cause) == [task |-> "size", o |-> o, n |-> n, cause |-> cause]
task_cancel(o, cause, why, oco) ==
    [task |-> "cancel", o |-> o, cause |-> cause, why |-> why, oco |-> oco]
\* The elements of a sequence that are in S, in order: SelectSeq, as a recursive function.
Filter(s, S) ==
    LET kept[n \in 0..Len(s)] ==
          IF n = 0 THEN <<>>
          ELSE IF s[n] \in S THEN Append(kept[n - 1], s[n]) ELSE kept[n - 1]
    IN  kept[Len(s)]

\* _cancel_exits over the orders of a sequence, each an OCO sibling.  A terminal order stays
\* terminal, so it is left out here rather than when its turn comes.
cancel_exits(os, cause, why) ==
    LET live == Filter(os, Working(Children))
    IN  [i \in DOMAIN live |-> task_cancel(live[i], cause, why, TRUE)]

(***************************************************************************)
(* Submitting.  The intent to submit is durable before the venue is        *)
(* called: ORDER_UPDATED to SUBMITTED, then ORDER_PENDING, then the call.  *)
(***************************************************************************)
Emulated(o) == o = Stop /\ ~NativeStops

\* Mutant: an order whose submission has no answer yet is sent again.
UnsentOrUnanswered(o) == book[o].state \in {"NEW", "PENDING_UNKNOWN"}

\* Only a NEW order is sent.
Unsent(o) == book[o].state = "NEW"

\* Mutant: the venue is called before the request is recorded.
request_submitUnrecorded(o) ==
    /\ call' = [step |-> "submit", o |-> o] /\ next(<<>>) /\ UNCHANGED <<book, lost>>

request_submit(o) ==
    /\ book' = stated(o, "SUBMITTED")
    /\ call' = [step |-> "mark", o |-> o]
    /\ next(<<>>) /\ UNCHANGED lost

\* The quantity an order was created with; a close or a reduce keeps it.
planned_quantity(o) ==
    CASE o \in {Entry, Stop} -> Quantity
      [] \E i \in DOMAIN Targets : Targets[i] = o ->
           Planned[CHOOSE i \in DOMAIN Targets : Targets[i] = o]
      [] OTHER -> book[o].qty

\* Mutant: a child of any size is taken as the stored one.
storedAnySize(o) == TRUE

\* _ensure_stored: a child matches the order it was created as, up to a smaller quantity.
\* Callers submit the entry as it was created.
stored(o) == o # Entry => book[o].qty <= planned_quantity(o)

submit ==
    /\ Do("submit")
    /\ LET o == Head(todo).o
           held == ~stored(o) \/ (o # Entry /\ Filled(Entry) = 0)
           stuck == Emulated(o) /\ book[o].state = "PENDING_UNKNOWN"
       IN  \/ (held \/ stuck) /\ raise /\ UNCHANGED book
           \/ /\ ~held /\ Emulated(o) /\ book[o].state = "NEW"
              /\ book' = IF book[o].emulation = "none"
                         THEN [book EXCEPT ![o].emulation = "watching"] ELSE book
              /\ next(<<>>) /\ UNCHANGED <<call, lost>>
           \/ ~held /\ ~Emulated(o) /\ Unsent(o) /\ request_submit(o)
           \/ /\ ~held /\ ~stuck /\ ~Unsent(o)
              /\ next(<<>>) /\ UNCHANGED <<book, call, lost>>
    /\ UNCHANGED <<seen, journal, requests, cancels, reads, watched, world>>

submit_emulated ==
    /\ Do("submitEmulated")
    /\ LET o == Head(todo).o
       IN  \/ book[o].state = "PENDING_UNKNOWN" /\ raise /\ UNCHANGED book
           \/ book[o].state = "NEW" /\ request_submit(o)
           \/ /\ book[o].state \notin {"NEW", "PENDING_UNKNOWN"}
              /\ next(<<>>) /\ UNCHANGED <<book, call, lost>>
    /\ UNCHANGED <<seen, journal, requests, cancels, reads, watched, world>>

\* mark_pending of a submission.
mark_submit ==
    /\ InCall("mark")
    /\ book' = stated(call.o, "PENDING_UNKNOWN")
    /\ call' = [call EXCEPT !.step = "submit"]
    /\ UNCHANGED <<seen, journal, requests, cancels, reads, watched, todo, lost, world>>

\* External: the venue stamps every update of an order.  What it was asked and has not decided
\* ends with the order.
moved(o, v) ==
    [venue EXCEPT ![o] = [v EXCEPT !.at = @ + 1,
                                   !.asked = IF v.state \in terminal THEN {} ELSE @]]

\* External: what the venue makes of an order it is handed.
Received == [ACCEPTED |-> "ACCEPTED", PENDING |-> "SUBMITTED", REJECTED |-> "REJECTED"]

broker_submit ==
    /\ InCall("submit")
    /\ \E answer \in Answers :
        /\ call' = [step |-> "submitted", o |-> call.o, answer |-> answer]
        /\ venue' = moved(call.o, [venue[call.o] EXCEPT !.state = Received[answer],
                                                        !.qty = book[call.o].qty])
    /\ sent' = [sent EXCEPT ![call.o] = @ + 1]
    /\ UNCHANGED <<ledger, todo, lost, fills, crashes, setup>>

\* Mutant: the venue's word for pending is recorded as it stands.
RecordedRaw == [ACCEPTED |-> "ACCEPTED", PENDING |-> "PENDING", REJECTED |-> "REJECTED"]

Recorded == [ACCEPTED |-> "ACCEPTED", PENDING |-> "PENDING_UNKNOWN", REJECTED |-> "REJECTED"]

\* A protective stop the venue rejects is an error (stop_rejected).
record_submit_ack ==
    /\ InCall("submitted")
    /\ book' = answered(call.o, Recorded[call.answer])
    /\ IF call.o = Stop /\ NativeStops /\ call.answer = "REJECTED" THEN raise ELSE proceed
    /\ UNCHANGED <<seen, journal, requests, cancels, reads, watched, world>>

(***************************************************************************)
(* Replacing.  n = 0 changes only the price.  The request is durable, and  *)
(* the order pending, before the venue is called; a command that was       *)
(* requested before is not sent again.                                     *)
(***************************************************************************)
replace(o, n, cause) ==
    LET prior == {r \in requests : r.o = o /\ r.cause = cause /\ r.status # "local"}
        refused == book[o].state \in terminal \cup {"NEW", "PENDING_UNKNOWN"} \/ ~book[o].vid
    IN  \/ /\ prior # {}
           /\ IF book[o].state = "PENDING_UNKNOWN" \/ \E r \in prior : r.n # n
              THEN raise
              ELSE next(<<>>) /\ UNCHANGED <<call, lost>>
           /\ UNCHANGED <<book, requests>>
        \/ prior = {} /\ refused /\ raise /\ UNCHANGED <<book, requests>>
        \/ /\ prior = {} /\ ~refused
           /\ book' = stated(o, "PENDING_UNKNOWN")
           /\ requests' = requests \cup {[o |-> o, cause |-> cause, n |-> n, status |-> "open"]}
           /\ call' = [step |-> "replace", o |-> o, n |-> n, cause |-> cause,
                       previous |-> book[o].state]
           /\ next(<<>>) /\ UNCHANGED lost

replace_order ==
    /\ Do("replace")
    /\ LET t == Head(todo) IN replace(t.o, t.n, t.cause)
    /\ UNCHANGED <<seen, journal, cancels, reads, watched, world>>

AtVenue(o) == venue[o].state \in {"SUBMITTED", "ACCEPTED", "PARTIALLY_FILLED"}

\* External: the venue carries out a request, or keeps it to decide later.
Replaceable(o, n) == AtVenue(o) /\ (n = 0 \/ n >= venue[o].filled)
replaced(o, n) ==
    LET q == IF n = 0 THEN venue[o].qty ELSE n
    IN  moved(o, [venue[o] EXCEPT !.qty = q, !.state = IF venue[o].filled = q THEN "FILLED" ELSE @])
cancelled(o) == moved(o, [venue[o] EXCEPT !.state = "CANCELLED"])
asked(o, what, n) == [venue EXCEPT ![o].asked = @ \cup {[what |-> what, n |-> n]}]

broker_replace ==
    /\ InCall("replace")
    /\ LET o == call.o
           possible == Replaceable(o, call.n)
           ack(answer) == call' = [step |-> "replaced", answer |-> answer, o |-> o, n |-> call.n,
                                   cause |-> call.cause, previous |-> call.previous]
       IN  \/ possible /\ "ACCEPTED" \in Answers /\ ack("ACCEPTED") /\ venue' = replaced(o, call.n)
           \/ possible /\ "PENDING" \in Answers /\ ack("PENDING")
              /\ venue' = asked(o, "replace", call.n)
           \/ (~possible \/ "REJECTED" \in Answers) /\ ack("REJECTED") /\ UNCHANGED venue
    /\ UNCHANGED <<ledger, todo, lost, fills, sent, crashes, setup>>

\* The `:accepted` or `:rejected` event of the request in progress.
resolved(status) ==
    {IF r.o = call.o /\ r.cause = call.cause /\ r.status = "open"
     THEN [r EXCEPT !.status = status] ELSE r : r \in requests}

record_replace_ack ==
    /\ InCall("replaced")
    /\ LET o == call.o
           back == answered(o, call.previous)
       IN  \/ /\ call.answer = "PENDING" /\ proceed
              /\ book' = answered(o, "PENDING_UNKNOWN") /\ UNCHANGED requests
           \/ /\ call.answer = "REJECTED" /\ raise
              /\ book' = back /\ requests' = resolved("rejected")
           \/ /\ call.answer = "ACCEPTED" /\ proceed
              /\ book' = IF call.n = 0 THEN back ELSE [back EXCEPT ![o].qty = call.n]
              /\ requests' = resolved("accepted")
    /\ UNCHANGED <<seen, journal, cancels, reads, watched, world>>

has_unresolved_replace(o) == \E r \in requests : r.o = o /\ r.status = "open"

(***************************************************************************)
(* Cancelling.  An order the venue never saw is cancelled in the ledger.   *)
(* Otherwise the pending cancel is durable before the venue is called.  A  *)
(* command id recorded before is not recorded again, so it changes no      *)
(* state.  An OCO sibling that may still work is an error.                 *)
(***************************************************************************)
once(ids, id, new) == IF id \in ids THEN book ELSE new

cancel_order ==
    /\ Do("cancel")
    /\ LET t  == Head(todo)
           o  == t.o
           st == book[o].state
           id == <<t.why, t.cause, o, "pending">>
       IN  \/ /\ st \in terminal \cup {"ABSENT"} \/ (st = "PENDING_UNKNOWN" /\ ~t.oco)
              /\ next(<<>>) /\ UNCHANGED <<book, cancels, call, lost>>
           \/ /\ (st = "PENDING_UNKNOWN" /\ t.oco)
                   \/ (st \notin terminal \cup {"ABSENT", "NEW", "PENDING_UNKNOWN"} /\ ~book[o].vid)
              /\ raise /\ UNCHANGED <<book, cancels>>
           \/ /\ st = "NEW"
              /\ book' = stated(o, "CANCELLED")
              /\ next(<<>>) /\ UNCHANGED <<cancels, call, lost>>
           \/ /\ st \notin terminal \cup {"ABSENT", "NEW", "PENDING_UNKNOWN"} /\ book[o].vid
              /\ book' = once(cancels, id, stated(o, "PENDING_UNKNOWN"))
              /\ cancels' = cancels \cup {id}
              /\ call' = [step |-> "cancel", o |-> o, cause |-> t.cause, why |-> t.why, oco |-> t.oco]
              /\ next(<<>>) /\ UNCHANGED lost
    /\ UNCHANGED <<seen, journal, requests, reads, watched, world>>

\* External: the venue cancels a working order, and confirms a cancel it carried out before.
broker_cancel ==
    /\ InCall("cancel")
    /\ LET o == call.o
           ack(answer) == call' = [step |-> "cancelled", answer |-> answer, o |-> o,
                                   cause |-> call.cause, why |-> call.why, oco |-> call.oco]
       IN  \/ AtVenue(o) /\ "ACCEPTED" \in Answers /\ ack("ACCEPTED") /\ venue' = cancelled(o)
           \/ AtVenue(o) /\ "PENDING" \in Answers /\ ack("PENDING")
              /\ venue' = asked(o, "cancel", 0)
           \/ AtVenue(o) /\ "REJECTED" \in Answers /\ ack("REJECTED") /\ UNCHANGED venue
           \/ venue[o].state = "CANCELLED" /\ ack("ACCEPTED") /\ UNCHANGED venue
           \/ venue[o].state \in {"FILLED", "EXPIRED", "REJECTED"} /\ ack("REJECTED") /\ UNCHANGED venue
    /\ UNCHANGED <<ledger, todo, lost, fills, sent, crashes, setup>>

\* Mutant: a cancel the venue has not confirmed counts as done.
CancelPendingDone == "CANCELLED"

\* An unconfirmed cancel leaves the order pending.
CancelPending == "PENDING_UNKNOWN"

record_cancel_ack ==
    /\ InCall("cancelled")
    /\ LET o  == call.o
           id == <<call.why, call.cause, o, "venue-pending">>
       IN  \/ call.answer = "ACCEPTED" /\ book' = answered(o, "CANCELLED") /\ proceed
              /\ UNCHANGED cancels
           \/ call.answer = "REJECTED" /\ raise /\ UNCHANGED <<book, cancels>>
           \/ /\ call.answer = "PENDING"
              /\ book' = once(cancels, id, answered(o, CancelPending))
              /\ cancels' = cancels \cup {id}
              /\ IF call.oco THEN raise ELSE proceed
    /\ UNCHANGED <<seen, journal, requests, reads, watched, world>>

(***************************************************************************)
(* Keeping the bracket in step with its fills.                             *)
(***************************************************************************)
task_replace(o, n, cause) == [task |-> "replace", o |-> o, n |-> n, cause |-> cause]

\* The targets that are still NEW get their share of what was bought, or none.
size_targets(cause) ==
    LET budgets == target_budgets(Filled(Entry), Planned, Quantity)
        unsent  == Filter([i \in DOMAIN Targets |-> i],
                          {i \in DOMAIN Targets : book[Targets[i]].state = "NEW"})
    IN  [k \in DOMAIN unsent |->
           LET i == unsent[k]
           IN  IF budgets[i] = 0 THEN task_cancel(Targets[i], cause, "zero-budget", FALSE)
               ELSE task_size(Targets[i], budgets[i], cause)]

\* Mutant: the stop is sized to all that was bought.
sync_planBought(cause) ==
    IF Filled(Entry) > 0 /\ Open > 0
    THEN <<task_size(Stop, Filled(Entry), cause)>>
    ELSE cancel_exits(<<Stop>> \o Targets \o Closers, cause, "flat")

\* Mutant: the close and reduce orders of a flat bracket are left to work.
sync_planClosersLeft(cause) ==
    IF Filled(Entry) > 0 /\ Open > 0
    THEN <<task_size(Stop, Open, cause)>>
    ELSE cancel_exits(<<Stop>> \o Targets, cause, "flat")

sync_plan(cause) ==
    LET stopped == IF Filled(Stop) > 0
                   THEN cancel_exits(Targets \o Closers, cause, "stop-fill") ELSE <<>>
        settled == Filled(Stop) = 0 /\ book[Entry].state \in terminal
    IN  IF Filled(Entry) > 0 /\ Open > 0
        THEN <<task_size(Stop, Open, cause)>>
               \o (IF settled THEN size_targets(cause) ELSE <<>>) \o stopped
        ELSE cancel_exits(<<Stop>> \o Targets \o Closers, cause, "flat") \o stopped

synchronize_bracket ==
    /\ Do("sync")
    /\ LET cause == Head(todo).cause
           early == Filled(Entry) = 0 /\ book[Entry].state \notin terminal
       IN  \/ early /\ next(<<>>) /\ lost' = FALSE /\ UNCHANGED call
           \/ ~early /\ Open < 0 /\ raise
           \/ ~early /\ Open >= 0 /\ next(sync_plan(cause)) /\ lost' = FALSE /\ UNCHANGED call
    /\ UNCHANGED <<ledger, world>>

\* ORDER_UPDATED under `:local-size`, then the submission.
size_local(o, total, cause) ==
    LET prior == {r \in requests : r.o = o /\ r.cause = cause /\ r.status = "local"}
    IN  IF \E r \in prior : r.n # total
        THEN raise /\ UNCHANGED <<book, requests>>
        ELSE /\ book' = IF prior = {} THEN [book EXCEPT ![o].qty = total] ELSE book
             /\ requests' = requests \cup
                              {[o |-> o, cause |-> cause, n |-> total, status |-> "local"]}
             /\ next(<<task_submit(o)>>) /\ UNCHANGED <<call, lost>>

\* _ensure_child_quantity.  An EXPIRED child is not among the states that refuse.
ensure_child_quantity ==
    /\ Do("size")
    /\ LET t  == Head(todo)
           o  == t.o
           st == book[o].state
           total  == Filled(o) + t.n
           dead   == st \in {"CANCELLED", "FILLED"} \/ (st = "REJECTED" /\ o = Stop)
           ignore == st = "REJECTED" /\ o # Stop
           live   == ~dead /\ ~ignore
       IN  \/ dead /\ raise /\ UNCHANGED <<book, requests>>
           \/ /\ ignore \/ (live /\ book[o].qty = total /\ st # "NEW")
              /\ next(<<>>) /\ UNCHANGED <<book, requests, call, lost>>
           \/ /\ live /\ st = "NEW" /\ book[o].qty = total
              /\ next(<<task_submit(o)>>) /\ UNCHANGED <<book, requests, call, lost>>
           \/ live /\ st = "NEW" /\ book[o].qty # total /\ size_local(o, total, t.cause)
           \/ live /\ book[o].qty # total /\ st # "NEW" /\ replace(o, total, t.cause)
    /\ UNCHANGED <<seen, journal, cancels, reads, watched, world>>

(***************************************************************************)
(* Fills.  The fold refuses a fill beyond the order's quantity, and one    *)
(* for an order that is cancelled, expired or rejected.                    *)
(***************************************************************************)
on_fill(i) ==
    LET o == fills[i].o
        total == Filled(o) + fills[i].n
        st == IF total >= book[o].qty THEN "FILLED" ELSE "PARTIALLY_FILLED"
    IN  [book EXCEPT ![o].filled = total, ![o].state = st]

\* Mutant: a fill may exceed the order's quantity.
refuses_fillIllegal(i) == ~Legal(book[fills[i].o].state, on_fill(i)[fills[i].o].state)

\* Mutant: a fill may arrive for an order that is over.
refuses_fillExcess(i) == Filled(fills[i].o) + fills[i].n > book[fills[i].o].qty

\* oms_check_known_order and the fold.
refuses_fill(i) ==
    LET o == fills[i].o
    IN  \/ ~Exists(o)
        \/ Filled(o) + fills[i].n > book[o].qty
        \/ ~Legal(book[o].state, on_fill(i)[o].state)

\* Mutant: the bracket is not synchronized.
after_fillNothing(i) == <<>>

after_fill(i) == <<task_sync(<<"fill", i>>)>>

\* record_fill, called for a fill already recorded too when a read-back ingests it; the
\* reconcile pass skips a fill whose command id the ledger holds, and journals the others, of
\* an account that has a journal, once record_fill has returned.
record_fill ==
    /\ Do("fill")
    /\ LET i == Head(todo).i
       IN  \/ /\ i \in seen /\ Head(todo).skip
              /\ next(<<>>) /\ UNCHANGED <<book, seen, call, lost>>
           \/ /\ i \in seen /\ ~Head(todo).skip
              /\ next(after_fill(i)) /\ UNCHANGED <<book, seen, call, lost>>
           \/ i \notin seen /\ refuses_fill(i) /\ raise /\ UNCHANGED <<book, seen>>
           \/ /\ i \notin seen /\ ~refuses_fill(i)
              /\ book' = on_fill(i) /\ seen' = seen \cup {i}
              /\ next(after_fill(i) \o (IF Head(todo).skip /\ Journaled
                                        THEN <<[task |-> "journal", i |-> i]>> ELSE <<>>))
              /\ UNCHANGED <<call, lost>>
    /\ UNCHANGED <<journal, requests, cancels, reads, watched, world>>

\* One outbox row for the account's journal.
enqueue_journal_fill ==
    /\ Do("journal")
    /\ journal' = journal \cup {Head(todo).i}
    /\ next(<<>>)
    /\ UNCHANGED <<book, seen, requests, cancels, reads, watched, call, lost, world>>

(***************************************************************************)
(* Reading the venue back.                                                 *)
(***************************************************************************)
tasks_fill(is, skip) == [k \in DOMAIN is |-> [task |-> "fill", i |-> is[k], skip |-> skip]]
task_reconcile(o)    == [task |-> "reconcile", o |-> o]
Indices(S)           == Filter([i \in DOMAIN fills |-> i], S)

begin(tasks) == Idle /\ todo' = tasks /\ UNCHANGED <<call, lost, world>>

\* The venue fills at or after `since`, in order, then the orders it updated since that may
\* still move.  `since` is the index of the first fill at or after it, or MIN_TIME; the runner
\* passes the time of the bar, and MIN_TIME once its bars are done.  Only fills are timed: an
\* order without a new fill may have been updated before `since` or after it.
MIN_TIME == 0
reconcile_after(since) ==
    LET new == {i \in DOMAIN fills \ seen : i >= since}
        updated == IF since = MIN_TIME THEN Orders ELSE {fills[i].o : i \in new}
    IN  /\ Exists(Entry)
        /\ begin(Append(tasks_fill(Indices(new), TRUE), [task |-> "reread", updated |-> updated]))
        /\ UNCHANGED ledger

orders_to_read ==
    /\ Do("reread")
    /\ LET moving == {o \in Orders : /\ venue[o].state # "NONE"
                                     /\ book[o].state \notin terminal \cup {"NEW"}}
       IN  \E S \in SUBSET moving :
             /\ moving \cap Head(todo).updated \subseteq S
             /\ LET due == Filter(OrdersOf(setup), S)
                IN  next([k \in DOMAIN due |-> task_reconcile(due[k])])
    /\ UNCHANGED <<ledger, call, lost, world>>

\* The read-back: missing fills are recorded before the state it found.
reconcile_order ==
    /\ Do("reconcile")
    /\ LET o == Head(todo).o
           found == venue[o]
           missing == found.state = "NONE"
           unresolved == /\ book[o].state = "PENDING_UNKNOWN" /\ has_unresolved_replace(o)
                         /\ found.state \notin terminal
           ingest == IF found.filled > Filled(o) THEN <<[task |-> "ingest", o |-> o]>> ELSE <<>>
       IN  \/ (missing \/ unresolved) /\ raise
           \/ /\ ~missing /\ ~unresolved
              /\ next(Append(ingest, [task |-> "resolve", o |-> o, found |-> found]))
              /\ UNCHANGED <<call, lost>>
    /\ UNCHANGED <<ledger, world>>

\* A second read: every fill the venue holds for the order, the recorded ones included.
ingest_venue_fills ==
    /\ Do("ingest")
    /\ LET mine == {i \in DOMAIN fills : fills[i].o = Head(todo).o}
       IN  next(tasks_fill(Indices(mine), FALSE))
    /\ UNCHANGED <<ledger, call, lost, world>>

\* The state the read-back found, recorded once per venue timestamp.
resolve_order ==
    /\ Do("resolve")
    /\ LET o     == Head(todo).o
           found == Head(todo).found
           id    == <<o, found.at, found.state>>
           short == Filled(o) < found.filled \/ (found.state = "FILLED" /\ book[o].state # "FILLED")
           same  == found.state \in {"FILLED", "PARTIALLY_FILLED"}
           legal == id \in reads \/ Legal(book[o].state, found.state)
       IN  \/ (short \/ (~same /\ ~legal)) /\ raise /\ UNCHANGED <<book, reads>>
           \/ ~short /\ same /\ next(<<>>) /\ UNCHANGED <<book, reads, call, lost>>
           \/ /\ ~short /\ ~same /\ legal
              /\ book' = once(reads, id, answered(o, found.state))
              /\ reads' = reads \cup {id}
              /\ next(<<task_sync(<<"read", o, found.state>>)>>)
              /\ UNCHANGED <<call, lost>>
    /\ UNCHANGED <<seen, journal, requests, cancels, watched, world>>

(***************************************************************************)
(* The commands.  One that is refused before it changes anything is not a  *)
(* step.  Callers repeat a command under its id.                           *)
(***************************************************************************)
user(c) == <<"command", c>>

create_bracket ==
    /\ Idle /\ ~Exists(Entry)
    /\ book' = [o \in Orders |->
                  IF o \in {Entry, Stop} \cup Range(Targets) THEN created(planned_quantity(o))
                                                              ELSE book[o]]
    /\ UNCHANGED <<seen, journal, requests, cancels, reads, watched, call, todo, lost, world>>

submit_entry == Exists(Entry) /\ begin(<<task_submit(Entry)>>) /\ UNCHANGED ledger

\* The stop of an open position is not cancelled; an entry then synchronizes.
cancel(o, c) ==
    /\ Exists(o) /\ ~(o = Stop /\ Open > 0 /\ book[Stop].state \notin terminal)
    /\ begin(<<task_cancel(o, user(c), "user", FALSE)>>
               \o (IF o = Entry THEN <<task_sync(user(c))>> ELSE <<>>))
    /\ UNCHANGED ledger

\* _open_bracket_stop: open quantity, and a stop the venue works.
open_stop == Exists(Entry) /\ Open > 0 /\ book[Stop].state \in {"ACCEPTED", "PARTIALLY_FILLED"}

move_stop(c) ==
    /\ open_stop /\ begin(<<task_replace(Stop, 0, user(c))>>) /\ UNCHANGED ledger

\* replace called on the entry: a quantity not below what is filled.
replace_entry(n, c) ==
    /\ Exists(Entry) /\ n >= Filled(Entry) /\ n # book[Entry].qty
    /\ begin(<<task_replace(Entry, n, user(c))>>) /\ UNCHANGED ledger

\* Mutant: a close goes out beside a working reduce.
close_guardNone == TRUE

close_guard == Working(Range(Reduces)) = {}

\* One close order per bracket; a close that was created and not sent is sent again.
close_bracket ==
    /\ open_stop
    /\ \/ book[Close].state = "NEW" /\ UNCHANGED book
       \/ /\ ~Exists(Close) /\ close_guard
          /\ book' = [book EXCEPT ![Close] = created(Open)]
    /\ begin(<<task_submit(Close)>>)
    /\ UNCHANGED <<seen, journal, requests, cancels, reads, watched>>

\* The targets are cancelled, then the reduce is sent.
send_reduce(r) == cancel_exits(Targets, <<"reduce", r>>, "replaces-targets") \o <<task_submit(r)>>

\* Half of the open quantity; or the replay of a reduce command.
reduce_bracket(r) ==
    /\ \/ Exists(r) /\ UNCHANGED book
       \/ /\ ~Exists(r) /\ Reduces[Cardinality({q \in Range(Reduces) : Exists(q)}) + 1] = r
          /\ open_stop /\ Working({Close} \cup Range(Reduces)) = {}
          /\ reduce_quantity(Open, 1, 2) >= 1
          /\ book' = [book EXCEPT ![r] = created(reduce_quantity(Open, 1, 2))]
    /\ begin(send_reduce(r))
    /\ UNCHANGED <<seen, journal, requests, cancels, reads, watched>>

reconcile(o) == Exists(o) /\ begin(<<task_reconcile(o)>>) /\ UNCHANGED ledger

\* Mutant: the stop is sent before its siblings are cancelled.
routeStopFirst(c) == <<[task |-> "submitEmulated", o |-> Stop]>>
                       \o cancel_exits(Targets \o Closers, user(c), "trigger")

\* _route_emulated_trigger: the OCO siblings are cancelled before the stop is sent.
route(c) == cancel_exits(Targets \o Closers, user(c), "trigger")
              \o <<[task |-> "submitEmulated", o |-> Stop]>>

\* A price for the emulated stop: recorded before it is acted upon.
update_emulated_order(c, hit) ==
    /\ book[Stop].emulation # "none"
    /\ LET fired    == book[Stop].emulation = "triggered"
           recorded == \E x \in watched : x[1] = c
       IN  \/ /\ book[Stop].state = "NEW"
              /\ <<c, TRUE>> \in watched \/ (fired /\ ~recorded)
              /\ begin(route(c)) /\ UNCHANGED ledger
           \/ /\ ~fired /\ ~recorded
              /\ book' = [book EXCEPT ![Stop].emulation = IF hit THEN "triggered" ELSE "watching"]
              /\ watched' = watched \cup {<<c, hit>>}
              /\ begin(IF hit THEN route(c) ELSE <<>>)
              /\ UNCHANGED <<seen, journal, requests, cancels, reads>>

(***************************************************************************)
(* External: the venue, on its own.  It keeps working orders it was given, *)
(* whatever the ledger knows of them, and caps no exit at the position.    *)
(***************************************************************************)
Unknown == [state |-> "NONE", qty |-> 0, filled |-> 0, at |-> 0, asked |-> {}]
Rests(o) == venue[o].state \in {"ACCEPTED", "PARTIALLY_FILLED"}
Away == UNCHANGED <<ledger, call, todo, lost, sent, crashes, setup>>

venue_accept(o) ==
    /\ venue[o].state = "SUBMITTED"
    /\ \E st \in {"ACCEPTED", "REJECTED"} : venue' = moved(o, [venue[o] EXCEPT !.state = st])
    /\ UNCHANGED fills /\ Away

venue_fill(o) ==
    /\ Rests(o)
    /\ \E n \in 1..(venue[o].qty - venue[o].filled) :
        LET total == venue[o].filled + n
            st == IF total = venue[o].qty THEN "FILLED" ELSE "PARTIALLY_FILLED"
        IN  /\ venue' = moved(o, [venue[o] EXCEPT !.filled = total, !.state = st])
            /\ fills' = Append(fills, [o |-> o, n |-> n])
    /\ Away

venue_expire(o) ==
    /\ o \in Expiring /\ Rests(o)
    /\ venue' = moved(o, [venue[o] EXCEPT !.state = "EXPIRED"])
    /\ UNCHANGED fills /\ Away

\* A request that was answered PENDING is carried out later, or refused.
venue_decide(o) ==
    /\ \E a \in venue[o].asked :
        \/ a.what = "cancel" /\ venue' = cancelled(o)
        \/ a.what = "replace" /\ Replaceable(o, a.n)
           /\ venue' = [replaced(o, a.n) EXCEPT ![o].asked = @ \ {a}]
        \/ venue' = [venue EXCEPT ![o].asked = @ \ {a}]
    /\ UNCHANGED fills /\ Away

\* The process dies, or the broker call raises whether or not it reached the venue: either
\* way the command is gone and the ledger stays as it is.
interrupt ==
    /\ crashes < MaxCrashes /\ ~Idle /\ raise
    /\ crashes' = crashes + 1
    /\ UNCHANGED <<ledger, setup, venue, fills, sent>>

Init ==
    /\ setup \in Setups
    /\ book = [o \in Orders |-> Absent] /\ seen = {} /\ journal = {} /\ requests = {} /\ cancels = {}
    /\ reads = {} /\ watched = {}
    /\ call = NoCall /\ todo = <<>> /\ lost = FALSE
    /\ venue = [o \in Orders |-> Unknown] /\ fills = <<>> /\ sent = [o \in Orders |-> 0]
    /\ crashes = 0

step ==
    \/ submit \/ submit_emulated \/ mark_submit \/ broker_submit \/ record_submit_ack
    \/ replace_order \/ broker_replace \/ record_replace_ack
    \/ cancel_order \/ broker_cancel \/ record_cancel_ack
    \/ synchronize_bracket \/ ensure_child_quantity \/ record_fill \/ enqueue_journal_fill
    \/ orders_to_read \/ reconcile_order \/ ingest_venue_fills \/ resolve_order

command ==
    \/ create_bracket \/ submit_entry
    \/ reconcile_after(MIN_TIME)
    \/ Bars /\ \E since \in 1..(Len(fills) + 1) : reconcile_after(since)
    \/ "close" \in Offered /\ close_bracket
    \/ \E c \in Commands :
        \/ \E o \in Cancellable : cancel(o, c)
        \/ "move" \in Offered /\ move_stop(c)
        \/ "replace" \in Offered /\ \E n \in 1..MaxSize : replace_entry(n, c)
        \/ \E hit \in BOOLEAN : update_emulated_order(c, hit)
    \/ \E r \in Range(Reduces) : reduce_bracket(r)
    \/ "reconcile" \in Offered /\ \E o \in Orders : reconcile(o)

Next ==
    \/ step \/ command \/ interrupt
    \/ \E o \in Orders : venue_accept(o) \/ venue_fill(o) \/ venue_expire(o) \/ venue_decide(o)

Spec == Init /\ [][Next]_vars

(***************************************************************************)
(* The process runs a command it began, and its runner reconciles all the  *)
(* venue holds when its bars are done.  Nothing is assumed of callers or   *)
(* of the venue.                                                           *)
(***************************************************************************)
FairSpec == Spec /\ WF_vars(step) /\ WF_vars(create_bracket) /\ SF_vars(reconcile_after(MIN_TIME))

-----------------------------------------------------------------------------
(***************************************************************************)
(* Properties.                                                             *)
(***************************************************************************)
\* The ledger's orders, the venue's and the command ids are of the kinds the code uses.
TypeOK ==
    /\ book \in [Orders -> [state : States, qty : Nat, filled : Nat, vid : BOOLEAN,
                            emulation : {"none", "watching", "triggered"}]]
    /\ seen \subseteq DOMAIN fills /\ journal \subseteq seen
    /\ \A r \in requests : /\ r.o \in Orders /\ r.n \in Nat
                           /\ r.cause[1] \in {"fill", "command", "read", "reduce"}
                           /\ r.status \in {"open", "accepted", "rejected", "local"}
    /\ \A o \in Orders :
         /\ venue[o].state \in (States \ {"ABSENT", "NEW", "PENDING_UNKNOWN"}) \cup {"NONE"}
         /\ venue[o].qty \in Nat /\ venue[o].filled \in 0..venue[o].qty /\ venue[o].at \in Nat
         /\ venue[o].asked \subseteq [what : {"cancel", "replace"}, n : Nat]
    /\ fills \in Seq([o : Orders, n : Nat \ {0}])
    /\ sent \in [Orders -> Nat] /\ lost \in BOOLEAN /\ crashes \in 0..MaxCrashes

\* No order is handed to the venue twice, whatever is retried, read back or cut short
\* (submit_native: "it will not be resent").
NeverResent == \A o \in Orders : sent[o] <= 1

\* What the venue knows of, the ledger knew first, as pending; and no child reaches the
\* venue before the entry has a recorded fill (child_hold).
OnRecordFirst ==
    \A o \in Orders : venue[o].state # "NONE" =>
        /\ book[o].state \notin {"ABSENT", "NEW"}
        /\ o # Entry => Filled(Entry) > 0

\* An order's filled quantity is the sum of the venue's fills the ledger holds, each once,
\* and is within both the ledger's and the venue's idea of the order.
FillsCountOnce ==
    \A o \in Orders :
        /\ Filled(o) = SumFunction([i \in {k \in seen : fills[k].o = o} |-> fills[i].n])
        /\ Filled(o) <= book[o].qty /\ Filled(o) <= venue[o].filled

\* An order the ledger calls terminal no longer works at the venue, unless a replace of it
\* is still unresolved.
DeadIsDead ==
    \A o \in Orders : book[o].state \in terminal /\ ~has_unresolved_replace(o) => ~AtVenue(o)

\* Once a synchronize has run to its end, the stop is live and covers exactly the open
\* quantity, or the ledger holds a request for that very size which the venue has refused or
\* not decided.
Protected ==
    Idle /\ ~lost /\ Open > 0 =>
        /\ book[Stop].state \notin terminal
        /\ \/ book[Stop].qty - Filled(Stop) = Open
           \/ \E r \in requests : /\ r.o = Stop /\ r.n = Filled(Stop) + Open
                                  /\ r.status \in {"open", "rejected"}

Targeted == {i \in DOMAIN Targets : sent[Targets[i]] > 0}
TargetQuantity == SumFunction([i \in Targeted |-> book[Targets[i]].qty])

\* The targets at the venue never ask for more than the entry bought, and none for more than
\* it was created with, even when the entry was replaced by a larger one (target_weights,
\* allocate, ensure_stored).
TargetsWithinFills ==
    /\ TargetQuantity <= Filled(Entry)
    /\ \A i \in Targeted : book[Targets[i]].qty <= Planned[i]

\* A plan that keeps a runner keeps one of whatever was bought (README.md: "A partial entry
\* fill keeps the same proportions, so the runner is never absorbed into the targets").
RunnerKept ==
    SumFunction(Planned) < Quantity /\ Targeted # {} => TargetQuantity < Filled(Entry)

\* Once a synchronize has run to its end, a flat bracket has no exit left, and a stop that
\* has filled no target.
FlatIsQuiet ==
    Idle /\ ~lost /\ Filled(Entry) > 0 =>
        /\ Open = 0 => Working(Children) = {}
        /\ Filled(Stop) > 0 => Working(Range(Targets)) = {}

\* At most one close or reduce order works at a time.
OneCloser == Cardinality(Working(Range(Closers))) <= 1

\* The manager appends no state the fold refuses: an append that failed after the broker
\* call would lose the venue's answer.
TakenByTheFold ==
    \A o \in Orders : /\ book[o].state # "ABSENT" => Legal(book[o].state, book'[o].state)
                      /\ book'[o].qty >= book'[o].filled
AppendsAreLegal == [][TakenByTheFold]_vars

\* A triggered emulated stop goes out only when every other exit is terminal.
TriggeredAlone == ~NativeStops /\ sent'[Stop] # sent[Stop] => Working(Children \ {Stop}) = {}
SiblingsBeforeTrigger == [][TriggeredAlone]_vars

\* The stop of a bought position is requested (its outcome may be unknown) or watched.
StopRequested ==
    \/ book[Stop].state \in {"SUBMITTED", "PENDING_UNKNOWN", "ACCEPTED", "PARTIALLY_FILLED"}
    \/ book[Stop].emulation # "none"

\* A bought position gets its stop, or is flat, whatever callers do meanwhile; the exception
\* is work that an error or a crash dropped (record_fill and synchronize_bracket).
ProtectionUnlessCut == Open > 0 ~> (StopRequested \/ Open <= 0 \/ lost)

\* A bought position gets its stop or is flat, with no exception (oms/manager.py, record_fill:
\* "Persist a venue fill and synchronize bracket protection from folded state").
ProtectionArrives == Open > 0 ~> (StopRequested \/ Open <= 0)

\* Every recorded fill reaches the journal (_enqueue_journal_fill: "One journal execution per
\* fill").
FillsReachJournal == seen # journal ~> seen = journal

\* A read-back that is confirmed gives the order the state the venue reported
\* (reconcile_order: "Venue reconciliation confirmed").
ReadBackTakesEffect ==
    Do("sync") /\ Head(todo).cause[1] = "read" =>
        LET cause == Head(todo).cause IN book[cause[2]].state = cause[3]

\* A synchronize of an open bracket whose stop is terminal is an error (child_quantity:
\* "Protective child ... is terminal").
TerminalStopRefused == Idle /\ ~lost /\ Open > 0 => book[Stop].state \notin terminal

\* Fills come before the terminal state: no order is closed in the ledger while the venue
\* holds a fill of it that the ledger would then refuse (reconcile_order).
FillsBeforeTerminal ==
    \A i \in DOMAIN fills : i \notin seen => book[fills[i].o].state \notin terminal
=============================================================================
