--------------------------- MODULE MCBracketFlow ---------------------------
(***************************************************************************)
(* Small brackets for TLC.                                                 *)
(***************************************************************************)
EXTENDS BracketFlow

\* Two shares, a target of one and a runner, at a venue that takes stops and accepts.
Plain ==
    [targets |-> <<"target1">>, planned |-> <<1>>, reduces |-> <<>>, quantity |-> 2, most |-> 0,
     offered |-> {}, cancellable |-> {}, native |-> TRUE, answers |-> {"ACCEPTED"},
     expiring |-> {}, bars |-> FALSE, journaled |-> FALSE, crashes |-> 0]
Bare(q) == [Plain EXCEPT !.targets = <<>>, !.planned = <<>>, !.quantity = q]

\* A command cut short anywhere; with two shares and no target, also a journal and passes
\* that read only what a bar changed.
CrashSetups ==
    {[Plain EXCEPT !.cancellable = {"entry"}, !.expiring = {"entry"}, !.crashes = 1],
     [Bare(2) EXCEPT !.bars = TRUE, !.journaled = TRUE, !.crashes = 1]}

\* Answers that leave an order undecided, or refuse it; with one share, a crash as well.
Undecided == [Bare(2) EXCEPT !.offered = {"move"}, !.answers = {"ACCEPTED", "PENDING", "REJECTED"}]
AnswerSetups ==
    {Undecided,
     [Undecided EXCEPT !.quantity = 1, !.cancellable = {"entry"}, !.crashes = 1]}

\* Targets, stop, close and reduces racing to leave the position, and an entry replaced by a
\* larger one.
ExitSetups ==
    {[Plain EXCEPT !.offered = {"replace"}, !.most = 3],
     [Plain EXCEPT !.quantity = 1, !.offered = {"close"}, !.expiring = {"close"},
                   !.cancellable = {"entry"}],
     [Plain EXCEPT !.reduces = <<"reduce1">>, !.expiring = {"reduce1"}],
     [Bare(2) EXCEPT !.reduces = <<"reduce1">>, !.offered = {"close"}, !.expiring = {"close"}],
     [Bare(2) EXCEPT !.reduces = <<"reduce1", "reduce2">>, !.expiring = {"reduce1"}]}

\* A venue without stops; a partial entry of three leaves the target no budget.
EmulatedSetups ==
    {[Plain EXCEPT !.native = FALSE, !.offered = {"reconcile"}, !.crashes = 1],
     [Plain EXCEPT !.native = FALSE, !.quantity = 1, !.offered = {"reconcile"},
                   !.cancellable = {"entry"}, !.crashes = 1],
     [Plain EXCEPT !.native = FALSE, !.quantity = 3, !.cancellable = {"entry"}]}

RaceSetups == AnswerSetups \cup ExitSetups \cup EmulatedSetups

\* The smallest brackets that show a disagreement with the documentation.
StrandedSetups ==
    {[Bare(1) EXCEPT !.crashes = 1],
     [Bare(1) EXCEPT !.offered = {"replace"}, !.most = 2],
     Bare(2)}
ReadBackSetups == {[Bare(1) EXCEPT !.cancellable = {"entry"}, !.crashes = 1]}
ExpiredSetups  == {[Bare(1) EXCEPT !.expiring = {"stop"}]}
LateFillSetups == {[Bare(2) EXCEPT !.cancellable = {"entry"}]}
RunnerSetups   == {[Plain EXCEPT !.cancellable = {"entry"}]}
JournalSetups  == {[Bare(1) EXCEPT !.journaled = TRUE, !.crashes = 1]}
=============================================================================
