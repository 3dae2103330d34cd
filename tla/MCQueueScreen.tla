---------------------------- MODULE MCQueueScreen ----------------------------
EXTENDS QueueScreen

\* A terminal that shows one row of each window, and one that shows two.
Small        == [queued |-> 1, recent |-> 1]
SmallAndTall == {Small, [queued |-> 2, recent |-> 2]}

Plan(events) == [e \in Limited |-> IF e \in events THEN 1 ELSE 0]

\* A question about a job, a bump of a queued one, a turned page and a
\* resize, a question about the backlog with a request that fails, and a slow
\* refresh on top of the first.
Sessions == {Plan({"cancel"}),
             Plan({"focus", "prioritize"}),
             Plan({"focus", "page", "resize"}),
             Plan({"cancel all", "failure"}),
             Plan({"move", "full"})}
=============================================================================
