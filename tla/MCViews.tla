------------------------------- MODULE MCViews -------------------------------
EXTENDS Settled

Text == [kind |-> "text"]
Then(e, hoists, k) == [kind |-> "then", event |-> e, hoists |-> hoists, kid |-> k]
Suspense(wait, f, k) == [kind |-> "suspense", wait |-> wait, fallback |-> f, kid |-> k]
Join(ks) == [kind |-> "join", kids |-> ks]
Loop(ks) == [kind |-> "loop", kids |-> ks]
Boundary(handles, f, k) == [kind |-> "boundary", handles |-> handles, fallback |-> f, kid |-> k]
Live(steps) == [kind |-> "live", steps |-> steps]
Hoisting(k) == [kind |-> "hoist", kid |-> k]
Emission(k) == [op |-> "emit", kid |-> k, caught |-> FALSE, event |-> Yield]
Attempt(k) == [op |-> "emit", kid |-> k, caught |-> TRUE, event |-> Yield]
Wait4(e) == [op |-> "await", kid |-> 1, caught |-> FALSE, event |-> e]
Again == [op |-> "repeat", kid |-> 1, caught |-> FALSE, event |-> Yield]

\* Two late components beside a region that emits for ever.
Busy == <<Hoisting(2), Loop(<<3, 4, 8>>), Live(<<Emission(12), Again>>),
          Suspense(FALSE, 5, 6), Text, Then("a", TRUE, 7), Text,
          Suspense(TRUE, 9, 10), Text, Then("b", FALSE, 11), Text, Text>>

\* A boundary around a component that comes late and then streams, beside a
\* region whose fallback streams too.
Guarded == <<Hoisting(2), Join(<<3, 12>>), Boundary({"error"}, 4, 5), Text,
             Suspense(FALSE, 6, 7), Text, Then("a", TRUE, 8),
             Live(<<Emission(9), Wait4("b"), Emission(10)>>), Text, Then("c", FALSE, 11), Text,
             Suspense(FALSE, 13, 16), Live(<<Emission(14), Wait4("b"), Emission(15)>>), Text, Text,
             Then("c", FALSE, 17), Text>>

\* A region whose first emission fails or streams before it is replaced.
Emitting == <<Hoisting(2), Live(<<Attempt(3), Wait4("b"), Emission(9)>>),
              Join(<<4, 7>>), Suspense(FALSE, 5, 6), Text, Then("a", TRUE, 8),
              Then("c", FALSE, 10), Text, Suspense(FALSE, 11, 12), Text, Text, Then(Yield, FALSE, 13), Text>>

\* A boundary in a boundary, with a page below a layout between them.
Nested == <<Hoisting(2), Boundary({"error", "redirect"}, 3, 4), Text,
            Hoisting(5), Boundary({"error", "redirect"}, 6, 9), Suspense(FALSE, 7, 8), Text, Then("c", FALSE, 13),
            Loop(<<10, 12>>), Then("a", TRUE, 11), Text, Live(<<Emission(14), Wait4("b"), Emission(15)>>),
            Text, Text, Text>>

\* Three components that come late, in any order.
Three == <<Hoisting(2), Join(<<3, 6, 9>>), Suspense(FALSE, 4, 5), Text, Then("a", TRUE, 12),
           Suspense(FALSE, 7, 8), Text, Then("b", TRUE, 13),
           Suspense(FALSE, 10, 11), Text, Then("c", TRUE, 14), Text, Text, Text>>

Pages == {Three, Busy, Guarded, Emitting, Nested}

\* A component that declares its signal after an await, beside a live region.
LatePart == <<Hoisting(2), Join(<<3, 8>>), Suspense(FALSE, 4, 5), Text,
              Then("a", FALSE, 6), Then("b", TRUE, 7), Text,
              Live(<<Emission(9), Wait4("a"), Emission(10), Wait4("c"), Emission(11)>>), Text, Text, Text>>
LateParts == {LatePart}

\* A layout that emits its slot: a page whose component yields once.
Slot == <<Hoisting(2), Live(<<Emission(3), Wait4("a"), Emission(8)>>), Hoisting(4),
          Suspense(FALSE, 5, 6), Text, Then(Yield, FALSE, 7), Then("a", TRUE, 9), Text, Text>>
SlotNow == <<Hoisting(2), Live(<<Emission(3), Wait4("a"), Emission(8)>>), Hoisting(4),
          Suspense(FALSE, 5, 6), Text, Then(Yield, FALSE, 7), Then(Yield, TRUE, 9), Text, Text>>
Slots == {Slot, SlotNow}
=============================================================================
