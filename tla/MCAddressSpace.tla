--------------------------- MODULE MCAddressSpace ---------------------------
(* Instances of AddressSpace for TLC: a space of 16 pages.                 *)
EXTENDS AddressSpace

Segment(first, last, protection) ==
    [kind |-> "segment", start |-> first, end |-> last, protection |-> protection]

Text == {"r", "x"}
Data == {"r", "w"}

\* Segments apart, touching, listed from the top down, and one high enough
\* for the space to run out.
MCLayouts ==
    { << Segment(8, 8, Text) >>,
      << Segment(13, 14, Text) >>,
      << Segment(3, 4, Text), Segment(9, 9, Data) >>,
      << Segment(6, 7, Text), Segment(8, 8, Data) >>,
      << Segment(9, 9, Data), Segment(1, 2, Text) >>,
      << Segment(2, 2, Text), Segment(5, 5, Data), Segment(12, 13, Data) >> }

\* Requests below half of the space less the pages the scan sets aside.
SmallRequests == 0 .. 4

\* One request whose signed gap test wraps.
AnyRequests == {0, 6, 12}
=============================================================================
