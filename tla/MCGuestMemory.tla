--------------------------- MODULE MCGuestMemory ---------------------------
(* An instance of GuestMemory for TLC: 16 pages of 4 bytes.                *)
EXTENDS GuestMemory

Segment(first, last, protection, bytes) ==
    [ map   |-> [ kind |-> "segment", start |-> first, end |-> last,
                  protection |-> protection ],
      bytes |-> bytes ]

\* Text with no zero byte in it, data that touches it, and data far below,
\* loaded last.
MCImage ==
    << Segment(6, 6, {"r", "x"}, <<1, 2, 3, 4>>),
       Segment(7, 7, {"r", "w"}, <<5, 6>>),
       Segment(2, 2, {"r", "w"}, <<7>>) >>

\* In data, at the page a block of one page gets, across text and data, at the
\* end of data, and where a block behind it begins.
MCAddresses == {9, 17, 25, 28, 31, 36}

\* Nothing, some of a segment, all of one, and ranges that wrap.
MCLengths == {0, 1, 2, 30, 60}
=============================================================================
