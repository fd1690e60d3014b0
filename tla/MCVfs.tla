------------------------------- MODULE MCVfs -------------------------------
(* An instance of Vfs for TLC.                                             *)
EXTENDS Vfs

\* Plain paths, paths that climb, paths with a device name or a leading slash
\* as a guest writes them, which the parser does not read to their end, and a
\* character that it skips.
MCInputs ==
    { <<"a">>,
      <<"a", "/", "b">>,
      <<"b", "/", "/", "a">>,
      <<"a", "/", "..", "/", "b">>,
      <<"a", "/", "b", "/", "..", "/", ".">>,
      <<"..", "/", ".", "/", "b">>,
      <<"a", "?", "b">>,
      <<"/", "a">>,
      <<"a", ":", "/", "b", "/", "a">>,
      <<"b", ":", "..", "/", "a">> }
=============================================================================
