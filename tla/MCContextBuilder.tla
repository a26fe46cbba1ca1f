--------------------------- MODULE MCContextBuilder ---------------------------
(***************************************************************************)
(* Two files with three resources, a variable and a locals block of a few  *)
(* characters per line.  The second file's resource has line numbers that  *)
(* also occur in the first; both locals are defined in the one locals      *)
(* block.  The limits range from too small for the diagnostic to enough.   *)
(***************************************************************************)
EXTENDS ContextBuilder

CONSTANTS network, service

MCFileOf  == <<network, network, service, service, service>>
MCStart   == <<1, 5, 2, 6, 10>>
MCOffsets == <<<<0, 2, 5, 6>>, <<0, 2, 4, 6, 7>>, <<0, 3, 5>>,
               <<0, 2, 6, 7>>, <<0, 1, 4, 7, 8>>>>

\* A variable, two locals of one block, a resource, and a module's output.
MCUses == {[ref |-> 1, block |-> 1, line |-> 2], [ref |-> 4, block |-> 1, line |-> 3],
           [ref |-> 2, block |-> 2, line |-> 2], [ref |-> 3, block |-> 2, line |-> 3],
           [ref |-> 5, block |-> 3, line |-> 2], [ref |-> 1, block |-> 3, line |-> 2]}

MCTarget == <<[block |-> 4, line |-> 1], [block |-> 5, line |-> 2],
              [block |-> 5, line |-> 3], [block |-> 3, line |-> 1], NoTarget>>

MCFailures ==
  {f \in [address : {1, 2, NoBlock, Foreign}, file : {network, service, NoFile},
          line : {0, 2, 7}, fixed : {1, 4}, detail : {<<0>>, <<0, 2, 5>>}] :
     f.file = NoFile => f.line = 0}

Line(n, is) == [size |-> n, changed |-> is]

HunkInFirst  == [file |-> network, first |-> 2, last |-> 3, head |-> 2, size |-> 11,
                 body |-> <<Line(2, FALSE), Line(3, TRUE), Line(1, TRUE), Line(4, FALSE)>>]
HunkInSecond == [file |-> network, first |-> 6, last |-> 6, head |-> 2, size |-> 6,
                 body |-> <<Line(1, FALSE), Line(2, TRUE), Line(2, FALSE)>>]
HunkInOther  == [file |-> service, first |-> 3, last |-> 3, head |-> 3, size |-> 4,
                 body |-> <<Line(2, TRUE)>>]

MCDiffs == {[lines |-> {}, hunks |-> <<>>],
            [lines |-> {<<network, 2>>, <<network, 3>>}, hunks |-> <<HunkInFirst>>],
            [lines |-> {<<network, 2>>, <<network, 3>>, <<network, 6>>},
             hunks |-> <<HunkInFirst, HunkInSecond>>],
            [lines |-> {<<service, 3>>, <<network, 6>>}, hunks |-> <<HunkInSecond, HunkInOther>>]}

Setting(total, resource, supporting) ==
  [diagnostic |-> 6, resource |-> resource, diff |-> 9, supporting |-> supporting,
   total |-> total, candidates |-> 2, nearby |-> 2]

MCSettings == {Setting(3, 4, 4), Setting(8, 5, 4), Setting(12, 6, 3),
               Setting(18, 4, 5), Setting(40, 10, 20)}
=============================================================================
