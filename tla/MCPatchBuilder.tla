---------------------------- MODULE MCPatchBuilder ----------------------------
(***************************************************************************)
(* Three families of inputs over two characters: up to three edits of one  *)
(* short file, two edits anywhere in a checkout with every kind of path,   *)
(* and a checkout whose Terraform directory is called "a".                 *)
(***************************************************************************)
EXTENDS PatchBuilder

Texts(n) == UNION {[1..k -> {"x", "y"}] : k \in 0..n}

EditsOf(files, old, new) ==
  {e \in [file : files, old : old, new : new] : e.old # e.new}

Lists(E, n) == UNION {[1..k -> E] : k \in 1..n}

\* Overlaps, cancelling edits and repeated targets.
OneFile == [edits : Lists(EditsOf({<<"main.tf">>}, Texts(2) \ {<<>>}, {<<>>, <<"y">>, <<"x", "y">>}), 2),
            disk  : [{<<"infra", "main.tf">>} -> [1..4 -> {"x", "y"}]],
            links : {{}}]

ThreeEdits == [edits : [1..3 -> EditsOf({<<"main.tf">>},
                                        {<<"x">>, <<"x", "x">>, <<"y", "x">>, <<"y", "y">>},
                                        {<<>>, <<"y", "y", "y">>})],
               disk  : [{<<"infra", "main.tf">>} -> [1..4 -> {"x", "y"}]],
            links : {{}}]

\* Files of the directory, of the root, missing, unsafe or no Terraform files.
Checkout == {(<<"infra", "main.tf">> :> <<"x", "y">>) @@ (<<"infra", "vars.tf">> :> t)
               @@ (<<"main.tf">> :> <<"y", "y">>) :
               t \in {<<"x", "x">>, Binary}}

ManyFiles == [edits : Lists(EditsOf({<<"main.tf">>, <<"infra", "main.tf">>, <<"vars.tf">>,
                                     <<"other.tf">>, <<"..", "main.tf">>, <<"notes">>},
                                    {<<"x">>, <<"y">>}, {<<>>, <<"y">>}), 2)
                      \cup [1..4 -> EditsOf({<<"main.tf">>}, {<<"x">>}, {<<>>, <<"y">>})],
              disk  : Checkout,
              links : {{}, {<<"infra", "vars.tf">>}}]

AllInputs == OneFile \cup ThreeEdits \cup ManyFiles

AllParts == {"infra", "a", "main.tf", "vars.tf", "other.tf", "..", "notes"}

Infra == <<"infra">>

\* A directory that looks like the prefix of a diff.
PrefixDir == <<"a">>
PrefixInputs == [edits : Lists(EditsOf({<<"main.tf">>}, {<<"x">>}, {<<"y">>}), 1),
                 disk  : {(<<"a", "main.tf">> :> <<"y">>) @@ (<<"main.tf">> :> <<"x">>)},
                 links : {{}}]
=============================================================================
