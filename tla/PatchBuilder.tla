----------------------------- MODULE PatchBuilder -----------------------------
(***************************************************************************)
(* From structured edits to the texts that git serializes into a patch     *)
(* (terraform/patch_builder.py, build_patch_from_edits).  The edits are    *)
(* resolved one after the other against snapshots of the files they name;  *)
(* the first objection ends the construction.  Then the edits of each file *)
(* are checked for overlap and applied from the bottom upward.             *)
(*                                                                         *)
(* A text is a sequence of characters, a path the sequence of the parts    *)
(* that PurePosixPath makes of it.                                         *)
(***************************************************************************)
EXTENDS Integers, FiniteSets, FiniteSetsExt, SequencesExt

CONSTANTS Characters,       \* of texts
          Parts,            \* of paths
          TerraformDir,     \* the selected directory, <<>> for the root
          TerraformNames,   \* the file names with a Terraform suffix
          Inputs,           \* edit lists with the checkout they meet
          MaxEdits,         \* max_semantic_edits
          Binary            \* what is read of a file that does not decode

Text == Seq(Characters)
Path == Seq(Parts)
Edit == [file : Path, old : Text \ {<<>>}, new : Text]

\* "disk" is what reading a path gives, through a symbolic link where the path
\* is one; a path that gives nothing within the repository is not in it.
ASSUME InputsAreInputs ==
  \A input \in Inputs :
    /\ input = [edits |-> input.edits, disk |-> input.disk, links |-> input.links]
    /\ input.edits \in Seq(Edit)
    /\ DOMAIN input.disk \subseteq Path \ {<<>>}
    /\ \A p \in DOMAIN input.disk : input.disk[p] \in Text \cup {Binary}
    /\ input.links \subseteq DOMAIN input.disk

ASSUME BinaryIsNoText        == Binary \notin Text
ASSUME DirectoryIsPath       == TerraformDir \in Path
ASSUME NamesAreParts         == TerraformNames \subseteq Parts
ASSUME NamesAreNoPrefixes    == TerraformNames \cap {"a", "b"} = {}
ASSUME MaxEditsIsNatural     == MaxEdits \in Nat

VARIABLES
  edits,      \* the edits of the model
  disk,       \* what the paths of the checkout read as
  links,      \* those that are symbolic links
  pos,        \* edits resolved so far
  snapshots,  \* the text of each file an edit was resolved in
  resolved,   \* the resolved edits
  modified,   \* the text of each file after its edits
  outcome     \* "building", "built", or why not

inputs == <<edits, disk, links>>
vars == <<inputs, pos, snapshots, resolved, modified, outcome>>

UnsafeObjections == {"unsafe_path", "no_terraform_file", "symlink", "not_utf8",
                     "not_serialized"}

RepairableObjections == {"too_many", "unknown_file", "duplicate_edits",
                         "edit_target_not_found", "edit_target_ambiguous",
                         "overlapping_edits", "empty_edit"}

TypeOK == /\ [edits |-> edits, disk |-> disk, links |-> links] \in Inputs
          /\ pos \in 0..Len(edits)
          /\ DOMAIN snapshots \subseteq DOMAIN disk
          /\ Cardinality(resolved) = pos
          /\ outcome \in {"building", "built", "raised"}
                           \cup UnsafeObjections \cup RepairableObjections

Init == /\ \E input \in Inputs :
             edits = input.edits /\ disk = input.disk /\ links = input.links
        /\ pos = 0
        /\ snapshots = <<>>
        /\ resolved = {}
        /\ modified = <<>>
        /\ outcome = "building"

-------------------------------------------------------------------------------
(* Paths and targets.                                                      *)

\* The files of the layout: Terraform files right in the selected directory.
Files == {p \in DOMAIN disk : Front(p) = TerraformDir /\ Last(p) \in TerraformNames}

\* A path is meant from the root of the repository or from the directory.
FileOf(raw) == IF raw \in Files THEN raw ELSE TerraformDir \o raw

PathObjection(raw) ==
  IF raw = <<>> \/ ToSet(raw) \cap {"/", ".."} # {} THEN "unsafe_path"
  ELSE IF FileOf(raw) \in Files                         THEN "none"
  ELSE IF Last(raw) \notin TerraformNames               THEN "no_terraform_file"
  ELSE "unknown_file"

\* safe_repo_file takes leading parts "a" and "b" for the prefixes of a diff.
Stripped(path) ==
  SubSeq(path, Min({i \in 1..Len(path) : path[i] \notin {"a", "b"}}), Len(path))

SourceObjection(file) ==
  IF file \in links                             THEN "symlink"
  ELSE IF Stripped(file) \notin DOMAIN disk     THEN "raised"
  ELSE IF disk[Stripped(file)] = Binary         THEN "not_utf8"
  ELSE "none"

Occurrences(text, target) ==
  {i \in 1..(Len(text) - Len(target) + 1) : SubSeq(text, i, i + Len(target) - 1) = target}

\* The scan of _match_offsets goes on behind each match, so an occurrence that
\* overlaps the first one is not seen.
SeenAfter(text, target) ==
  LET first == Min(Occurrences(text, target))
  IN {i \in Occurrences(text, target) : i >= first + Len(target)}

\* Mutation: any occurrence will do.
TargetObjectionFirst(text, target) ==
  IF Occurrences(text, target) = {} THEN "edit_target_not_found" ELSE "none"

TargetObjection(text, target) ==
  IF Occurrences(text, target) = {}       THEN "edit_target_not_found"
  ELSE IF SeenAfter(text, target) # {}    THEN "edit_target_ambiguous"
  ELSE "none"

-------------------------------------------------------------------------------
(* Construction.                                                           *)

Refuse(objection) == /\ outcome' = objection
                     /\ UNCHANGED <<inputs, pos, snapshots, resolved, modified>>

TooMany == /\ outcome = "building" /\ pos = 0
           /\ Len(edits) > MaxEdits
           /\ Refuse("too_many")

\* The snapshot an edit of a file is resolved in: the first one taken of it.
SnapshotOf(file) == IF file \in DOMAIN snapshots THEN snapshots[file]
                                                 ELSE disk[Stripped(file)]

\* Mutation: the same edit may be given twice.
ObjectionRepeating(edit) ==
  LET file   == FileOf(edit.file)
      source == IF file \in DOMAIN snapshots THEN "none" ELSE SourceObjection(file)
  IN IF PathObjection(edit.file) # "none" THEN PathObjection(edit.file)
     ELSE IF source # "none"              THEN source
     ELSE TargetObjection(SnapshotOf(file), edit.old)

\* The first objection to an edit, in the order of the code.
Objection(edit) ==
  LET file      == FileOf(edit.file)
      duplicate == \E r \in resolved : /\ r.file = file
                                       /\ r.old = edit.old /\ r.new = edit.new
      source    == IF file \in DOMAIN snapshots THEN "none" ELSE SourceObjection(file)
  IN IF PathObjection(edit.file) # "none" THEN PathObjection(edit.file)
     ELSE IF duplicate                    THEN "duplicate_edits"
     ELSE IF source # "none"              THEN source
     ELSE TargetObjection(SnapshotOf(file), edit.old)

ResolveEdit ==
  /\ outcome = "building" /\ Len(edits) <= MaxEdits /\ pos < Len(edits)
  /\ LET edit == edits[pos + 1]
         file == FileOf(edit.file)
     IN IF Objection(edit) # "none" THEN Refuse(Objection(edit))
        ELSE /\ pos' = pos + 1
             /\ snapshots' = [f \in DOMAIN snapshots \cup {file} |-> SnapshotOf(f)]
             /\ resolved' = resolved \cup
                  {[file |-> file, old |-> edit.old, new |-> edit.new,
                    start |-> Min(Occurrences(SnapshotOf(file), edit.old))]}
             /\ UNCHANGED <<inputs, modified, outcome>>

End(r) == r.start + Len(r.old)

EditsIn(file) == {r \in resolved : r.file = file}

\* The code looks at neighbours in the order of the offsets; no target is empty,
\* so that any two edits that overlap have neighbours that do.
Overlap(file) ==
  \E r, s \in EditsIn(file) : r # s /\ r.start <= s.start /\ s.start < End(r)

Apply(r, text) == SubSeq(text, 1, r.start - 1) \o r.new \o SubSeq(text, End(r), Len(text))

Topmost(E)    == CHOOSE r \in E : \A s \in E : r.start <= s.start
Bottommost(E) == CHOOSE r \in E : \A s \in E : r.start >= s.start

\* Mutation: from the top downward, so that later offsets are stale.
AppliedDownward(file) ==
  MapThenFoldSet(Apply, snapshots[file], LAMBDA r : r, Bottommost, EditsIn(file))

\* From the bottom upward, the topmost edit last, so that the offsets above an
\* edit stay what they were.
Applied(file) ==
  MapThenFoldSet(Apply, snapshots[file], LAMBDA r : r, Topmost, EditsIn(file))

\* Git serializes the difference and the scope of the patch is validated; git may
\* be missing or fail, the patch too long or out of scope.
Combine ==
  /\ outcome = "building" /\ pos = Len(edits)
  /\ IF \E f \in DOMAIN snapshots : Overlap(f)
     THEN Refuse("overlapping_edits")
     ELSE LET texts == [f \in DOMAIN snapshots |-> Applied(f)]
          IN /\ modified' = texts
             /\ outcome' \in {IF texts = snapshots THEN "empty_edit" ELSE "built",
                              "not_serialized"}
             /\ UNCHANGED <<inputs, pos, snapshots, resolved>>

Next == TooMany \/ ResolveEdit \/ Combine

Spec == Init /\ [][Next]_vars

-------------------------------------------------------------------------------
(* Properties.                                                             *)

\* What the edits make of character i: the first one of a target becomes the
\* new text, the others go.
Piece(text, E, i) ==
  IF \E r \in E : r.start = i                  THEN (CHOOSE r \in E : r.start = i).new
  ELSE IF \E r \in E : r.start < i /\ i < End(r) THEN <<>>
  ELSE <<text[i]>>

\* A text read from its top with every edit in place: the reference for what
\* the construction does by offsets.
Replaced(text, E) ==
  LET From[i \in 1..(Len(text) + 1)] ==
        IF i > Len(text) THEN <<>> ELSE Piece(text, E, i) \o From[i + 1]
  IN From[1]

\* What is built is the checkout with all the edits in place and nothing else
\* changed, whatever their order, their lengths and how they touch; no two of
\* them claim the same character (README: "applied from the bottom upward, so
\* offsets remain stable").
BuiltAsReplaced ==
  outcome = "built" =>
    /\ Cardinality(resolved) = Len(edits)
    /\ \A r, s \in resolved : r # s /\ r.file = s.file =>
         r.start # s.start /\ (r.start < s.start => End(r) <= s.start)
    /\ \A f \in DOMAIN modified :
         /\ modified[f] = Replaced(disk[Stripped(f)], EditsIn(f))
         /\ \A r \in EditsIn(f) : r.start \in Occurrences(disk[Stripped(f)], r.old)

Resolvable(edit) == /\ PathObjection(edit.file) = "none"
                    /\ SourceObjection(FileOf(edit.file)) = "none"

Target(edit) ==
  LET start == Min(Occurrences(disk[Stripped(FileOf(edit.file))], edit.old))
  IN start..(start + Len(edit.old) - 1)

\* Edits that are what the README asks for (existing files, targets that occur
\* once, no character claimed twice) are never refused as malformed: a model
\* that follows the rules does not lose its only repair to the builder.  None
\* of another kind reaches git: no path is unsafe, and no target occurs twice
\* without overlapping itself.
OnlyCleanEditsAreBuilt ==
  /\ (/\ Len(edits) <= MaxEdits
      /\ \A i \in 1..Len(edits) :
           /\ Resolvable(edits[i])
           /\ Cardinality(Occurrences(disk[Stripped(FileOf(edits[i].file))], edits[i].old)) = 1
           /\ \A j \in 1..(i - 1) : FileOf(edits[i].file) = FileOf(edits[j].file) =>
                                      Target(edits[i]) \cap Target(edits[j]) = {})
     => outcome \in {"building", "built", "empty_edit", "not_serialized"}
  /\ outcome \in {"built", "empty_edit", "not_serialized"} =>
       /\ \A i \in 1..Len(edits) : PathObjection(edits[i].file) # "unsafe_path"
       /\ \A r \in resolved : \A i, j \in Occurrences(snapshots[r.file], r.old) :
            i < j => j < i + Len(r.old)

-------------------------------------------------------------------------------
(* A statement of the repository the code does not keep.                   *)

\* README.md: "validates those edits against existing .tf and .tf.json files in
\* the configured Terraform directory".
EditsSeeTheirOwnFile ==
  \A f \in DOMAIN snapshots : snapshots[f] = disk[f]
=============================================================================
