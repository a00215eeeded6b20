--------------------------- MODULE MCObjectStorage ---------------------------
(* The storage service with one object and two users.                       *)
EXTENDS ObjectStorage, TLC

\* No parameters, a width, a format with a height, a lone quality, a bad width.
Plain == [p \in {"width", "height", "resize", "format", "quality"} |-> "absent"]
MCQueries ==
  {Plain, [Plain EXCEPT !["width"] = "good"],
   [Plain EXCEPT !["format"] = "good", !["height"] = "good"],
   [Plain EXCEPT !["quality"] = "good"], [Plain EXCEPT !["width"] = "bad"]}

Symmetry == Permutations(Slots) \cup Permutations(Users)
=============================================================================
