---------------------------- MODULE MCRetrieval ----------------------------
(* Instances of Retrieval for TLC.                                         *)
EXTENDS Retrieval, TLC

CONSTANTS grab, main

(* Three majors, of which the second has three versions, and the newest of *)
(* these has three numbers.                                                 *)
ChromiumTags == {<<80, 0, 3, 1>>, <<79, 0, 2>>, <<79, 0, 2, 9>>, <<79, 0, 1, 4>>, <<66, 0, 5, 1>>}

(* The last is a word, with the same revision as the first.                *)
V8Tags == {<<8, 0, 1>>, <<7, 9, 4>>, <<7, 9, 4, 1>>, <<0>>}

Revisions == <<8, 0, 1>> :> 1 @@ <<7, 9, 4>> :> 2 @@ <<7, 9, 4, 1>> :> 3 @@ <<0>> :> 1

Pins == [c \in ChromiumTags |-> IF c = <<79, 0, 2>> THEN 2 ELSE IF c = <<79, 0, 2, 9>> THEN 3 ELSE 1]

(* Chromium 80 and the tags of its V8 appear while the tools run.          *)
Appears == [t \in ChromiumTags \cup V8Tags |-> IF t \in {<<80, 0, 3, 1>>, <<8, 0, 1>>, <<0>>} THEN 1 ELSE 0]

TTLs == [p \in Proc |-> IF p = grab THEN 1 ELSE 0]

Texts == [t \in ChromiumTags \cup V8Tags |-> IF t[1] = 79 THEN 79 ELSE t[1]]

Main == [chromium |-> <<>>, v8 |-> <<>>, latest |-> FALSE, pdl |-> <<>>]

(* grab.go alone; with main.go; main.go with a file that grab.go writes;    *)
(* main.go alone, also on a version whose V8 appears later and may be a word. *)
Lines == {
  grab :> [majors |-> 3, minors |-> 2],
  grab :> [majors |-> 2, minors |-> 1],
  grab :> [majors |-> 2, minors |-> 2] @@ main :> [Main EXCEPT !.chromium = <<79, 0, 2>>, !.v8 = <<7, 9, 4>>],
  main :> Main,
  main :> [Main EXCEPT !.latest = TRUE],
  grab :> [majors |-> 1, minors |-> 2] @@ main :> [Main EXCEPT !.chromium = <<79, 0, 2>>, !.v8 = <<7, 9, 4>>,
                                                      !.pdl = <<<<79, 0, 2>>, <<7, 9, 4>>>>],
  main :> [Main EXCEPT !.chromium = <<79, 0, 1, 4>>] }

(* The newest major has a version, and so all the files it may have.        *)
MajorLines == {grab :> [majors |-> 2, minors |-> 1]}

=============================================================================
