-------------------------------- MODULE Path --------------------------------
(***************************************************************************)
(* Paths of files (packages/std/path/path.c).  A string is the sequence of *)
(* what its slashes separate: "/a//b" is <<"", "a", "", "b">>, "../b" is   *)
(* <<"..", "b">>; what is behind a last slash is left out when it is empty.*)
(***************************************************************************)
EXTENDS SequencesExt

IsAbsolute(string) == string # <<>> /\ string[1] = ""

\* One segment: ".." takes back the one before it, unless there is none.
path_execute(stack, segment) ==
    CASE segment \in {"", "."} -> stack
      [] segment = ".." /\ stack # <<>> /\ Last(stack) # ".." -> Front(stack)
      [] OTHER -> Append(stack, segment)

\* next_segment, again and again.
path_join(path, string) ==
    [path EXCEPT !.segment_stack = FoldLeft(path_execute, @, string)]

path_new(string) ==
    path_join([is_absolute |-> IsAbsolute(string), segment_stack |-> <<>>], string)

path_string(path) ==
    (IF path.is_absolute THEN <<"">> ELSE <<>>) \o path.segment_stack

path_copy(path) == path_new(path_string(path))

\* path_join, but for an absolute string, which replaces the path.
path_resolve(path, string) ==
    path_join(IF IsAbsolute(string) THEN [is_absolute |-> TRUE, segment_stack |-> <<>>]
              ELSE path, string)
=============================================================================
