---------------------------- MODULE VariablePages ----------------------------
(***************************************************************************)
(* variables_request: the debugger asks the adapter for all variables of a *)
(* scope and cuts the page the front end has asked for out of the reply.   *)
(*                                                                         *)
(* A front end that knows how many variables there are asks for page after *)
(* page: "count" variables, or all that are left, from "start" on.  A page *)
(* that reaches past the end of the list makes json::at throw.             *)
(***************************************************************************)
EXTENDS Naturals, Sequences

CONSTANTS
    MaxVariables,   \* how many variables the scope has, at most
    MaxPage         \* how many variables the front end shows at a time, at most

ASSUME PageBounds == MaxVariables \in Nat /\ MaxPage \in Nat \ {0}

VARIABLES
    list,      \* the reply of the adapter to each of the requests
    page,      \* how many variables the front end asks for
    asked,     \* how many of them it has asked for so far
    shown,     \* the variables it has been given
    thrown     \* a request has ended with an exception

pageVars == <<list, page, asked, shown, thrown>>

PagingInit ==
    /\ list \in {[i \in 1 .. n |-> i] : n \in 0 .. MaxVariables}
    /\ page \in 1 .. MaxPage
    /\ asked = 0
    /\ shown = <<>>
    /\ thrown = FALSE

-----------------------------------------------------------------------------
\* Variant: count is taken for the end of the page.
EndToCount(start, count) == IF count = 0 THEN Len(list) ELSE count

\* The index behind the last of the page; a count of 0 stands for all the rest.
End(start, count) == IF count = 0 THEN Len(list) ELSE start + count

\* Both arguments may be missing, which is as if they were 0: then the reply is
\* that of the adapter.  Indices start at 0 in the code.
VariablesRequest(start, count) ==
    IF start = 0 /\ count = 0 THEN list ELSE SubSeq(list, start + 1, End(start, count))

Throws(start, count) ==
    (start # 0 \/ count # 0) /\ start < End(start, count) /\ End(start, count) > Len(list)

Ask(start, count) ==
    /\ IF Throws(start, count)
       THEN thrown' = TRUE /\ shown' = shown
       ELSE shown' = shown \o VariablesRequest(start, count) /\ thrown' = thrown
    /\ UNCHANGED <<list, page>>

Left == Len(list) - asked

\* A whole page, or the last one, which is shorter.
NextPage ==
    /\ Left > 0
    /\ LET count == IF Left < page THEN Left ELSE page IN
          Ask(asked, count) /\ asked' = asked + count

\* All that is left.
TheRest ==
    /\ Left > 0
    /\ Ask(asked, 0)
    /\ asked' = Len(list)

PagingNext == NextPage \/ TheRest

PagingSpec == PagingInit /\ [][PagingNext]_pageVars

-----------------------------------------------------------------------------
\* The pages put together are the list, without a gap or an overlap between two
\* of them, and no page within the list is refused (xdebugger_base.cpp:292-316).
PagesMakeTheList ==
    /\ ~thrown
    /\ shown = SubSeq(list, 1, asked)

=============================================================================
