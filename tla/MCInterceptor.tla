---------------------------- MODULE MCInterceptor ----------------------------
(* Instances of APIInterceptor. *)
EXTENDS APIInterceptor

Filter(name, same, methods, paths) ==
  [name |-> name, same |-> same, known |-> same # 9, methods |-> methods, paths |-> paths]

\* "/a" has three filters, one of another method and one of no known type, so that
\* its slice has room for a fourth; "/b" repeats one of them.
MCOverlapping ==
  <<Filter("a1", 1, {"GET"}, <<"/a">>), Filter("a2", 9, {"GET"}, <<"/a">>),
    Filter("a3", 3, {"POST"}, <<"/a">>),
    Filter("b1", 1, {"GET"}, <<"/b">>), Filter("b2", 4, {"GET"}, <<"/b">>),
    Filter("c", 5, {"GET"}, <<"/c">>)>>

MCReplaced == <<Filter("d", 6, {"GET"}, <<"/a", "/c">>)>>

\* A file that does not exist configures nothing.
MCFiles == [overlapping |-> MCOverlapping, replaced |-> MCReplaced, removed |-> << >>]
MCRaceFiles == [overlapping |-> MCOverlapping]

\* The slice is full after the filter of "/b".
MCMatching == [abc |-> {"/a", "/b", "/c"}, ac |-> {"/a", "/c"}]
=============================================================================
