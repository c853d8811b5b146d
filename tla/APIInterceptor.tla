--------------------------- MODULE APIInterceptor ---------------------------
(***************************************************************************)
(* proxy/apiinterceptor: requests to the control platform pass through the *)
(* filters that a configuration file lists for their paths, and a reload   *)
(* puts a router built from the file in the place of the one in use.       *)
(* Requests run concurrently, each with the router it began with.  Of two  *)
(* requests of one path template, each extends the template's slice of     *)
(* filters by those of the other templates that match; append writes into  *)
(* the array they share as long as it has room.                            *)
(*                                                                         *)
(* A filter is a record: its name, same (what containsFilter compares:     *)
(* type, endpoint and secret), known (its type is), its methods, and its   *)
(* path templates.  A concurrent write of an element is taken to be seen   *)
(* whole or not at all.                                                    *)
(***************************************************************************)
EXTENDS Naturals, Sequences, Functions

CONSTANTS
  Files,        \* [content of the configuration file -> its sequence of filters]; a file
                \* that does not exist is a content with no filters
  Invalid,      \* a content that cannot be read or decoded
  Matching,     \* [URL -> the path templates that match it]
  HTTPMethods,
  Clients,      \* goroutines, each with one request
  Reloads,      \* goroutines, each with a request to reload
  MaxBuilt      \* bound: routers built

ASSUME InterceptorAssumption ==
  /\ Invalid \notin DOMAIN Files /\ DOMAIN Files # {} /\ MaxBuilt \in Nat \ {0}
  /\ \A content \in DOMAIN Files :
       /\ Files[content] \in Seq(Range(Files[content]))
       /\ \A f \in Range(Files[content]) : f.paths \in Seq(Range(f.paths))

Templates == UNION {Matching[u] : u \in DOMAIN Matching}

VARIABLES
  disk,         \* content of the configuration file
  built,        \* the routers built, as the contents they were built from
  router,       \* h.interceptorRouter, as an index of built
  spare,        \* [router -> [template -> elements beyond the length of its slice]]
  client        \* [client -> its request]

interceptorVars == <<disk, built, router, spare, client>>

\* A request: its router, path template and method; the filters it may still
\* append; its slice, which is a copy of its own or else extends the shared one by
\* so many elements; the filters that it ran.
NewRequest ==
  [at |-> "new", gen |-> 0, path |-> "", method |-> "", url |-> "",
   others |-> << >>, copy |-> << >>, extra |-> 0, next |-> 1, ran |-> << >>]

Answered == [NewRequest EXCEPT !.at = "answered"]

InterceptorInit ==
  /\ disk \in DOMAIN Files
  /\ built = <<disk>> /\ router = 1
  /\ spare = [g \in 1..MaxBuilt |-> [p \in Templates |-> << >>]]
  /\ client = [c \in Clients \cup Reloads |-> NewRequest]

-----------------------------------------------------------------------------
(* Loops over slices *)

\* The slice that a loop over the first n elements of s has appended to nil when
\* it takes those whose indices are in I.
Kept(s, I, n) ==
  LET kept[i \in 0..Len(s)] ==
        IF i = 0 THEN << >> ELSE IF i \in I THEN Append(kept[i - 1], s[i]) ELSE kept[i - 1]
  IN  kept[n]

Those(s, I) == Kept(s, I, Len(s))

\* What a nested loop goes through.
Flat(ss) ==
  LET flat[i \in 0..Len(ss)] == IF i = 0 THEN << >> ELSE flat[i - 1] \o ss[i] IN flat[Len(ss)]

-----------------------------------------------------------------------------
(* A router *)

\* The filters of the file, each once for every path it lists.
FilterPaths(g) ==
  LET fs == Files[built[g]] IN
  Flat([i \in 1..Len(fs) |->
          [j \in 1..Len(fs[i].paths) |-> [path |-> fs[i].paths[j], filter |-> fs[i]]]])

\* pathPreFilters[p]
PreFilters(g, p) ==
  LET es == FilterPaths(g)
      own == Those(es, {i \in 1..Len(es) : es[i].path = p})
  IN  [i \in 1..Len(own) |-> own[i].filter]

\* The path templates of the routes that match, without repetition: the first is
\* the one that gorilla/mux chooses, the others are otherPathsMatched.
Matched(g, u, m) ==
  LET es == FilterPaths(g)
      all == Those(es, {i \in 1..Len(es) : m \in es[i].filter.methods /\ es[i].path \in Matching[u]})
      first == Those(all, {i \in 1..Len(all) : \A j \in 1..i - 1 : all[j].path # all[i].path})
  IN  [i \in 1..Len(first) |-> first[i].path]

\* The capacity of a slice of n elements that was made by appending to nil.
Cap(n) == CHOOSE c \in {1, 2, 4} : c >= n /\ \A d \in {1, 2, 4} : d >= n => c <= d

Own(c) == PreFilters(client[c].gen, client[c].path)

\* The elements of preFilters, as they are now.
Elements(c) ==
  LET q == client[c] IN
  IF q.copy # << >> THEN q.copy ELSE Own(c) \o SubSeq(spare[q.gen][q.path], 1, q.extra)

-----------------------------------------------------------------------------
(* intercept *)

\* getRouter and the route; without one the platform answers, or the router with
\* 405 when some route has the path.  A body that is no JSON is answered 400.
Dispatch(c) ==
  /\ client[c].at = "new"
  /\ \/ client' = [client EXCEPT ![c] = Answered]
     \/ \E u \in DOMAIN Matching, m \in HTTPMethods :
          LET ps == Matched(router, u, m) IN
          /\ ps # << >>
          /\ client' = [client EXCEPT ![c] =
               [@ EXCEPT !.at = "merge", !.gen = router, !.url = u, !.method = m, !.path = ps[1],
                         !.others = Flat([i \in 1..Len(ps) - 1 |-> PreFilters(router, ps[i + 1])])]]
  /\ UNCHANGED <<disk, built, router, spare>>

\* containsFilter, and append: in place while the shared array has room.
MergeFilter(c) ==
  /\ client[c].at = "merge" /\ client[c].others # << >>
  /\ LET q == client[c]
         f == Head(q.others)
         rest == [q EXCEPT !.others = Tail(@)]
     IN IF \E e \in Range(Elements(c)) : e.same = f.same
        THEN client' = [client EXCEPT ![c] = rest] /\ UNCHANGED spare
        ELSE IF q.copy = << >> /\ Len(Elements(c)) < Cap(Len(Own(c)))
        THEN /\ spare' = [spare EXCEPT ![q.gen][q.path] =
                            SubSeq(@, 1, q.extra) \o <<f>> \o SubSeq(@, q.extra + 2, Len(@))]
             /\ client' = [client EXCEPT ![c] = [rest EXCEPT !.extra = @ + 1]]
        ELSE /\ client' = [client EXCEPT ![c] = [rest EXCEPT !.copy = Append(Elements(c), f)]]
             /\ UNCHANGED spare
  /\ UNCHANGED <<disk, built, router>>

\* Fault: a filter that fails is passed over.
AfterFilter_SkipsErrors(q, f) ==
  {[q EXCEPT !.next = @ + 1, !.ran = Append(@, f)], [q EXCEPT !.next = @ + 1]}

\* ProcessFilter lets the request pass, or fails or refuses and is the answer.
AfterFilter(q, f) == {[q EXCEPT !.next = @ + 1, !.ran = Append(@, f)], Answered}

\* The next filter of the loop, if it is for the method and of a known type.
\* After the last the request goes to its destination.
RunFilter(c) ==
  /\ client[c].at = "merge" /\ client[c].others = << >>
  /\ LET q == client[c] IN
     IF q.next > Len(Elements(c)) THEN client' = [client EXCEPT ![c].at = "forwarded"]
     ELSE LET f == Elements(c)[q.next] IN
          IF q.method \in f.methods /\ f.known
          THEN \E after \in AfterFilter(q, f) : client' = [client EXCEPT ![c] = after]
          ELSE client' = [client EXCEPT ![c].next = @ + 1]
  /\ UNCHANGED <<disk, built, router, spare>>

-----------------------------------------------------------------------------
(* reload *)

\* buildRouter: a file that cannot be read or decoded changes nothing, one that
\* does not exist is an empty configuration.
Reload(c) ==
  /\ client[c].at = "new"
  /\ \/ /\ disk = Invalid
        /\ client' = [client EXCEPT ![c] = Answered]
        /\ UNCHANGED built
     \/ /\ disk # Invalid /\ Len(built) < MaxBuilt
        /\ built' = Append(built, disk)
        /\ client' = [client EXCEPT ![c].at = "set", ![c].gen = Len(built')]
  /\ UNCHANGED <<disk, router, spare>>

setRouter(c) ==
  /\ client[c].at = "set"
  /\ router' = client[c].gen
  /\ client' = [client EXCEPT ![c] = Answered]
  /\ UNCHANGED <<disk, built, spare>>

\* The control plane writes the file, or removes it: any other content.
WriteFile ==
  /\ disk' \in (DOMAIN Files \cup {Invalid}) \ {disk}
  /\ UNCHANGED <<built, router, spare, client>>

InterceptorNext ==
  \/ \E c \in Clients : Dispatch(c) \/ MergeFilter(c) \/ RunFilter(c)
  \/ \E c \in Reloads : Reload(c) \/ setRouter(c)
  \/ WriteFile

InterceptorSpec == InterceptorInit /\ [][InterceptorNext]_interceptorVars

-----------------------------------------------------------------------------
\* The indices of the filters of fs that are for the method.
For(fs, m) == {i \in 1..Len(fs) : m \in fs[i].methods /\ fs[i].known}

\* A request that is forwarded has passed every filter that the configuration it
\* began with lists for its path template and method, first and in their order,
\* and no filter of another configuration: whatever is reloaded meanwhile and
\* whatever other requests append to the slice they share.
OwnFiltersRun ==
  \A c \in Clients : LET q == client[c] IN
    q.at = "forwarded" =>
      /\ LET own == Those(Own(c), For(Own(c), q.method)) IN
         Len(own) <= Len(q.ran) /\ own = SubSeq(q.ran, 1, Len(own))
      /\ Range(q.ran) \subseteq Range(Files[built[q.gen]])

\* It has also passed the filters of the other path templates that match, each
\* or a duplicate of it (interceptor.go:126, "append if not duplicate").
MatchedFiltersRun ==
  \A c \in Clients : LET q == client[c] IN
    q.at = "forwarded" =>
      \A p \in Range(Matched(q.gen, q.url, q.method)) :
        LET fs == PreFilters(q.gen, p) IN
        \A i \in For(fs, q.method) : \E e \in Range(q.ran) : e.same = fs[i].same
=============================================================================
