----------------------------- MODULE MCServices -----------------------------
(***************************************************************************)
(* Instances for TLC of components that share no state: a behaviour        *)
(* exercises one of them, the part, and the others stay where they begin.  *)
(***************************************************************************)
EXTENDS DbWorker, Workspaces, PageLoad, HostSocket, Exchange, Interaction, TLC

CONSTANTS w1, c1, v1, k1, k2, u1, u2, h1, h2, h3, e1, e2, b1, b2, b3

VARIABLE part

servicesVars ==
  <<part, dbVars, workspaceVars, pageLoadVars, socketVars, exchangeVars, interactionVars>>

\* The worker: one window with one page.
MCWebOnly == {[win |-> w1, url |-> 1, urls |-> <<1>>, trunc |-> FALSE]}

\* Exchanges
MCShapes ==
  {(e1 :> s[1]) @@ (e2 :> s[2]) : s \in
    {<<"good", "good">>, <<"good", "silent">>, <<"chatty", "good">>, <<"huge", "silent">>,
     <<"alien", "chatty">>, <<"invalid", "good">>, <<"alien", "silent">>}}

\* Interactions: two batches meet on the page, with a result that fits; a third has results of
\* every shape, and the page to itself.
MCActions ==
  (b1 :> {<<"click", "check">>, <<"click", "click">>, <<"wait", "click">>}) @@ (b2 :> {<<"click">>})
    @@ (b3 :> {<<"check">>})
Seen(base, entries, errors, visits) ==
  [base |-> base, entries |-> entries, errors |-> errors, visits |-> visits, truncated |-> FALSE]
MCObservations ==
  (b1 :> {Seen(1, 0, 0, 1)}) @@ (b2 :> {Seen(1, 0, 0, 1)})
    @@ (b3 :> [base : {1, 3, 9}, entries : {Absent, 0, 2}, errors : 0..2, visits : {1, 3}, truncated : {FALSE}]
          \union {Seen(3, 3, 0, Absent), Seen(9, 1, 0, Absent), Seen(2, Absent, 0, Absent)})

\* The parts that are not exercised have one initial state; the window begins on the first of two
\* desktops.
ServicesInit ==
  /\ part \in {"worker", "workspaces", "page", "socket", "exchange", "interaction", "results"}
  /\ Init /\ WorkspaceInit /\ PageInit /\ SocketInit /\ ExchangeInit /\ InteractionInit
  /\ onDesktop = [w \in Panes |-> 0]
  /\ part # "workspaces" => platform = "windows"
  /\ part # "socket" => atPath = NoInode
  /\ part # "exchange" => system = "linux" /\ shape[e1] = "good" /\ shape[e2] = "silent"
  /\ part \notin {"interaction", "results"} => present
  /\ part # "interaction" => batch[b1] = <<"click", "click">>

OnWorker(A) ==
  /\ part = "worker" /\ A
  /\ UNCHANGED <<part, workspaceVars, pageLoadVars, socketVars, exchangeVars, interactionVars>>
\* Bound: the user and the requests move or refresh windows twice between them.
OnWorkspaces(A) ==
  /\ part = "workspaces" /\ A /\ called' + moved' <= 2
  /\ UNCHANGED <<part, dbVars, pageLoadVars, socketVars, exchangeVars, interactionVars>>
\* Bound: no status request reads a URL once one has been recorded.
OnPage(A) ==
  /\ part = "page" /\ A /\ (polled => poll' = <<>>)
  /\ UNCHANGED <<part, dbVars, workspaceVars, socketVars, exchangeVars, interactionVars>>
OnSocket(A) ==
  part = "socket" /\ A /\ UNCHANGED <<part, dbVars, workspaceVars, pageLoadVars, exchangeVars, interactionVars>>
OnExchange(A) ==
  part = "exchange" /\ A /\ UNCHANGED <<part, dbVars, workspaceVars, pageLoadVars, socketVars, interactionVars>>
OnInteraction(A) ==
  /\ part \in {"interaction", "results"} /\ A
  /\ IF part = "interaction" THEN UNCHANGED work[b3] ELSE UNCHANGED <<work[b1], work[b2]>>
  /\ UNCHANGED <<part, dbVars, workspaceVars, pageLoadVars, socketVars, exchangeVars>>

ServicesNext ==
  \/ OnWorker(Next) \/ OnWorkspaces(WorkspaceNext) \/ OnPage(PageNext)
  \/ OnSocket(SocketNext) \/ OnExchange(ExchangeNext) \/ OnInteraction(InteractionNext)

\* The fairness of the modules: no two parts act in one behaviour, so that actions of different
\* parts share a condition.
ServicesFairness ==
  /\ WF_servicesVars(\/ OnWorkspaces(Handle(k1)) \/ OnPage(Opening) \/ OnSocket(Starts(h1))
                     \/ OnExchange(Talks(e1)) \/ OnInteraction(Proceeds(b1)))
  /\ WF_servicesVars(\/ OnWorkspaces(Handle(k2)) \/ OnPage(HandEvent) \/ OnSocket(Starts(h2))
                     \/ OnExchange(Talks(e2)) \/ OnInteraction(Proceeds(b2)))
  /\ WF_servicesVars(\/ OnWorkspaces(Poll) \/ OnPage(ApplyHanded) \/ OnSocket(Starts(h3))
                     \/ OnExchange(Serves(e1)) \/ OnInteraction(Ages(b1) \/ Proceeds(b3)))
  /\ WF_servicesVars(OnExchange(Serves(e2)) \/ OnInteraction(Ages(b2) \/ Ages(b3)))

ServicesSpec == ServicesInit /\ [][ServicesNext]_servicesVars /\ ServicesFairness

-----------------------------------------------------------------------------

\* The types of every part.
ServicesTypeOK ==
  TypeOK /\ WorkspaceTypeOK /\ PageTypeOK /\ SocketTypeOK /\ ExchangeTypeOK /\ InteractionTypeOK

\* What has begun comes to its end: placements reach the registry, page events the record, a start
\* serves or fails, clients and silent peers are let go, and batches return.
BegunEnds ==
  PlacementFollows /\ EventsArrive /\ StartsEnd /\ ClientsReturn /\ SilentPeersEnd /\ BatchesReturn
=============================================================================
