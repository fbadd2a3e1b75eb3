--------------------------------- MODULE Sync ---------------------------------
(***************************************************************************)
(* Exchanging presets with other computers (src/sync.cc, server.cc,        *)
(* client.cc).  While the Sync window is open a server thread takes one    *)
(* connection after the other: it reads the client's presets, writes them  *)
(* to its own directory and answers with those it had when the connection  *)
(* was accepted.  Closing the window closes the listening socket and joins *)
(* the thread.  A client sends what it has, and writes what comes back.    *)
(*                                                                         *)
(* A preset is abstracted to its name and the computer whose version it    *)
(* is.  TCP is external: a connection is two streams of pieces.  A message *)
(* is a body and the terminator "}}}", which may arrive apart, or, when    *)
(* there is nothing to send, the single piece "{}}".  A send to a peer     *)
(* that has closed succeeds until the reset it provokes has come back.     *)
(* SIGPIPE is taken to be ignored, as GLib's sockets arrange.              *)
(***************************************************************************)
EXTENDS Integers, SequencesExt, PresetNames

CONSTANTS Clients, \* the computers that may sync with this one
          Host,    \* the computer with the server
          None     \* there is no preset of that name

ASSUME SyncAssumption == Host \notin Clients /\ None \notin Clients \cup {Host}

VARIABLES has,       \* per computer and name, whose version it has
          conn,      \* the state of each client's connection
          toServer,  \* what a client has sent and the server has not read
          toClient,  \* what the server has sent and the client has not read
          client,    \* where each client is
          request,   \* what each client has sent
          response,  \* what each client has been sent
          listening, \* the listening socket
          waiting,   \* connections it has and nobody has accepted
          serverAt,  \* where the server thread is
          serving,   \* whose connection it handles
          asked,     \* what its last get_request returned
          toSend,    \* what it answers
          left,      \* per computer, the names still to be written
          window     \* where the GTK thread of the host is

\* history
VARIABLES handled,  \* the clients whose presets have been imported, in order
          synced,   \* the clients that have imported their response
          early     \* the window was closed before there was a socket to close

netVars == <<conn, toServer, toClient, waiting>>
clientVars == <<client, request, response, synced>>
serverVars == <<serverAt, serving, asked, toSend, listening, handled>>
windowVars == <<window, early>>
syncVars == <<has, netVars, clientVars, serverVars, left, windowVars>>

Machines == Clients \cup {Host}
Presets == [Names -> Machines \cup {None}]
NoPresets == [n \in Names |-> None]
NamesOf(presets) == {n \in Names : presets[n] # None}

\* dump(), with "}" appended.
Message(presets) ==
  IF presets = NoPresets THEN <<"empty">> ELSE <<"body", "end">>

SyncTypeOK ==
  /\ has \in [Machines -> Presets]
  /\ conn \in [Clients -> {"none", "open", "left", "poked", "reset"}]
  /\ toServer \in [Clients -> Seq({"body", "end", "empty"})]
  /\ toClient \in [Clients -> Seq({"body", "end", "empty"})]
  /\ client \in [Clients -> {"idle", "send", "end", "recv", "import", "close", "done"}]
  /\ request \in [Clients -> Presets] /\ response \in [Clients -> Presets]
  /\ listening \in {"none", "open", "closed"} /\ waiting \in SUBSET Clients
  /\ serverAt \in {"new", "create", "accept", "recv", "import", "send", "over", "exit"}
  /\ serving \in Clients \cup {None}
  /\ asked \in {"none", "presets", "empty", "gone"}
  /\ toSend \in Presets
  /\ left \in [Machines -> SUBSET Names]
  /\ window \in {"open", "join", "closed", "exit"}
  /\ handled \in Seq(Clients) /\ IsInjective(handled)
  /\ synced \in SUBSET Clients
  /\ early \in BOOLEAN

SyncInit ==
  /\ has \in {d \in [Machines -> Presets] :
                 \A m \in Machines : \A n \in Names : d[m][n] \in {m, None}}
  /\ conn = [c \in Clients |-> "none"]
  /\ toServer = [c \in Clients |-> <<>>] /\ toClient = [c \in Clients |-> <<>>]
  /\ client = [c \in Clients |-> "idle"]
  /\ request = [c \in Clients |-> NoPresets] /\ response = [c \in Clients |-> NoPresets]
  /\ listening = "none" /\ waiting = {}
  /\ serverAt = "new" /\ serving = None /\ asked = "none" /\ toSend = NoPresets
  /\ left = [m \in Machines |-> {}]
  /\ window = "open"
  /\ handled = <<>> /\ synced = {} /\ early = FALSE

-----------------------------------------------------------------------------
(* A client: sync_send, on its GTK thread *)

At(c, pc) == client[c] = pc
GoesTo(c, pc) == client' = [client EXCEPT ![c] = pc]

\* create.  A client that cannot connect exits.
Connect(c) ==
  /\ At(c, "idle")
  /\ IF listening = "open"
     THEN /\ conn' = [conn EXCEPT ![c] = "open"]
          /\ waiting' = waiting \cup {c}
          /\ request' = [request EXCEPT ![c] = has[c]]
          /\ GoesTo(c, "send")
     ELSE GoesTo(c, "done") /\ UNCHANGED <<conn, waiting, request>>
  /\ UNCHANGED <<has, toServer, toClient, response, synced, serverVars, left, windowVars>>

\* send_request.  A failed send does not keep send_preset from going on to recv.
Send(c) ==
  /\ At(c, "send") \/ At(c, "end")
  /\ LET message == Message(request[c])
         piece == IF At(c, "send") THEN message[1] ELSE "end" IN
     IF conn[c] = "reset"
     THEN GoesTo(c, "recv") /\ UNCHANGED toServer
     ELSE /\ toServer' = [toServer EXCEPT ![c] = Append(@, piece)]
          /\ GoesTo(c, IF piece = "body" THEN "end" ELSE "recv")
  /\ UNCHANGED <<has, conn, waiting, toClient, request, response, synced, serverVars,
                 left, windowVars>>

\* recv until the terminator has come; "{}}" counts as no response.
Recv(c) ==
  /\ At(c, "recv")
  /\ toClient[c] # <<>>
  /\ toClient' = [toClient EXCEPT ![c] = Tail(@)]
  /\ LET piece == Head(toClient[c]) IN
     /\ GoesTo(c, IF piece = "end" THEN "import" ELSE IF piece = "empty" THEN "close" ELSE "recv")
     /\ left' = IF piece = "end" THEN [left EXCEPT ![c] = NamesOf(response[c])] ELSE left
  /\ UNCHANGED <<has, conn, waiting, toServer, request, response, synced, serverVars,
                 windowVars>>

RecvFails(c) ==
  /\ At(c, "recv")
  /\ toClient[c] = <<>>
  /\ conn[c] = "reset"
  /\ GoesTo(c, "close")
  /\ UNCHANGED <<has, netVars, request, response, synced, serverVars, left, windowVars>>

\* import_presets_from_json writes one file after the other, over what was there.
Import(c) ==
  /\ At(c, "import")
  /\ \E n \in left[c] :
       /\ has' = [has EXCEPT ![c][n] = response[c][n]]
       /\ left' = [left EXCEPT ![c] = @ \ {n}]
  /\ IF left'[c] = {}
     THEN GoesTo(c, "close") /\ synced' = synced \cup {c}
     ELSE UNCHANGED <<client, synced>>
  /\ UNCHANGED <<netVars, request, response, serverVars, windowVars>>

\* The client's end goes away; with something still to be read there the other side
\* is reset at once.
Gone(c) ==
  conn' = [conn EXCEPT ![c] = CASE @ = "reset" -> @
                                [] toClient[c] # <<>> -> "reset"
                                [] OTHER -> "left"]

Close(c) ==
  /\ At(c, "close")
  /\ Gone(c)
  /\ GoesTo(c, "done")
  /\ UNCHANGED <<has, waiting, toServer, toClient, request, response, synced, serverVars,
                 left, windowVars>>

\* A client may be killed at any time.
Crash(c) ==
  /\ client[c] \in {"send", "end", "recv", "import"}
  /\ Gone(c)
  /\ GoesTo(c, "done")
  /\ UNCHANGED <<has, waiting, toServer, toClient, request, response, synced, serverVars,
                 left, windowVars>>

ClientStep(c) == Send(c) \/ Recv(c) \/ RecvFails(c) \/ Import(c) \/ Close(c)

\* The reset that a send to a closed peer provokes.
Reset(c) ==
  /\ conn[c] = "poked"
  /\ conn' = [conn EXCEPT ![c] = "reset"]
  /\ UNCHANGED <<has, waiting, toServer, toClient, clientVars, serverVars, left, windowVars>>

-----------------------------------------------------------------------------
(* The server thread: run_server *)

ServerNew ==
  /\ serverAt = "new"
  /\ serverAt' = "create"
  /\ UNCHANGED <<has, netVars, clientVars, serving, asked, toSend, listening, handled,
                 left, windowVars>>

\* create.  When the port is taken the whole program exits.
ServerCreate ==
  /\ serverAt = "create"
  /\ \/ /\ listening' = "open" /\ serverAt' = "accept"
        /\ UNCHANGED window
     \/ /\ serverAt' = "exit" /\ window' = "exit"
        /\ UNCHANGED listening
  /\ UNCHANGED <<has, netVars, clientVars, serving, asked, toSend, handled, left, early>>

\* mutation: what is answered is read once, for the first client
ServerAcceptOnce ==
  /\ serverAt = "accept"
  /\ listening = "open"
  /\ \E c \in waiting :
       /\ waiting' = waiting \ {c}
       /\ serving' = c
  /\ toSend' = IF handled = <<>> THEN has[Host] ELSE toSend
  /\ serverAt' = "recv"
  /\ UNCHANGED <<has, conn, toServer, toClient, clientVars, asked, listening, handled,
                 left, windowVars>>

\* accept, and the beginning of handle.
ServerAccept ==
  /\ serverAt = "accept"
  /\ listening = "open"
  /\ \E c \in waiting :
       /\ waiting' = waiting \ {c}
       /\ serving' = c
  /\ toSend' = has[Host]
  /\ serverAt' = "recv"
  /\ UNCHANGED <<has, conn, toServer, toClient, clientVars, asked, listening, handled,
                 left, windowVars>>

\* accept fails once the socket is closed; serve closes it a second time and returns.
ServerAcceptFails ==
  /\ serverAt = "accept"
  /\ listening = "closed"
  /\ serverAt' = "over"
  /\ UNCHANGED <<has, netVars, clientVars, serving, asked, toSend, listening, handled,
                 left, windowVars>>

\* mutation: a request is answered before it is imported
ServerRecvAnswersFirst ==
  /\ serverAt = "recv"
  /\ toServer[serving] # <<>>
  /\ toServer' = [toServer EXCEPT ![serving] = Tail(@)]
  /\ IF Head(toServer[serving]) = "end"
     THEN /\ left' = [left EXCEPT ![Host] = NamesOf(request[serving])]
          /\ asked' = "presets" /\ serverAt' = "import"
          /\ toClient' = [toClient EXCEPT ![serving] = @ \o Message(toSend)]
          /\ response' = [response EXCEPT ![serving] = toSend]
     ELSE UNCHANGED <<serverAt, asked, left, toClient, response>>
  /\ UNCHANGED <<has, conn, waiting, client, request, synced, serving, toSend, listening,
                 handled, windowVars>>

\* get_request: recv until the terminator has come; "{}}" counts as no request.
ServerRecv ==
  /\ serverAt = "recv"
  /\ toServer[serving] # <<>>
  /\ toServer' = [toServer EXCEPT ![serving] = Tail(@)]
  /\ CASE Head(toServer[serving]) = "body" -> UNCHANGED <<serverAt, asked, left>>
       [] Head(toServer[serving]) = "end" ->
            /\ left' = [left EXCEPT ![Host] = NamesOf(request[serving])]
            /\ asked' = "presets" /\ serverAt' = "import"
       [] OTHER -> asked' = "empty" /\ serverAt' = "send" /\ UNCHANGED left
  /\ UNCHANGED <<has, conn, waiting, toClient, clientVars, serving, toSend, listening,
                 handled, windowVars>>

\* mutation: the last request is still there
ServerRecvGoneKeepsRequest ==
  /\ serverAt = "recv"
  /\ toServer[serving] = <<>>
  /\ conn[serving] # "open"
  /\ left' = [left EXCEPT ![Host] = NamesOf(request[serving])]
  /\ asked' = "presets"
  /\ serverAt' = IF left'[Host] = {} THEN "send" ELSE "import"
  /\ UNCHANGED <<has, netVars, clientVars, serving, toSend, listening, handled, windowVars>>

\* The client has closed, or the connection is broken: what has been read of a
\* request is dropped.
ServerRecvGone ==
  /\ serverAt = "recv"
  /\ toServer[serving] = <<>>
  /\ conn[serving] # "open"
  /\ asked' = "gone"
  /\ serverAt' = "send"
  /\ UNCHANGED <<has, netVars, clientVars, serving, toSend, listening, handled, left,
                 windowVars>>

\* mutation: a preset the host has is kept
ServerImportKeeps ==
  /\ serverAt = "import"
  /\ \E n \in left[Host] :
       /\ has' = [has EXCEPT ![Host][n] = IF @ = None THEN request[serving][n] ELSE @]
       /\ left' = [left EXCEPT ![Host] = @ \ {n}]
  /\ IF left'[Host] = {}
     THEN serverAt' = "send" /\ handled' = Append(handled, serving)
     ELSE UNCHANGED <<serverAt, handled>>
  /\ UNCHANGED <<netVars, clientVars, serving, asked, toSend, listening, windowVars>>

\* import_presets_from_json.
ServerImport ==
  /\ serverAt = "import"
  /\ \E n \in left[Host] :
       /\ has' = [has EXCEPT ![Host][n] = request[serving][n]]
       /\ left' = [left EXCEPT ![Host] = @ \ {n}]
  /\ IF left'[Host] = {}
     THEN serverAt' = "send" /\ handled' = Append(handled, serving)
     ELSE UNCHANGED <<serverAt, handled>>
  /\ UNCHANGED <<netVars, clientVars, serving, asked, toSend, listening, windowVars>>

\* mutation: a failed send does not end the loop
ServerSendFailsOn ==
  /\ serverAt = "send"
  /\ conn[serving] = "reset"
  /\ serverAt' = "recv"
  /\ UNCHANGED <<has, netVars, clientVars, serving, asked, toSend, listening, handled,
                 left, windowVars>>

\* Only a failed send ends the loop of handle, which then closes the connection.
ServerSendFails ==
  /\ serverAt = "send"
  /\ conn[serving] = "reset"
  /\ serving' = None
  /\ asked' = "none"
  /\ serverAt' = "accept"
  /\ UNCHANGED <<has, netVars, clientVars, toSend, listening, handled, left, windowVars>>

\* send_response, to whoever is there.
ServerSend ==
  /\ serverAt = "send"
  /\ conn[serving] # "reset"
  /\ IF conn[serving] = "open"
     THEN /\ toClient' = [toClient EXCEPT ![serving] = @ \o Message(toSend)]
          /\ response' = [response EXCEPT ![serving] = toSend]
          /\ UNCHANGED conn
     ELSE /\ conn' = [conn EXCEPT ![serving] = "poked"]
          /\ UNCHANGED <<toClient, response>>
  /\ serverAt' = "recv"
  /\ UNCHANGED <<has, toServer, waiting, client, request, synced, serving, asked, toSend,
                 listening, handled, left, windowVars>>

ServerStep ==
  \/ ServerNew \/ ServerCreate
  \/ ServerAccept \/ ServerAcceptFails
  \/ ServerRecv \/ ServerRecvGone
  \/ ServerImport
  \/ ServerSend \/ ServerSendFails

-----------------------------------------------------------------------------
(* The GTK thread: close_sync *)

\* mutation: the thread is joined, the socket stays open
CloseSocketLater ==
  /\ window = "open"
  /\ window' = "join"
  /\ early' = (serverAt \in {"new", "create"})
  /\ UNCHANGED <<has, netVars, clientVars, serverVars, left>>

\* close_socket.  Before the socket exists some other descriptor is closed, and before
\* run_server has made the server the pointer to it is not set: the program dies, or
\* goes on.  Connections that wait are reset.
CloseSocket ==
  /\ window = "open"
  /\ early' = (serverAt \in {"new", "create"})
  /\ \/ /\ window' = "join"
        /\ listening' = IF early' THEN listening ELSE "closed"
        /\ waiting' = IF early' THEN waiting ELSE {}
        /\ conn' = [c \in Clients |-> IF c \in waiting \ waiting' THEN "reset" ELSE conn[c]]
        /\ UNCHANGED serverAt
     \/ /\ serverAt = "new"
        /\ window' = "exit" /\ serverAt' = "exit"
        /\ UNCHANGED <<listening, waiting, conn>>
  /\ UNCHANGED <<has, toServer, toClient, clientVars, serving, asked, toSend, handled,
                 left>>

Join ==
  /\ window = "join"
  /\ serverAt = "over"
  /\ window' = "closed"
  /\ UNCHANGED <<has, netVars, clientVars, serverVars, left, early>>

-----------------------------------------------------------------------------
SyncNext ==
  \/ \E c \in Clients : Connect(c) \/ Crash(c) \/ ClientStep(c) \/ Reset(c)
  \/ ServerStep
  \/ CloseSocket \/ Join

SyncSpec == SyncInit /\ [][SyncNext]_syncVars

\* Threads that can go on do so, and TCP delivers a reset.  A client once connected
\* runs send_preset to its end or dies, and then its connection is closed for it.
\* Nobody has to connect, or to close the window.
SyncFairSpec ==
  /\ SyncSpec
  /\ WF_syncVars(ServerStep) /\ WF_syncVars(Join)
  /\ \A c \in Clients : WF_syncVars(ClientStep(c)) /\ WF_syncVars(Reset(c))

-----------------------------------------------------------------------------
(* Properties *)

\* A client that has been answered knows that the host has all its presets: handle
\* imports before it sends (server.cc:130 before 143).
AnswerMeansImported ==
  \A c \in Clients :
    toClient[c] # <<>> /\ request[c] # NoPresets => Contains(handled, c)

\* Between imports the host has, under each name, the version of the last client that
\* sent one, or its own (presets.cc:518-524): an import is never half done, and a
\* client that is killed leaves nothing.
HostHasLastImport ==
  serverAt # "import" =>
    \A n \in Names :
      LET senders == {k \in 1..Len(handled) : request[handled[k]][n] # None} IN
      IF senders = {} THEN has[Host][n] \in {Host, None}
                      ELSE has[Host][n] = handled[Max(senders)]

\* Presets spread by way of the host: a client that has synced has every preset of
\* the clients that were served before it (server.cc:104, in handle and not in
\* serve).
EarlierReachLater ==
  \A j, k \in 1..Len(handled) :
    j < k /\ handled[k] \in synced =>
      NamesOf(request[handled[j]]) \subseteq NamesOf(has[handled[k]])

\* Every client that is gone is let go in the end, although the server answers it as
\* if it had asked again (server.cc:110-113): the reset ends that.
GoneIsLetGo ==
  \A c \in Clients : client[c] = "done" /\ serving = c ~> serving # c

\* Closing the window returns (sync.cc:65-66), even while a client is being served,
\* unless it came before the server had a socket.
CloseReturns == window = "join" /\ ~early ~> window = "closed"
=============================================================================
