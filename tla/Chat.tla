-------------------------------- MODULE Chat --------------------------------
(***************************************************************************)
(* The global chat (ws/chat.ts): messages stored by one insert each and    *)
(* broadcast when it is answered, the history sent to a socket that says   *)
(* hello, the prune, and what the chat page shows of it (chat.tsx).        *)
(*                                                                         *)
(* A message is its rank among those stored, the order of its BIGSERIAL    *)
(* id; the table holds a range of them.  A call of the database is a query *)
(* executed and then answered; calls run on the connections of a pool, so  *)
(* one may overtake another asked before it.                               *)
(***************************************************************************)
EXTENDS Integers, Sequences, FiniteSets, SequencesExt

CONSTANTS
    Client,             \* chat pages, each with its own websocket
    Nobody,
    HistoryLimit,       \* env.chatHistoryLimit
    RetainCount,        \* env.chatRetainCount
    MaxMessages,        \* bound: messages stored or waiting to be
    MaxCalls,           \* bound: calls in flight
    MaxMishaps          \* bound: mishaps

ASSUME ChatAssumption ==
    /\ HistoryLimit \in Nat \ {0} /\ RetainCount \in Nat \ {0}
    /\ MaxMessages \in Nat /\ MaxCalls \in Nat /\ MaxMishaps \in Nat
    /\ Nobody \notin Client

VARIABLES
    stored,             \* messages ever stored: 1..stored
    oldest,             \* the table holds oldest..stored
    calls,              \* calls in flight, in the order they were made
    connected,          \* clients whose socket is open
    named,              \* those that said hello: socketsByAddress
    shown,              \* what each page shows, top to bottom
    mishaps

tableVars == <<stored, oldest>>
vars == <<tableVars, calls, connected, named, shown, mishaps>>

\* The messages first..last, and the answer of a call not executed yet.
Pending == [first |-> 0, last |-> 0]
Answer == [first : Nat \ {0}, last : Nat]

Call == [kind : {"insert", "history"}, to : Client \cup {Nobody},
         got : Answer \cup {Pending}]

Mishap == {"overtaken", "lost"}

Happens(kind) ==
    /\ Cardinality(mishaps) < MaxMishaps
    /\ mishaps' = mishaps \cup {kind}

Without(kinds) == mishaps \cap kinds = {}

Init ==
    /\ stored = 0 /\ oldest = 1
    /\ calls = <<>>
    /\ connected = {} /\ named = {}
    /\ shown = [c \in Client |-> <<>>]
    /\ mishaps = {}

-----------------------------------------------------------------------------
(* Clients                                                                 *)

Calls(kind, to) ==
    /\ Len(calls) < MaxCalls
    /\ calls' = Append(calls, [kind |-> kind, to |-> to, got |-> Pending])

Connect(c) ==
    /\ c \notin connected
    /\ connected' = connected \cup {c}
    /\ UNCHANGED <<tableVars, calls, named, shown, mishaps>>

\* hello registers the address, then sendChatHistory reads the newest rows.
HelloMutant(c) ==
    /\ c \in connected
    /\ named' = named \cup {c}
    /\ UNCHANGED <<tableVars, calls, connected, shown, mishaps>>

Hello(c) ==
    /\ c \in connected
    /\ named' = named \cup {c}
    /\ Calls("history", c)
    /\ UNCHANGED <<tableVars, connected, shown, mishaps>>

\* unregisterAddress, when the socket closes.
Unregister(c) == named' = named \ {c}

\* The page keeps its messages when its socket drops, and loses them when it is
\* left; an answer on its way to the socket goes nowhere.
Disconnect(c) ==
    /\ c \in connected
    /\ connected' = connected \ {c}
    /\ Unregister(c)
    /\ calls' = [i \in DOMAIN calls |->
                    IF calls[i].to = c THEN [calls[i] EXCEPT !.to = Nobody] ELSE calls[i]]
    /\ shown' \in {shown, [shown EXCEPT ![c] = <<>>]}
    /\ UNCHANGED <<tableVars, mishaps>>

Inserts == {i \in DOMAIN calls : calls[i].kind = "insert"}

\* Nothing is stored for a socket without an address.
ChatSend(c) ==
    /\ c \in named
    /\ stored + Cardinality(Inserts) < MaxMessages
    /\ Calls("insert", Nobody)
    /\ UNCHANGED <<tableVars, connected, named, shown, mishaps>>

-----------------------------------------------------------------------------
(* The table                                                               *)

Later(m, n) == IF m > n THEN m ELSE n

\* pruneChatMessages keeps the newest RetainCount rows.
KeptFrom == Later(oldest, stored - RetainCount + 1)

Prune ==
    /\ oldest' = KeptFrom
    /\ UNCHANGED <<stored, calls, connected, named, shown, mishaps>>

\* recentChatMessages: the newest HistoryLimit rows, oldest of them first.
RecentMutant ==
    [first |-> oldest,
     last  |-> IF stored < oldest + HistoryLimit - 1 THEN stored ELSE oldest + HistoryLimit - 1]
Recent == [first |-> Later(oldest, stored - HistoryLimit + 1), last |-> stored]

Executed(i) == calls[i].got # Pending

Executes(i) ==
    /\ ~Executed(i)
    /\ IF \A j \in 1..(i - 1) : Executed(j) THEN UNCHANGED mishaps
                                            ELSE Happens("overtaken")
    /\ IF calls[i].kind = "insert"
       THEN /\ stored' = stored + 1
            /\ calls' = [calls EXCEPT ![i].got = [first |-> stored', last |-> stored']]
       ELSE /\ calls' = [calls EXCEPT ![i].got = Recent]
            /\ UNCHANGED stored
    /\ UNCHANGED <<oldest, connected, named, shown>>

Answered(i) ==
    /\ IF i = 1 THEN UNCHANGED mishaps ELSE Happens("overtaken")
    /\ calls' = RemoveAt(calls, i)

\* chat_message: appended, unless the page shows it already.
Upsert(messages, id) ==
    IF \E k \in DOMAIN messages : messages[k] = id THEN messages ELSE Append(messages, id)

\* broadcastAll reaches the sockets that have an address.
InsertReply(i) ==
    /\ calls[i].kind = "insert" /\ Executed(i)
    /\ Answered(i)
    /\ shown' = [c \in Client |->
                    IF c \in named THEN Upsert(shown[c], calls[i].got.last) ELSE shown[c]]
    /\ UNCHANGED <<tableVars, connected, named>>

\* chat_history replaces what the page shows.
ListedMutant(a) == [k \in 1..(a.last - a.first + 1) |-> a.last + 1 - k]
Listed(a) == [k \in 1..(a.last - a.first + 1) |-> a.first + k - 1]

HistoryReply(i) ==
    /\ calls[i].kind = "history" /\ Executed(i)
    /\ Answered(i)
    /\ shown' = [c \in Client |-> IF c = calls[i].to THEN Listed(calls[i].got) ELSE shown[c]]
    /\ UNCHANGED <<tableVars, connected, named>>

\* A call fails, before or after the database executed it: nobody is sent the
\* message or the history.
Fails(i) ==
    /\ Happens("lost")
    /\ calls' = RemoveAt(calls, i)
    /\ UNCHANGED <<tableVars, connected, named, shown>>

Restart ==
    /\ calls' = <<>> /\ connected' = {} /\ named' = {}
    /\ UNCHANGED <<tableVars, shown, mishaps>>

-----------------------------------------------------------------------------
Next ==
    \/ \E c \in Client : Connect(c) \/ Hello(c) \/ Disconnect(c) \/ ChatSend(c)
    \/ Prune
    \/ \E i \in DOMAIN calls : Executes(i) \/ InsertReply(i) \/ HistoryReply(i) \/ Fails(i)
    \/ Restart

Spec == Init /\ [][Next]_vars

Served == calls # <<>> /\ (Executes(1) \/ InsertReply(1) \/ HistoryReply(1))

\* The database executes and answers the oldest call.
LiveSpec == Spec /\ WF_vars(Served)

-----------------------------------------------------------------------------
(* Properties                                                              *)

Shows(c, id) == \E k \in DOMAIN shown[c] : shown[c][k] = id

\* Every variable has its type, and only open sockets have an address.
TypeOK ==
    /\ stored \in Nat /\ oldest \in 1..(stored + 1)
    /\ calls \in Seq(Call)
    /\ \A i \in DOMAIN calls : Executed(i) => calls[i].got.last \in 0..stored
    /\ named \subseteq connected /\ connected \subseteq Client
    /\ shown \in [Client -> Seq(1..stored)]
    /\ mishaps \subseteq Mishap

\* No page shows a message twice, in whatever order the history and the
\* broadcasts of the same messages reach it.
NeverDoubled ==
    \A c \in Client : \A j, k \in DOMAIN shown[c] : shown[c][j] = shown[c][k] => j = k

\* Messages are shown in the order they were stored, unless a call was
\* overtaken: the page does not sort them.
Chronological ==
    Without({"overtaken"}) =>
        \A c \in Client : \A j, k \in DOMAIN shown[c] : j < k => shown[c][j] < shown[c][k]

\* A history never takes away a message the page shows, but for those too old
\* for it: pruned, or not among the newest HistoryLimit stored.
NothingVanishes ==
    [][Without({"overtaken"}) =>
          \A c \in connected \cap connected' : \A id \in 1..stored :
              Shows(c, id) => Shows(c, id)' \/ id < oldest \/ id <= stored - HistoryLimit]_vars

\* A history holds as many of the newest messages as it may.
BacklogServed ==
    \A i \in DOMAIN calls : calls[i].kind = "history" /\ Executed(i) =>
        \A n \in 1..calls[i].got.last :
            n > calls[i].got.last - HistoryLimit /\ n > calls[i].got.last - RetainCount =>
                n >= calls[i].got.first

\* Whoever has said hello gets to see every stored message, also those stored
\* before or while they connected, but for those too old for a history.
ReachesAll ==
    \A c \in Client : \A id \in 1..MaxMessages :
        id <= stored /\ c \in named ~>
            \/ Shows(c, id)
            \/ c \notin named
            \/ id < oldest \/ id <= stored - HistoryLimit
            \/ ~Without({"overtaken", "lost"})
=============================================================================
