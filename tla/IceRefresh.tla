----------------------------- MODULE IceRefresh -----------------------------
(***************************************************************************)
(* How peer meshes get their ICE servers and keep them fresh: the mesh     *)
(* (client/webrtc.ts resolveIceServers), the request it makes over its     *)
(* sync connection (client/sync-client.ts requestIceServers), the server's *)
(* handler (server/handler.ts handleIceRequest) and the providers of       *)
(* server/turn.ts, of which Cloudflare's is shared by everyone who asks.   *)
(*                                                                         *)
(* Time is counted in the margin a refresh is early by (a minute); what    *)
(* takes seconds happens between two ticks.  Client and server clocks      *)
(* agree.  A credential is the time it expires at.                         *)
(***************************************************************************)
EXTENDS Integers, Sequences, FiniteSets, FiniteSetsExt

CONSTANTS
    Meshes,
    Providers,    \* the kinds server.iceServers() is tried with
    Ttl,          \* lifetime of a credential, in margins
    IceEnd,       \* time ends here
    IceBounds     \* records [drops, limits, faults, slow, closes]

ASSUME IceConstants ==
    /\ Providers \subseteq {"cloudflare", "secret", "static", "none"}
    /\ Ttl \in Nat \ {0} /\ IceEnd \in Nat

VARIABLES
    iceNow,
    provider,     \* the one in force
    cachedCred,   \* cloudflareTurn's cached: [refreshAt, expiresAt]
    minting,      \* its API call is under way
    mintWaits,    \* meshes whose request waits for that call
    mints,        \* times at which credentials were generated
    asks,         \* mesh -> requests on their way to the server
    iceReplies,   \* mesh -> answers on their way back
    icePhase,     \* mesh -> where its resolveIceServers is
    iceReady,     \* meshes whose iceReady has resolved
    inUse,        \* mesh -> the credential its connections are configured with
    refreshDue,   \* mesh -> when iceRefreshTimer fires, Never when it is not set
    linked,       \* meshes whose client is connected
    iceDead,      \* meshes destroyed
    missedAsk,    \* meshes one of whose requests came to nothing
    iceLeft

iceVars == <<iceNow, provider, cachedCred, minting, mintWaits, mints, asks, iceReplies,
             icePhase, iceReady, inUse, refreshDue, linked, iceDead, missedAsk, iceLeft>>

Never == -1
\* What a client can be told: no servers, servers that do not expire, or the
\* time they do.
NoAnswer == -2
Lasting == -1
Margin == 1

IceSpends(what) == iceLeft[what] > 0 /\ iceLeft' = [iceLeft EXCEPT ![what] = @ - 1]

IceInit ==
    /\ iceNow = 0
    /\ provider \in Providers
    /\ cachedCred = [refreshAt |-> 0, expiresAt |-> 0]
    /\ minting = FALSE /\ mintWaits = {} /\ mints = <<>>
    /\ asks = [m \in Meshes |-> 0]
    /\ iceReplies = [m \in Meshes |-> <<>>]
    /\ icePhase = [m \in Meshes |-> "waiting"]
    /\ iceReady = {} /\ linked = {} /\ iceDead = {} /\ missedAsk = {}
    /\ inUse = [m \in Meshes |-> NoAnswer]
    /\ refreshDue = [m \in Meshes |-> Never]
    /\ iceLeft \in IceBounds

-----------------------------------------------------------------------------
(* The connection, and time. *)

LinkUp(m) ==
    /\ m \notin linked
    /\ linked' = linked \cup {m}
    /\ UNCHANGED <<iceNow, provider, cachedCred, minting, mintWaits, mints, asks, iceReplies,
                   icePhase, iceReady, inUse, refreshDue, iceDead, missedAsk, iceLeft>>

\* What is on the wire is lost.
LinkDrops(m) ==
    /\ m \in linked
    /\ IceSpends("drops")
    /\ linked' = linked \ {m}
    /\ asks' = [asks EXCEPT ![m] = 0]
    /\ iceReplies' = [iceReplies EXCEPT ![m] = <<>>]
    /\ UNCHANGED <<iceNow, provider, cachedCred, minting, mintWaits, mints, icePhase, iceReady,
                   inUse, refreshDue, iceDead, missedAsk>>

\* Requests, answers, the API call and timers that are due come before the
\* next margin of time is over.
Pending(m) ==
    \/ asks[m] > 0 \/ iceReplies[m] # <<>>
    \/ icePhase[m] = "asking" \/ (icePhase[m] = "waiting" /\ m \in linked /\ m \notin iceDead)
    \/ refreshDue[m] = iceNow
IceTick ==
    /\ iceNow < IceEnd /\ ~minting /\ ~\E m \in Meshes : Pending(m)
    /\ iceNow' = iceNow + 1
    /\ UNCHANGED <<provider, cachedCred, minting, mintWaits, mints, asks, iceReplies, icePhase,
                   iceReady, inUse, refreshDue, linked, iceDead, missedAsk, iceLeft>>

-----------------------------------------------------------------------------
(* The server. *)

ReplyWith(m, cred) ==
    iceReplies' = IF m \in linked THEN [iceReplies EXCEPT ![m] = Append(@, cred)] ELSE iceReplies
ReplyAll(ms, cred) ==
    iceReplies' = [m \in Meshes |-> IF m \in ms \cap linked THEN Append(iceReplies[m], cred)
                                    ELSE iceReplies[m]]

\* The cached credential is shared until half its lifetime has passed.
Shared == iceNow < cachedCred.refreshAt

\* handleIceRequest: metered like any ephemeral frame; without an answer when
\* it is over the limit.
HandleAsk(m) ==
    /\ asks[m] > 0
    /\ asks' = [asks EXCEPT ![m] = @ - 1]
    /\ \/ /\ IceSpends("limits")
          /\ UNCHANGED <<iceReplies, minting, mintWaits, mints>>
       \/ /\ provider # "cloudflare" \/ Shared
          /\ ReplyWith(m, CASE provider = "none"       -> NoAnswer
                        [] provider = "static"     -> Lasting
                        [] provider = "secret"     -> iceNow + Ttl
                        [] provider = "cloudflare" -> cachedCred.expiresAt)
          /\ UNCHANGED <<minting, mintWaits, mints, iceLeft>>
       \/ /\ provider = "cloudflare" /\ ~Shared
          /\ minting' = TRUE
          /\ mintWaits' = mintWaits \cup {m}
          /\ UNCHANGED <<iceReplies, mints, iceLeft>>
    /\ UNCHANGED <<iceNow, provider, cachedCred, icePhase, iceReady, inUse, refreshDue, linked,
                   iceDead, missedAsk>>

\* generate: everyone who asked meanwhile gets the one result.
MintEnds ==
    /\ minting
    /\ minting' = FALSE /\ mintWaits' = {}
    /\ \/ /\ cachedCred' = [refreshAt |-> iceNow + Ttl \div 2, expiresAt |-> iceNow + Ttl]
          /\ mints' = Append(mints, iceNow)
          /\ ReplyAll(mintWaits, iceNow + Ttl)
          /\ UNCHANGED iceLeft
       \/ /\ IceSpends("faults")
          /\ ReplyAll(mintWaits, NoAnswer)
          /\ UNCHANGED <<cachedCred, mints>>
    /\ UNCHANGED <<iceNow, provider, asks, icePhase, iceReady, inUse, refreshDue, linked,
                   iceDead, missedAsk>>

-----------------------------------------------------------------------------
(* The mesh. *)

\* When the refresh of a credential is due: a margin early, and not at once.
DueAt(cred) == Max({iceNow + Margin, cred - Margin})

NowReady(m, cred) == iceReady \cup {m}

Arms(m, cred) ==
    IF m \in iceDead \/ cred \in {NoAnswer, Lasting} THEN refreshDue
    ELSE [refreshDue EXCEPT ![m] = DueAt(cred)]

\* resolveIceServers goes on with what its request came to. Without servers
\* it keeps those it has, and arms no refresh.
Resolved(m, cred) ==
    /\ icePhase' = [icePhase EXCEPT ![m] = "done"]
    /\ iceReady' = NowReady(m, cred)
    /\ inUse' = IF m \in iceDead \/ cred = NoAnswer THEN inUse ELSE [inUse EXCEPT ![m] = cred]
    /\ refreshDue' = Arms(m, cred)
    /\ missedAsk' = IF cred = NoAnswer THEN missedAsk \cup {m} ELSE missedAsk

\* The connection is there: requestIceServers sends, or the send throws.
Ask(m) ==
    /\ icePhase[m] = "waiting" /\ m \in linked /\ m \notin iceDead
    /\ \/ /\ icePhase' = [icePhase EXCEPT ![m] = "asking"]
          /\ asks' = [asks EXCEPT ![m] = @ + 1]
          /\ UNCHANGED <<iceReady, inUse, refreshDue, missedAsk, iceLeft>>
       \/ /\ IceSpends("faults")
          /\ Resolved(m, NoAnswer)
          /\ UNCHANGED asks
    /\ UNCHANGED <<iceNow, provider, cachedCred, minting, mintWaits, mints, iceReplies, linked,
                   iceDead>>

\* An answer resolves whoever waits for one, an answer to an earlier request too.
TakeReply(m) ==
    /\ iceReplies[m] # <<>>
    /\ iceReplies' = [iceReplies EXCEPT ![m] = Tail(@)]
    /\ IF icePhase[m] = "asking" THEN Resolved(m, Head(iceReplies[m]))
       ELSE UNCHANGED <<icePhase, iceReady, inUse, refreshDue, missedAsk>>
    /\ UNCHANGED <<iceNow, provider, cachedCred, minting, mintWaits, mints, asks, linked,
                   iceDead, iceLeft>>

\* No answer within timeoutMs: none is coming, or it is late.
AskTimesOut(m) ==
    /\ icePhase[m] = "asking"
    /\ \/ /\ asks[m] = 0 /\ iceReplies[m] = <<>> /\ m \notin mintWaits
          /\ UNCHANGED iceLeft
       \/ IceSpends("slow")
    /\ Resolved(m, NoAnswer)
    /\ UNCHANGED <<iceNow, provider, cachedCred, minting, mintWaits, mints, asks, iceReplies,
                   linked, iceDead>>

\* iceRefreshTimer: the mesh asks again, once it is connected.
RefreshFires(m) ==
    /\ refreshDue[m] = iceNow
    /\ refreshDue' = [refreshDue EXCEPT ![m] = Never]
    /\ icePhase' = [icePhase EXCEPT ![m] = "waiting"]
    /\ UNCHANGED <<iceNow, provider, cachedCred, minting, mintWaits, mints, asks, iceReplies,
                   iceReady, inUse, linked, iceDead, missedAsk, iceLeft>>

\* destroy(), on unmount or when the page goes away.
DestroyMesh(m) ==
    /\ m \notin iceDead
    /\ IceSpends("closes")
    /\ iceDead' = iceDead \cup {m}
    /\ refreshDue' = [refreshDue EXCEPT ![m] = Never]
    /\ UNCHANGED <<iceNow, provider, cachedCred, minting, mintWaits, mints, asks, iceReplies,
                   icePhase, iceReady, inUse, linked, missedAsk>>

IceNext ==
    \/ IceTick \/ MintEnds
    \/ \E m \in Meshes :
        \/ LinkUp(m) \/ LinkDrops(m) \/ HandleAsk(m) \/ Ask(m) \/ TakeReply(m)
        \/ AskTimesOut(m) \/ RefreshFires(m) \/ DestroyMesh(m)

IceSpec == IceInit /\ [][IceNext]_iceVars

-----------------------------------------------------------------------------

\* Values are of their kind, and a mesh is never left between asking and
\* ready: what it queued until iceReady always gets its turn.
IceTypeOK ==
    /\ icePhase \in [Meshes -> {"waiting", "asking", "done"}]
    /\ inUse \in [Meshes -> {NoAnswer, Lasting} \cup 0 .. IceEnd + Ttl]
    /\ refreshDue \in [Meshes -> {Never} \cup 0 .. IceEnd + Ttl]
    /\ mintWaits # {} => minting
    /\ \A m \in Meshes : icePhase[m] = "done" => m \in iceReady

\* A credential handed out is good for half its lifetime at least, the shared
\* one of cloudflareTurn too.
HandedOutFresh ==
    \A m \in Meshes : \A i \in DOMAIN iceReplies[m] :
        iceReplies[m][i] >= 0 => 2 * (iceReplies[m][i] - iceNow) >= Ttl

\* However many meshes ask, and whenever, the API is called once per half a
\* lifetime.
MintsAreSpaced ==
    \A i, j \in DOMAIN mints : i < j => 2 * (mints[j] - mints[i]) >= Ttl - 1

\* The connections of a mesh are never configured with a credential that has
\* expired, as long as its requests are answered and it is not held up by its
\* own connection.
CredentialsLast ==
    \A m \in Meshes \ iceDead :
        (inUse[m] >= 0 /\ inUse[m] < iceNow) => (m \in missedAsk \/ icePhase[m] # "done")

\* A mesh that was destroyed arms no timer any more, whatever was under way.
DeadIsQuiet == \A m \in iceDead : refreshDue[m] = Never

\* Credentials are handed out with time left, minted no more often than they
\* expire, renewed before they do, and never asked for by a closed mesh.
\* Each as stated above.
IceInv == IceTypeOK /\ HandedOutFresh /\ MintsAreSpaced /\ CredentialsLast /\ DeadIsQuiet
=============================================================================
