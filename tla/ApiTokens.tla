------------------------------ MODULE ApiTokens ------------------------------
(* API tokens: the map in memory that requests are checked against, written  *)
(* through to one Secret that a restart loads (internal/auth/tokens.go,      *)
(* token_persistence.go).  A change holds the mutex of the token store, so   *)
(* that no request of the process sees it, until its write was answered; a   *)
(* failed write is taken back in memory.  Two processes overlap while a new  *)
(* one takes over.  A window stands for the expiry it leads to.              *)
EXTENDS Naturals

CONSTANTS
    Server,                 \* the processes that serve
    Name, Token,
    Window,                 \* expiries that people ask for
    NoToken,                \* no token of that name; no change under way
    NoSecret,
    MaxTokenFaults          \* bound: failing writes and processes that stop

Record == [token : Token, until : Window]
Tokens == [Name -> Record \cup {NoToken}]

\* The mutex is held: what changes, from what to what, and what save has read.
Changing ==
    [op : {"create", "renew", "revoke"}, name : Name, was : Record \cup {NoToken},
     now : Record \cup {NoToken}, saw : {"nothing", "current", "old"}]

ASSUME TokenConstants ==
    /\ NoToken \notin Record \cup Changing /\ NoSecret \notin Tokens
    /\ Window \cap {"unused", "unanswered", "revoked"} = {}
    /\ MaxTokenFaults \in Nat

VARIABLES
    running,
    tokens,         \* the map of each process
    secret,         \* the map in the Secret
    doing,          \* what each process is changing; NoToken with the mutex free
    behind,         \* processes that loaded before another one wrote
    told,           \* what people were last told of each token
    unsure,         \* tokens whose last change was not answered "done" but may be saved
    crossed,        \* history: a process wrote that was behind
    tokenFaults

tokenVars == <<running, tokens, secret, doing, behind, told, unsure, crossed, tokenFaults>>

TokensTypeOK ==
    /\ running \subseteq Server
    /\ tokens \in [Server -> Tokens]
    /\ secret \in Tokens \cup {NoSecret}
    /\ doing \in [Server -> Changing \cup {NoToken}]
    /\ behind \subseteq running
    /\ told \in [Token -> Window \cup {"unused", "unanswered", "revoked"}]
    /\ unsure \subseteq Token
    /\ crossed \in BOOLEAN
    /\ tokenFaults \in 0..MaxTokenFaults

NoTokens == [n \in Name |-> NoToken]
Loaded   == IF secret = NoSecret THEN NoTokens ELSE secret

TokensInit ==
    /\ running = {}
    /\ tokens = [p \in Server |-> NoTokens]
    /\ secret = NoSecret
    /\ doing = [p \in Server |-> NoToken]
    /\ behind = {} /\ unsure = {} /\ crossed = FALSE
    /\ told = [t \in Token |-> "unused"]
    /\ tokenFaults = 0

\* InitTokenPersistence; a process that cannot read the Secret does not start.
Start(p) ==
    /\ p \notin running
    /\ running' = running \cup {p}
    /\ tokens' = [tokens EXCEPT ![p] = Loaded]
    /\ UNCHANGED <<secret, doing, behind, told, unsure, crossed, tokenFaults>>

\* The change in memory, and save's first read of the Secret.
Begins(p, op, n, now) ==
    /\ p \in running /\ doing[p] = NoToken
    /\ tokens' = [tokens EXCEPT ![p][n] = now]
    /\ doing' = [doing EXCEPT ![p] =
           [op |-> op, name |-> n, was |-> tokens[p][n], now |-> now,
            saw |-> IF secret = NoSecret THEN "nothing" ELSE "current"]]
    /\ UNCHANGED <<running, secret, behind, unsure, crossed, tokenFaults>>

\* The value of a token is random: it was never one before.
CreateToken(p, n, t, w) ==
    /\ tokens[p][n] = NoToken /\ told[t] = "unused"
    /\ Begins(p, "create", n, [token |-> t, until |-> w])
    /\ told' = [told EXCEPT ![t] = "unanswered"]

RenewToken(p, n, w) ==
    /\ tokens[p][n] # NoToken
    /\ Begins(p, "renew", n, [tokens[p][n] EXCEPT !.until = w])
    /\ UNCHANGED told

RevokeToken(p, n) ==
    /\ tokens[p][n] # NoToken
    /\ Begins(p, "revoke", n, NoToken)
    /\ UNCHANGED told

\* The Secret was created meanwhile: save reads it again and goes on to update it.
Reread(p) ==
    /\ doing[p] # NoToken /\ doing[p].saw = "nothing" /\ secret # NoSecret
    /\ doing' = [doing EXCEPT ![p].saw = "current"]
    /\ UNCHANGED <<running, tokens, secret, behind, told, unsure, crossed, tokenFaults>>

Accepted(p) ==
    \/ doing[p].saw = "nothing" /\ secret = NoSecret
    \/ doing[p].saw = "current"

About(p) == IF doing[p].now = NoToken THEN doing[p].was.token ELSE doing[p].now.token

\* The API server takes the whole map of p; who read the Secret before cannot
\* update it any more.
Lands(p) ==
    /\ Accepted(p)
    /\ secret' = tokens[p]
    /\ crossed' = (crossed \/ p \in behind)
    /\ behind' = running \ {p}

\* The mutex is free again; another process that read what was replaced is too late.
TooLate(change) ==
    IF change # NoToken /\ change.saw = "current" THEN [change EXCEPT !.saw = "old"] ELSE change

Ends(p) ==
    doing' = [q \in Server |->
        IF q = p THEN NoToken ELSE IF secret' = secret THEN doing[q] ELSE TooLate(doing[q])]

Saved(p) ==
    /\ doing[p] # NoToken
    /\ Lands(p) /\ Ends(p)
    /\ told' = [told EXCEPT ![About(p)] =
           IF doing[p].now = NoToken THEN "revoked" ELSE doing[p].now.until]
    /\ unsure' = unsure \ {About(p)}
    /\ UNCHANGED <<running, tokens, tokenFaults>>

\* The error branches of the three operations.
NotRolledBack(p) == tokens
RolledBack(p)    == [tokens EXCEPT ![p][doing[p].name] = doing[p].was]

Overtaken(p) ==
    /\ doing[p] # NoToken /\ doing[p].saw = "old"
    /\ UNCHANGED <<running, secret, behind, told, unsure, crossed, tokenFaults>>
    /\ tokens' = RolledBack(p) /\ Ends(p)

\* A write of which nobody hears: its answer is lost, or its process stopped.
Unheard(p) ==
    /\ doing[p] # NoToken
    /\ Lands(p)
    /\ unsure' = unsure \cup {About(p)}

SaveFails(p) ==
    /\ doing[p] # NoToken /\ tokenFaults < MaxTokenFaults
    /\ Unheard(p) \/ UNCHANGED <<secret, behind, unsure, crossed>>
    /\ tokens' = RolledBack(p) /\ Ends(p)
    /\ tokenFaults' = tokenFaults + 1
    /\ UNCHANGED <<running, told>>

Stop(p) ==
    /\ p \in running /\ tokenFaults < MaxTokenFaults
    /\ \/ Unheard(p)
       \/ UNCHANGED <<secret, unsure, crossed>> /\ behind' = behind \ {p}
    /\ running' = running \ {p}
    /\ tokens' = [tokens EXCEPT ![p] = NoTokens] /\ Ends(p)
    /\ tokenFaults' = tokenFaults + 1
    /\ UNCHANGED told

TokensNext == \E p \in Server :
    \/ Start(p) \/ Reread(p) \/ Saved(p) \/ Overtaken(p) \/ SaveFails(p) \/ Stop(p)
    \/ \E n \in Name :
        \/ \E w \in Window : RenewToken(p, n, w) \/ \E t \in Token : CreateToken(p, n, t, w)
        \/ RevokeToken(p, n)

TokensSpec == TokensInit /\ [][TokensNext]_tokenVars

Holds(map, t) ==
    /\ told[t] = "revoked" => \A n \in Name : map[n] = NoToken \/ map[n].token # t
    /\ told[t] \in Window => \E n \in Name : map[n] = [token |-> t, until |-> told[t]]

\* token_persistence.go promises that a token never looks created, renewed or
\* revoked while the saved copy disagrees.  A token whose revocation was answered
\* is neither in the Secret nor in any process, one that was answered created or
\* renewed is there with that expiry, through failed writes, conflicts and
\* restarts.  Not covered: a process that another one overtook (it reads the
\* Secret once, at its start), everything once such a process wrote its own map,
\* and a token whose last change was not answered as done but may be saved.
TokensAsAnswered ==
    ~crossed => \A t \in Token \ unsure :
        /\ Holds(Loaded, t)
        /\ \A p \in running \ behind : doing[p] = NoToken => Holds(tokens[p], t)
=============================================================================
