------------------------------- MODULE Sessions -------------------------------
(***************************************************************************)
(* The account of one address and its sessions (features/auth/routes.py,   *)
(* auth/service.py, users/service.py and platform/security).  A request    *)
(* reads the row, hashes, and writes the columns it has changed.           *)
(*                                                                         *)
(* A session is a refresh token, exchanged for another one each time it is *)
(* used.  What was exchanged or signed out is listed in Redis; a process   *)
(* that cannot reach Redis takes every token for good, and does not ask    *)
(* again for a while.  Mailed links and the second factor are modelled by  *)
(* Accounts; a token that has expired is one that is not used.             *)
(***************************************************************************)
EXTENDS Integers, Sequences, FiniteSets

CONSTANTS
    Handlers,     \* requests at one time
    Processes,    \* of the API
    Passwords,
    MaxAsked,     \* bound on the requests
    MaxOutages    \* bound on the outages of Redis

VARIABLES
    account,  \* the row of users
    tokens,   \* the refresh tokens, in the order they were issued
    denied,   \* those listed in Redis
    redis,    \* whether Redis answers
    cooling,  \* the processes that do not ask it
    doing,    \* what each handler is doing
    asked, outages,
    chosen,   \* history: the password its owner has set last
    mixed,    \* history: one was saved over another that was not read
    gone,     \* history: the tokens exchanged or signed out
    doubtful  \* history: those of which Redis was not asked or not told, or
              \* which two requests presented at one time

row == <<account, chosen, mixed>>
store == <<denied, redis, cooling>>
history == <<gone, doubtful>>
vars == <<row, tokens, store, doing, asked, outages, history>>

NoAccount == [id |-> 0]
Random == 0        \* a password nobody knows
Resting == [at |-> "idle"]

Init ==
    /\ account \in {NoAccount} \cup
          \* made before the parameters of the hash were raised
          {[id |-> -1, hash |-> [of |-> p, weak |-> TRUE, salt |-> 0], google |-> FALSE]
             : p \in Passwords}
    /\ chosen = IF account = NoAccount THEN Random ELSE account.hash.of
    /\ tokens = <<>> /\ denied = {} /\ redis = TRUE /\ cooling = {}
    /\ doing = [h \in Handlers |-> Resting]
    /\ asked = 0 /\ outages = 0
    /\ mixed = FALSE /\ gone = {} /\ doubtful = {}

Begin(h, w) ==
    /\ doing[h] = Resting
    /\ asked < MaxAsked /\ asked' = asked + 1
    /\ doing' = [doing EXCEPT ![h] = w]
    /\ UNCHANGED outages

End(h) == doing' = [doing EXCEPT ![h] = Resting] /\ UNCHANGED <<asked, outages>>
-----------------------------------------------------------------------------
(* The account *)

\* A request has read the row, and will leave it as new; signs says whether it
\* answers with a session, sets whether its owner chose the password.
Write(h, new, signs, sets) ==
    /\ Begin(h, [at |-> "saving", saw |-> account, new |-> new, signs |-> signs,
                 sets |-> sets])
    /\ UNCHANGED <<row, tokens, store, history>>

\* Every hash has a salt of its own: it differs from any made before.
Hash(p) == [of |-> p, weak |-> FALSE, salt |-> asked + 1]
Fresh(p, byGoogle) == [id |-> asked + 1, hash |-> Hash(p), google |-> byGoogle]

Verified(p) == account # NoAccount /\ account.hash.of = p

SignUp(h, p) == account = NoAccount /\ Write(h, Fresh(p, FALSE), TRUE, TRUE)

\* A hash of weaker parameters is made anew from what was typed.
LogIn(h, p) ==
    /\ Verified(p)
    /\ Write(h, IF account.hash.weak THEN [account EXCEPT !.hash = Hash(p)] ELSE account,
             TRUE, FALSE)

\* The identity is linked to the account of its address, or makes one.
Google(h) ==
    Write(h, IF account = NoAccount THEN Fresh(Random, TRUE)
             ELSE [account EXCEPT !.google = TRUE],
          TRUE, account = NoAccount)

\* By a mailed link.
Reset(h, p) ==
    /\ account # NoAccount
    /\ Write(h, [account EXCEPT !.hash = Hash(p)], TRUE, TRUE)

Change(h, old, p) ==
    /\ Verified(old)
    /\ Write(h, [account EXCEPT !.hash = Hash(p)], FALSE, TRUE)

Delete(h, p) == Verified(p) /\ Write(h, NoAccount, FALSE, FALSE)

\* The columns that differ from what was read are written.
Merged(w) ==
    IF w.new = NoAccount \/ w.saw = NoAccount THEN w.new
    ELSE [c \in DOMAIN account |-> IF w.new[c] # w.saw[c] THEN w.new[c] ELSE account[c]]

\* A token of an account; history: the sign-in it comes from, by one exchange
\* after another, is known by the token that was issued then.
Issued(to, root) == [of |-> to, root |-> root]

\* The commit.  It fails if another request has taken the address, or the row
\* is gone.
Save(h) ==
    /\ doing[h].at = "saving"
    /\ LET w == doing[h] IN
       IF account.id = w.saw.id
       THEN /\ account' = Merged(w)
            /\ tokens' = IF w.signs THEN Append(tokens, Issued(account'.id, Len(tokens) + 1))
                         ELSE tokens
            /\ chosen' = IF w.sets THEN w.new.hash.of ELSE chosen
            /\ mixed' = (mixed \/ (account # w.saw /\ account'.id = account.id
                                   /\ account'.hash # account.hash))
       ELSE UNCHANGED <<row, tokens>>
    /\ End(h)
    /\ UNCHANGED <<store, history>>
-----------------------------------------------------------------------------
(* Sessions *)

\* Mutant: the key is set under another prefix than is_revoked looks for.
RevokeElsewhere(p, t) ==
    /\ cooling' = IF redis THEN cooling ELSE cooling \cup {p}
    /\ UNCHANGED <<denied, redis>>

\* Process p tells Redis of token t, if it can; else it leaves Redis alone for
\* a while.
Revoke(p, t) ==
    /\ denied' = IF redis /\ p \notin cooling THEN denied \cup {t} ELSE denied
    /\ cooling' = IF redis THEN cooling ELSE cooling \cup {p}
    /\ UNCHANGED redis

Reaches(p) == redis /\ p \notin cooling
Presented(t) == {h \in Handlers : doing[h].at = "rotating" /\ doing[h].token = t}

\* A token is let through unless Redis says that it is used up; its account
\* must be there.
Refresh(h, p, t) ==
    /\ Reaches(p) => t \notin denied
    /\ account.id = tokens[t].of
    /\ Begin(h, [at |-> "rotating", token |-> t, by |-> p])
    /\ cooling' = IF redis THEN cooling ELSE cooling \cup {p}
    /\ doubtful' = IF Reaches(p) /\ Presented(t) = {} THEN doubtful ELSE doubtful \cup {t}
    /\ UNCHANGED <<row, tokens, denied, redis, gone>>

\* ... and is exchanged for the next.
Rotate(h) ==
    /\ doing[h].at = "rotating"
    /\ LET w == doing[h] IN
       /\ Revoke(w.by, w.token)
       /\ tokens' = Append(tokens, Issued(tokens[w.token].of, tokens[w.token].root))
       /\ gone' = gone \cup {w.token}
       /\ doubtful' = IF Reaches(w.by) THEN doubtful ELSE doubtful \cup {w.token}
    /\ End(h)
    /\ UNCHANGED row

LogOut(h, p, t) ==
    /\ account.id = tokens[t].of
    /\ Begin(h, Resting)
    /\ Revoke(p, t)
    /\ gone' = gone \cup {t}
    /\ doubtful' = IF Reaches(p) /\ Presented(t) = {} THEN doubtful ELSE doubtful \cup {t}
    /\ UNCHANGED <<row, tokens>>

RedisLost ==
    /\ redis /\ outages < MaxOutages
    /\ redis' = FALSE /\ outages' = outages + 1
    /\ UNCHANGED <<row, tokens, denied, cooling, doing, asked, history>>

RedisBack ==
    /\ ~redis /\ redis' = TRUE
    /\ UNCHANGED <<row, tokens, denied, cooling, doing, asked, outages, history>>

AskAgain(p) ==
    /\ p \in cooling /\ cooling' = cooling \ {p}
    /\ UNCHANGED <<row, tokens, denied, redis, doing, asked, outages, history>>

Next ==
    \/ \E h \in Handlers :
          \/ Google(h) \/ Save(h) \/ Rotate(h)
          \/ \E p \in Passwords :
                \/ SignUp(h, p) \/ LogIn(h, p) \/ Reset(h, p) \/ Delete(h, p)
                \/ \E old \in Passwords : Change(h, old, p)
          \/ \E p \in Processes, t \in DOMAIN tokens : Refresh(h, p, t) \/ LogOut(h, p, t)
    \/ RedisLost \/ RedisBack
    \/ \E p \in Processes : AskAgain(p)

Spec == Init /\ [][Next]_vars
-----------------------------------------------------------------------------
(* Properties *)

Session(t) == {u \in DOMAIN tokens : tokens[u].root = tokens[t].root}

\* "The presented token is single-use" (auth/routes.py:232): a session has at
\* most one token that has neither been exchanged nor signed out, and none once
\* its last is; unless Redis could not be asked or told of one of them, or two
\* requests presented one at the same time.
OneTokenEach ==
    \A t \in DOMAIN tokens :
        Session(t) \cap doubtful = {} => Cardinality(Session(t) \ gone) <= 1

\* The password is the one that was set last, by its owner, whatever sign-ins
\* have made of its hash; unless a request saved one over another it had not
\* read, as a sign-in does that is hashing anew while the password is changed.
PasswordKept ==
    account # NoAccount /\ ~mixed => account.hash.of = chosen
=============================================================================
