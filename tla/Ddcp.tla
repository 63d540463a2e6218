-------------------------------- MODULE Ddcp --------------------------------
(***************************************************************************)
(* The data collection protocol (ddcp.c): a router floods a query over the *)
(* interfaces enabled for DDCP, every router that has not seen it yet      *)
(* floods it on and sends its data to the originator, which keeps the      *)
(* latest reply of every router.  A query waits in the receive queue of    *)
(* the process, a stack; a reply is routed and may be lost or overtaken.   *)
(* A command, a job and the receipt of a packet are one step each.         *)
(***************************************************************************)
EXTENDS Naturals, SequencesExt

CONSTANTS
  Routers, Ports,   \* routers, and their interfaces
  Owner, Peer,      \* per interface, its router and the other end of its link
  Askers,           \* the routers that send queries
  Disabled,         \* interfaces not enabled for DDCP at first
  Switched,         \* interfaces that are enabled and disabled later
  Readdressed,      \* routers whose number of addresses changes
  MaxQueries, MaxCommands, MaxLosses  \* bounds

VARIABLES
  enabled,  \* interfaces enabled for DDCP
  seen,     \* per router, ddcp_query_head: originator -> latest seq_no
  timed,    \* routers whose periodic query timer runs
  wire,     \* queries on their way, the next one to be served first
  mail,     \* replies on their way
  replies,  \* per router, ddcp_reply_head, the latest first
  size,     \* per router, the length of its reply
  died,     \* "no", "assert" or "badFree"
  handled,  \* per router, the queries it has answered
  queries, commands, losses

vars == <<enabled, seen, timed, wire, mail, replies, size, died, handled, queries,
          commands, losses>>

Init ==
  /\ enabled = Ports \ Disabled /\ seen = [r \in Routers |-> << >>] /\ timed = {}
  /\ wire = << >> /\ mail = {} /\ replies = [r \in Routers |-> << >>]
  /\ size = [r \in Routers |-> 1] /\ died = "no" /\ handled = [r \in Routers |-> << >>]
  /\ queries = 0 /\ commands = 0 /\ losses = 0

------------------------------------------------------------------------------
(* Queries *)

\* ddcp_flood_ddcp_query_out, ddcp_send_ddcp_query_out: each copy goes in front
Flood(w, r, except, q) ==
  LET outs == SetToSeq({p \in enabled \ {except} : Owner[p] = r})
  IN [k \in DOMAIN outs |-> [at |-> Peer[outs[k]], q |-> q]] \o w

Knows(r, o) == o \in DOMAIN seen[r]

\* The latest query of o that r knows is number seq.
Note(r, o, seq) ==
  seen' = [seen EXCEPT ![r] = [x \in DOMAIN @ \cup {o} |-> IF x = o THEN seq ELSE @[x]]]

\* ddcp_update_ddcp_db_self_query_info: a router's first query is number 0
NextSeq(r) == IF Knows(r, r) THEN seen[r][r] + 1 ELSE 0
SelfQuery(r) == Note(r, r, NextSeq(r))

May == died = "no" /\ queries < MaxQueries /\ queries' = queries + 1

Ask(r) ==
  /\ SelfQuery(r) /\ wire' = Flood(wire, r, "none", [from |-> r, seq |-> NextSeq(r)])
  /\ UNCHANGED <<enabled, mail, replies, size, died, handled, commands, losses>>

\* ddcp_trigger_default_ddcp_query, at once
Query(r) == May /\ Ask(r) /\ UNCHANGED timed

\* ... and with an interval: the number is taken, nothing is sent before the
\* timer fires.  A second command does not start a second timer.
QueryPeriodic(r) ==
  /\ May /\ SelfQuery(r) /\ timed' = timed \cup {r}
  /\ UNCHANGED <<enabled, wire, mail, replies, size, died, handled, commands, losses>>

\* wrapper_ddcp_flood_ddcp_query_out
QueryTimer(r) == r \in timed /\ May /\ Ask(r) /\ UNCHANGED timed

\* ddcp_db_should_process_ddcp_query
Fresh_always(r, q) == TRUE  \* mutant
Fresh(r, q) == ~Knows(r, q.from) \/ seen[r][q.from] < q.seq

\* ddcp_process_ddcp_query_msg: the reply is made, the query flooded on, and
\* the reply sent to the originator.
RecvQuery ==
  /\ died = "no" /\ wire # << >>
  /\ LET p == Head(wire).at
         q == Head(wire).q
         r == Owner[p]
         self == q.from = r /\ ~Knows(r, r)
     IN /\ died' = IF p \in enabled /\ self THEN "assert" ELSE died
        /\ IF p \notin enabled \/ self \/ ~Fresh(r, q)
           THEN wire' = Tail(wire) /\ UNCHANGED <<seen, mail, handled>>
           ELSE /\ wire' = Flood(Tail(wire), r, p, q)
                /\ Note(r, q.from, q.seq)
                /\ mail' = mail \cup {[to |-> q.from, by |-> r, seq |-> q.seq, size |-> size[r]]}
                /\ handled' = [handled EXCEPT ![r] = Append(@, q)]
  /\ UNCHANGED <<enabled, timed, replies, size, queries, commands, losses>>

------------------------------------------------------------------------------
(* Replies *)

Stored(r, m) == {k \in DOMAIN replies[r] : replies[r][k].by = m.by}

\* ddcp_add_or_update_ddcp_reply_msg: an older reply is replaced.  One of
\* another size is freed first, with the size of its payload in place of that
\* of its buffer (ddcp_update_ddcp_reply_from_ddcp_tlv).
Older(r, k, m) == replies[r][k].seq < m.seq
RecvReply(m) ==
  /\ died = "no" /\ mail' = mail \ {m}
  /\ IF Stored(m.to, m) = {}
     THEN replies' = [replies EXCEPT ![m.to] = <<m>> \o @] /\ UNCHANGED died
     ELSE LET k == Min(Stored(m.to, m))
          IN IF ~Older(m.to, k, m) THEN UNCHANGED <<replies, died>>
             ELSE IF replies[m.to][k].size # m.size THEN died' = "badFree" /\ UNCHANGED replies
             ELSE replies' = [replies EXCEPT ![m.to][k] = m] /\ UNCHANGED died
  /\ UNCHANGED <<enabled, seen, timed, wire, size, handled, queries, commands, losses>>

LoseReply(m) ==
  /\ losses < MaxLosses /\ losses' = losses + 1 /\ mail' = mail \ {m}
  /\ UNCHANGED <<enabled, seen, timed, wire, replies, size, died, handled, queries, commands>>

------------------------------------------------------------------------------
(* Commands *)

Commands == /\ died = "no" /\ commands < MaxCommands /\ commands' = commands + 1
            /\ UNCHANGED <<seen, timed, wire, mail, replies, died, handled, queries, losses>>

\* ddcp_handler: [no] protocol ddcp interface ...
Switch(p) ==
  /\ Commands /\ UNCHANGED size
  /\ enabled' = IF p \in enabled THEN enabled \ {p} ELSE enabled \cup {p}

\* An address is configured on an interface, or removed (layer3.c): the reply
\* lists one more or one less.
Readdress(r) == Commands /\ size' = [size EXCEPT ![r] = 3 - @] /\ UNCHANGED enabled

Next ==
  \/ \E r \in Askers : Query(r) \/ QueryPeriodic(r) \/ QueryTimer(r)
  \/ RecvQuery
  \/ \E m \in mail : RecvReply(m) \/ LoseReply(m)
  \/ \E p \in Switched : Switch(p)
  \/ \E r \in Readdressed : Readdress(r)

Spec == Init /\ [][Next]_vars

------------------------------------------------------------------------------
(* Properties *)

\* The enabled links lead out of no set of routers that is closed; a router is
\* connected to o if every such set with o has it.
Closed(S) == \A p \in enabled : Peer[p] \in enabled /\ Owner[p] \in S => Owner[Peer[p]] \in S
Connected(o) == {r \in Routers : \A S \in SUBSET Routers : o \in S /\ Closed(S) => r \in S}

Sent(o, seq) == Knows(o, o) /\ seq <= seen[o][o]

\* A query is answered at most once by a router, and later ones never before
\* earlier ones, although floods meet and overtake each other; no router
\* answers its own.  When no query is on its way and interfaces have not been
\* switched, every router that the enabled interfaces connect to the
\* originator has answered the last query sent.
FloodSound ==
  /\ died # "assert"
  /\ \A r \in Routers : \A j, k \in DOMAIN handled[r] :
       /\ handled[r][k].from # r
       /\ j < k /\ handled[r][j].from = handled[r][k].from => handled[r][j].seq < handled[r][k].seq
  /\ (wire = << >> /\ commands = 0) =>
       \A o \in Askers \ timed : Knows(o, o) =>
         \A r \in Connected(o) \ {o} : Knows(r, o) /\ seen[r][o] = seen[o][o]

\* The originator keeps one reply of each router: the latest it was given, of a
\* query it sent, whatever order replies arrive in.  The process dies when it
\* replaces a reply of another length, and only then.
RepliesSound ==
  /\ died = "badFree" => commands > 0
  /\ \A o \in Routers : \A j, k \in DOMAIN replies[o] :
       /\ j # k => replies[o][j].by # replies[o][k].by
       /\ Sent(o, replies[o][k].seq) /\ replies[o][k].to = o
       /\ losses = 0 /\ died = "no" =>
            \A q \in Range(handled[replies[o][k].by]) : q.from = o =>
              \/ q.seq <= replies[o][k].seq
              \/ \E m \in mail : m.to = o /\ m.by = replies[o][k].by /\ m.seq = q.seq

\* Queries reach everyone once, and what the originator keeps is right.
DdcpSound == FloodSound /\ RepliesSound
=============================================================================
