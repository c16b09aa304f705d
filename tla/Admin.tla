-------------------------------- MODULE Admin --------------------------------
(* pkg/wgadmin under the commands provision-url and revoke-url: operators    *)
(* add and remove peers in the server's wg-quick file and bring the live     *)
(* interface in line with it.  The file is a sequence of lines, read and     *)
(* written as parseConf and writeConf do it.  Operators exclude each other   *)
(* (Server.mu within a process, the file lock its documentation asks for     *)
(* between processes) and may die at any point.                              *)
EXTENDS Integers, Sequences

CONSTANTS Admins,      \* operators
          Names,       \* names of clients
          Confs,       \* the files the deployment may start from
          Size,        \* addresses in Subnet: 0 (network) to Size - 1 (broadcast)
          ServerAddr,  \* ServerAddress
          Nobody

VARIABLES conf,   \* the file at ConfPath
          live,   \* the peers of the interface: a set of [key, ips]
          lock,   \* who holds the lock
          pc,     \* per operator: where it is
          cmd,    \* per operator: its command, "provision" or "revoke", or "none"
          todo,   \* per operator: the names still to do
          state,  \* per operator: the confState it has read and changed
          made,   \* per operator: the profile to hand out
          keys,   \* key pairs so far
          urls,   \* history: the profiles printed as URLs
          gone,   \* history: keys of revoked peers
          stale   \* history: the last change of the file has not reached the interface

adminvars == <<conf, live, lock, pc, cmd, todo, state, made, keys, urls, gone, stale>>
-----------------------------------------------------------------------------
(* The file.  A line is [k, v]: its kind and what it says.  "private" is the *)
(* PrivateKey of [Interface]; for "ips", AllowedIPs, v is the set of single  *)
(* hosts; "bad" is an AllowedIPs list that does not parse.                   *)

Line(k, v) == [k |-> k, v |-> v]
Blank == Line("comment", 0)

\* parseConf: [Peer] opens a peer, any other section header closes it; every line goes to
\* the open peer or to the header.
ParseLine(st, l) ==
    CASE l.k = "peer" -> [st EXCEPT !.open = TRUE, !.peers = Append(@, <<l>>)]
      [] l.k = "section" -> [st EXCEPT !.open = FALSE, !.header = Append(@, l)]
      [] l.k \notin {"peer", "section"} /\ st.open ->
            [st EXCEPT !.peers[Len(st.peers)] = Append(@, l)]
      [] OTHER -> [st EXCEPT !.header = Append(@, l)]

parseConf(file) ==
    LET Read[i \in 0..Len(file)] ==
            IF i = 0 THEN [header |-> <<>>, peers |-> <<>>, open |-> FALSE]
                     ELSE ParseLine(Read[i - 1], file[i])
    IN  Read[Len(file)]

\* writeConf: the header, then one peer after the other.
writeConf(st) ==
    LET Written[i \in 0..Len(st.peers)] ==
            IF i = 0 THEN st.header ELSE Written[i - 1] \o st.peers[i]
    IN  Written[Len(st.peers)]

\* formatPeer: a blank line, which belongs to the peer before when it is read again.
formatPeer(name, key, addr) ==
    <<Blank, Line("peer", 0), Line("name", name), Line("key", key), Line("ips", {addr})>>

\* A field of a peer: the last line of that kind counts.
Field(peer, k, default) ==
    LET at == {i \in DOMAIN peer : peer[i].k = k}
    IN  IF at = {} THEN default ELSE peer[CHOOSE i \in at : \A j \in at : j <= i].v

Name(peer) == Field(peer, "name", Nobody)
Key(peer) == Field(peer, "key", 0)
Ips(peer) == Field(peer, "ips", {})

\* readState: the file needs a PrivateKey, and AllowedIPs that parse.
Readable(file) ==
    /\ \E i \in DOMAIN file : file[i].k = "private"
    /\ \A i \in DOMAIN file : file[i].k # "bad"

\* strippedConf: what the interface gets to know of a peer.
Stripped(peers) == {[key |-> Key(peers[i]), ips |-> Ips(peers[i])] : i \in DOMAIN peers}

\* existingPeerAddrs
Taken(peers) == UNION {Ips(peers[i]) : i \in DOMAIN peers}

\* A bug: only the peers provisioned here count as taken.
FreeOfNamed(peers) ==
    {a \in 1..(Size - 2) : a # ServerAddr}
        \ UNION {Ips(peers[i]) : i \in {j \in DOMAIN peers : Name(peers[j]) # Nobody}}

\* The hosts AllocateClientIP chooses the lowest of.
Free(peers) == {a \in 1..(Size - 2) : a # ServerAddr} \ Taken(peers)

\* Peers with addresses of their own, all of them for clients.
Apart(peers) ==
    \A i, j \in DOMAIN peers :
        /\ Ips(peers[i]) \subseteq 1..(Size - 2) \ {ServerAddr}
        /\ i # j => Ips(peers[i]) \cap Ips(peers[j]) = {}

\* The deployment starts from files whose peers have addresses of their own, and keys that
\* are not generated later.
ASSUME AdminAssumption ==
    /\ Size \in Nat /\ ServerAddr \in 0..(Size - 1)
    /\ Nobody \notin Admins \cup Names
    /\ \A file \in Confs :
          /\ file \in Seq({file[i] : i \in DOMAIN file})
          /\ Apart(parseConf(file).peers)
          /\ \A i \in DOMAIN file : file[i].k = "key" => file[i].v \notin Nat
-----------------------------------------------------------------------------
AdminInit ==
    /\ conf \in Confs
    /\ live = IF Readable(conf) THEN Stripped(parseConf(conf).peers) ELSE {}
    /\ lock = Nobody
    /\ pc = [a \in Admins |-> "idle"]
    /\ cmd = [a \in Admins |-> "none"]
    /\ todo = [a \in Admins |-> <<>>]
    /\ state = [a \in Admins |-> <<>>]
    /\ made = [a \in Admins |-> <<>>]
    /\ keys = 0 /\ urls = {} /\ gone = {} /\ stale = FALSE

\* runProvisionURL or runRevokeURL, with one or two names, or its next name; the command
\* line shows no effect before it has the lock.
Lock(a) ==
    /\ lock = Nobody /\ lock' = a
    /\ \/ /\ pc[a] = "idle"
          /\ \E c \in {"provision", "revoke"} : cmd' = [cmd EXCEPT ![a] = c]
          /\ \E ns \in {<<n>> : n \in Names} \cup {ms \in Names \X Names : ms[1] # ms[2]} :
                todo' = [todo EXCEPT ![a] = ns]
       \/ pc[a] = "lock" /\ UNCHANGED <<cmd, todo>>
    /\ pc' = [pc EXCEPT ![a] = "read"]
    /\ UNCHANGED <<conf, live, state, made, keys, urls, gone, stale>>

\* The operation on one name is over and the lock released.  After an error
\* provision-url stops and revoke-url goes on with the next name.
Done(a, result) ==
    /\ lock' = Nobody
    /\ state' = [state EXCEPT ![a] = <<>>]
    /\ made' = [made EXCEPT ![a] = <<>>]
    /\ IF Len(todo[a]) > 1 /\ (result = "ok" \/ cmd[a] = "revoke")
         THEN /\ pc' = [pc EXCEPT ![a] = "lock"] /\ todo' = [todo EXCEPT ![a] = Tail(@)]
              /\ UNCHANGED cmd
         ELSE /\ pc' = [pc EXCEPT ![a] = "idle"] /\ todo' = [todo EXCEPT ![a] = <<>>]
              /\ cmd' = [cmd EXCEPT ![a] = "none"]

\* readState, the checks, the keys and the address; nothing is on disk yet.
Provision(a) ==
    LET st == parseConf(conf)
        name == Head(todo[a])
        free == Free(st.peers)
    IN  /\ pc[a] = "read" /\ cmd[a] = "provision"
        /\ IF \/ ~Readable(conf)
              \/ \E i \in DOMAIN st.peers : Name(st.peers[i]) = name
              \/ free = {}
             THEN Done(a, "error") /\ UNCHANGED keys
             ELSE LET addr == CHOOSE x \in free : \A y \in free : x <= y
                  IN  /\ keys' = keys + 1
                      /\ state' = [state EXCEPT ![a] = [st EXCEPT !.peers =
                                      Append(@, formatPeer(name, keys', addr))]]
                      /\ made' = [made EXCEPT ![a] = [name |-> name, key |-> keys', addr |-> addr]]
                      /\ pc' = [pc EXCEPT ![a] = "write"]
                      /\ UNCHANGED <<lock, todo, cmd>>
        /\ UNCHANGED <<conf, live, urls, gone, stale>>

\* The first peer with the name goes.
Revoke(a) ==
    LET st == parseConf(conf)
        hits == {i \in DOMAIN st.peers : Name(st.peers[i]) = Head(todo[a])}
    IN  /\ pc[a] = "read" /\ cmd[a] = "revoke"
        /\ IF ~Readable(conf) \/ hits = {}
             THEN Done(a, "error")
             ELSE LET idx == CHOOSE i \in hits : \A j \in hits : i <= j
                  IN  /\ state' = [state EXCEPT ![a] = [st EXCEPT !.peers =
                                      SubSeq(@, 1, idx - 1) \o SubSeq(@, idx + 1, Len(@))]]
                      /\ pc' = [pc EXCEPT ![a] = "write"]
                      /\ UNCHANGED <<lock, todo, cmd, made>>
        /\ UNCHANGED <<conf, live, keys, urls, gone, stale>>

\* A bug: the file itself is truncated and written, without a temporary file.
WriteTempInPlace(a) ==
    /\ pc[a] = "write"
    /\ conf' = state[a].header
    /\ pc' = [pc EXCEPT ![a] = "rename"]
    /\ UNCHANGED <<live, lock, cmd, todo, state, made, keys, urls, gone, stale>>

\* The temporary file, written and synced to disk; an error leaves ConfPath alone.
WriteTemp(a) ==
    /\ pc[a] = "write"
    /\ \/ pc' = [pc EXCEPT ![a] = "rename"] /\ UNCHANGED <<lock, cmd, todo, state, made>>
       \/ Done(a, "error")
    /\ UNCHANGED <<conf, live, keys, urls, gone, stale>>

\* The keys of the peers that a revoke takes out of the file.
Revoked(a) ==
    LET ps == parseConf(conf).peers
    IN  IF cmd[a] = "revoke" THEN {Key(ps[i]) : i \in {j \in DOMAIN ps : Name(ps[j]) = Head(todo[a])}}
                             ELSE {}

\* A bug: the lock is released before the interface is brought in line.
RenameUnlocks(a) ==
    /\ pc[a] = "rename"
    /\ conf' = writeConf(state[a])
    /\ gone' = gone \cup Revoked(a)
    /\ pc' = [pc EXCEPT ![a] = "sync"]
    /\ lock' = Nobody /\ stale' = TRUE
    /\ UNCHANGED <<live, cmd, todo, state, made, keys, urls>>

\* The new file takes the place of the old one.
Rename(a) ==
    /\ pc[a] = "rename"
    /\ \/ /\ conf' = writeConf(state[a])
          /\ gone' = gone \cup Revoked(a)
          /\ pc' = [pc EXCEPT ![a] = "sync"]
          /\ stale' = TRUE
          /\ UNCHANGED <<lock, cmd, todo, state, made>>
       \/ Done(a, "error") /\ UNCHANGED <<conf, gone, stale>>
    /\ UNCHANGED <<live, keys, urls>>

\* A bug: the URL is printed although the interface does not know the peer.
SyncPrintsAnyway(a) ==
    /\ pc[a] = "sync"
    /\ \/ live' = Stripped(state[a].peers) /\ stale' = FALSE
       \/ UNCHANGED <<live, stale>>
    /\ Done(a, "ok")
    /\ urls' = IF cmd[a] = "provision" THEN urls \cup {made[a]} ELSE urls
    /\ UNCHANGED <<conf, keys, gone>>

\* wg syncconf with the state that was written; then the URL is printed.
Sync(a) ==
    /\ pc[a] = "sync"
    /\ \/ /\ live' = Stripped(state[a].peers) /\ stale' = FALSE /\ Done(a, "ok")
          /\ urls' = IF cmd[a] = "provision" THEN urls \cup {made[a]} ELSE urls
       \/ Done(a, "error") /\ UNCHANGED <<live, stale, urls>>
    /\ UNCHANGED <<conf, keys, gone>>

\* The process dies; the lock goes with it.
Crash(a) ==
    /\ pc[a] # "idle"
    /\ pc' = [pc EXCEPT ![a] = "idle"] /\ cmd' = [cmd EXCEPT ![a] = "none"]
    /\ todo' = [todo EXCEPT ![a] = <<>>]
    /\ state' = [state EXCEPT ![a] = <<>>]
    /\ made' = [made EXCEPT ![a] = <<>>]
    /\ lock' = IF lock = a THEN Nobody ELSE lock
    /\ UNCHANGED <<conf, live, keys, urls, gone, stale>>

AdminNext ==
    \E a \in Admins :
        \/ Lock(a) \/ Provision(a) \/ Revoke(a) \/ WriteTemp(a)
        \/ Rename(a) \/ Sync(a) \/ Crash(a)
-----------------------------------------------------------------------------
(* Properties.                                                              *)

\* No two peers of the file share an address, and none has the server's, the network's
\* or the broadcast address (AllocateClientIP, subnet.go:28-58), whatever was revoked,
\* failed or died in between and however the file has been rewritten.
AddressesApart == Apart(parseConf(conf).peers)

\* The file has the peer of profile u, with its name, key and address, and the interface
\* knows the key and the address.
Works(u) ==
    LET ps == parseConf(conf).peers
    IN  /\ \E i \in DOMAIN ps :
              Name(ps[i]) = u.name /\ Key(ps[i]) = u.key /\ Ips(ps[i]) = {u.addr}
        /\ [key |-> u.key, ips |-> {u.addr}] \in live

\* No peer of the file has the key of profile u, and once a change has reached the interface
\* no peer of the interface has it.
ShutOut(u) ==
    LET ps == parseConf(conf).peers
    IN  /\ \A i \in DOMAIN ps : Key(ps[i]) # u.key
        /\ ~stale => \A p \in live : p.key # u.key

\* A URL that was printed works until its peer is revoked, and is shut out from then on,
\* whichever commands, failed syncs and crashes come later, also when its name is
\* provisioned again (server.go:160-224, 229-256).
UrlsWork == \A u \in urls : IF u.key \in gone THEN ShutOut(u) ELSE Works(u)

\* With nobody at work and the last sync a success, the interface has exactly the peers
\* of the file: operators do not overtake each other between rename and sync
\* (server.go:205-210).
LiveFollowsConf ==
    lock = Nobody /\ ~stale /\ Readable(conf) => live = Stripped(parseConf(conf).peers)

\* The elements of a sequence at the indices I, in their order.
Pick(s, I) ==
    LET Took[i \in 0..Len(s)] ==
            IF i = 0 THEN <<>> ELSE IF i \in I THEN Append(Took[i - 1], s[i]) ELSE Took[i - 1]
    IN  Took[Len(s)]

\* Lines, comments and blank lines aside.
Said(ls) == Pick(ls, {i \in DOMAIN ls : ls[i].k # "comment"})

\* The peers without a name.
Unnamed(peers) ==
    Pick([i \in DOMAIN peers |-> Said(peers[i])], {i \in DOMAIN peers : Name(peers[i]) = Nobody})

\* What is not provisioned here.
Foreign(file) ==
    LET st == parseConf(file)
    IN  <<Said(st.header), Unnamed(st.peers)>>

\* A change of the file keeps the header and the peers it does not manage, also when
\* the process dies half way (writeState, server.go:279-314: "Crash-safe").
OthersUntouched == [][conf' # conf => Foreign(conf') = Foreign(conf)]_adminvars
=============================================================================
