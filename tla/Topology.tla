------------------------------- MODULE Topology -------------------------------
(***************************************************************************)
(* What a connection knows of the hosts of its database: the locations of  *)
(* lib/protocol/ConnectionTopology.js (SystemInfo), kept up to date by the *)
(* topology records that replies carry (Connection._updateTopology), until *)
(* something in them says that they cannot be used.                        *)
(*                                                                         *)
(* The list of locations is a set: nothing depends on its order.           *)
(***************************************************************************)
EXTENDS Naturals, Sequences

CONSTANTS
  Addresses,          \* the address texts that records may hold, taken apart: see AddressOK
  Lower,              \* toLowerCase() of the names of hosts
  Ports,              \* port numbers that records may hold
  VolumeIds,          \* volume ids that records may hold; the upper bits name a site
  INVALID_VOLUME_ID,  \* all bits of a volume id without the site: 2^20 - 1
  MaxPort,            \* 65535
  Roles,              \* service types and coordinator flags
  connectPort,        \* the port this connection was opened with
  NoHost, NoPort, NoVolume, \* a record without a host, a port, a volume id
  MaxRecords          \* bound on the records of one reply

\* An address text: in brackets or not, a name with or without colons, with or
\* without a port behind a last colon.  The port is 0 when there is none.
AddressOK(a) ==
  /\ a.bracket \in {"none", "open", "closed"}
  /\ a.name \in DOMAIN Lower /\ a.colons \in BOOLEAN /\ a.clean \in BOOLEAN
  /\ a.port \in Nat /\ a.portClean \in BOOLEAN

ASSUME TopologyAssumption ==
  /\ \A a \in Addresses : AddressOK(a)
  /\ \A n \in DOMAIN Lower : Lower[n] \in DOMAIN Lower
  /\ Ports \subseteq Nat /\ VolumeIds \subseteq Nat
  /\ NoHost \notin Addresses /\ NoPort \notin Nat /\ NoVolume \notin Nat
  /\ INVALID_VOLUME_ID \in Nat /\ MaxPort \in Nat /\ MaxRecords \in Nat

VARIABLES
  ignoreTopology,  \* why topology records are ignored, or "NOT IGNORING"
  locations,       \* _systemInfo._locations
  announced        \* the records of the last update that could be used (history)

topologyVars == <<ignoreTopology, locations, announced>>

Reasons == {"REQUESTED", "INVALID TOPOLOGY", "PORT FORWARDING"}

-----------------------------------------------------------------------------
(* Reading a record *)

\* splitAddressStr.  Behind an IPv6 address without brackets no port is recognised:
\* what follows the last colon belongs to the address.
Swallows(a) == a.bracket = "none" /\ a.colons
HasPort(a) == a.port # 0 /\ ~Swallows(a)
SplitAddress(a) ==
  [valid |-> /\ a.clean
             /\ a.bracket # "open"
             /\ HasPort(a) => a.portClean /\ a.port <= MaxPort,
   host  |-> IF Swallows(a) THEN <<a.name, a.port>> ELSE <<a.name, 0>>,
   port  |-> IF HasPort(a) THEN a.port ELSE 0]

\* TopologyUpdateRecord: a record of the reply, the volume id without its site.
Volume(r) == IF r.volumeId = NoVolume THEN NoVolume ELSE r.volumeId % (INVALID_VOLUME_ID + 1)

\* The port of a record: the one in its host text takes precedence.
RecordPort(r) ==
  LET parsed == SplitAddress(r.host).port IN IF parsed = 0 THEN r.port ELSE parsed

\* validateAndUpdate: the range of a port is tested, whether there is one is not.
Addressable(r) ==
  /\ r.host # NoHost
  /\ SplitAddress(r.host).valid
  /\ RecordPort(r) = NoPort \/ RecordPort(r) \in 1..MaxPort
Forwarded(r) == r.isOwn /\ RecordPort(r) # connectPort
FailureReason(r) ==
  CASE ~Addressable(r)                 -> "INVALID TOPOLOGY"
    [] Addressable(r) /\ Forwarded(r)  -> "PORT FORWARDING"
    [] Addressable(r) /\ ~Forwarded(r) -> "NOT IGNORING"

\* Location.constructor and Location.update give a location the same host, port and role.
Location(r) ==
  [volumeId |-> Volume(r),
   host     |-> <<Lower[SplitAddress(r.host).host[1]], SplitAddress(r.host).host[2]>>,
   port     |-> RecordPort(r),
   role     |-> r.role]

-----------------------------------------------------------------------------
(* An update *)

\* addOrUpdateTopology: two own records, none, an invalid volume id, or one twice.
BadTopology(records) ==
  \/ \E i, j \in DOMAIN records : i # j /\ records[i].isOwn /\ records[j].isOwn
  \/ \E i, j \in DOMAIN records : i # j /\ Volume(records[i]) = Volume(records[j])
  \/ \E i \in DOMAIN records : Volume(records[i]) = INVALID_VOLUME_ID
  \/ ~\E i \in DOMAIN records : records[i].isOwn

\* Faulty variant: the volume ids of records are compared with their site.
RecordsWithSite(records, l) == {i \in DOMAIN records : records[i].volumeId = l.volumeId}

RecordsOf(records, l) == {i \in DOMAIN records : Volume(records[i]) = l.volumeId}

\* _updateTopology: the location with the volume id of a record takes its values.
Replaced(records) == {Location(records[i]) : i \in UNION {RecordsOf(records, l) : l \in locations}}

\* A record without a volume id makes a location with the invalid one, which the same
\* update removes again.
Inserted(records) ==
  {Location(records[i]) : i \in {k \in DOMAIN records :
     Volume(records[k]) # NoVolume /\ \A l \in locations : l.volumeId # Volume(records[k])}}

\* Locations that no record names are removed.
addOrUpdateTopology(records) ==
  locations' = IF BadTopology(records) THEN {} ELSE Replaced(records) \cup Inserted(records)

Failing(records) == {i \in DOMAIN records : FailureReason(records[i]) # "NOT IGNORING"}

\* What an update has to be for the client to use it, said without the order of the checks.
Usable(records) ==
  /\ \A i \in DOMAIN records : Addressable(records[i]) /\ ~Forwarded(records[i])
  /\ \E own \in DOMAIN records : \A i \in DOMAIN records : records[i].isOwn <=> i = own
  /\ \A i, j \in DOMAIN records : Volume(records[i]) = Volume(records[j]) => i = j
  /\ \A i \in DOMAIN records : Volume(records[i]) # INVALID_VOLUME_ID

\* _updateTopology: the first record that cannot be used decides.
UpdateTopology(records) ==
  IF records = <<>> \/ ignoreTopology # "NOT IGNORING" THEN UNCHANGED topologyVars
  ELSE /\ announced' = IF Usable(records) THEN {records[i] : i \in DOMAIN records} ELSE announced
       /\ \/ /\ \E i \in Failing(records) :
                 (\A j \in Failing(records) : i <= j) /\ ignoreTopology' = FailureReason(records[i])
             /\ UNCHANGED locations
          \/ /\ Failing(records) = {}
             /\ addOrUpdateTopology(records)
             /\ ignoreTopology' = IF BadTopology(records) THEN "INVALID TOPOLOGY" ELSE "NOT IGNORING"

-----------------------------------------------------------------------------
(* The topology of one connection, as the server reports it from time to time *)

Records ==
  [host : Addresses \cup {NoHost}, port : Ports \cup {NoPort}, volumeId : VolumeIds \cup {NoVolume},
   isOwn : BOOLEAN, role : Roles]
UpdateLists == UNION {[1..n -> Records] : n \in 0..MaxRecords}

TopologyInit ==
  /\ ignoreTopology \in {"NOT IGNORING", "REQUESTED"}
  /\ locations = {} /\ announced = {}
TopologyNext == \E records \in UpdateLists : UpdateTopology(records)
TopologySpec == TopologyInit /\ [][TopologyNext]_topologyVars

TopologyTypeOK ==
  /\ ignoreTopology \in Reasons \cup {"NOT IGNORING"}
  /\ announced \subseteq Records
  /\ \A l \in locations : /\ l.volumeId \in 0..(INVALID_VOLUME_ID - 1)
                          /\ l.port \in (1..MaxPort) \cup {NoPort} /\ l.role \in Roles

\* While the topology is not ignored, the locations are those of the last update that the
\* server sent, one per volume, whatever updates came before it and in which state they
\* left the list; once it is ignored, they are still those, or none.
\* (lib/protocol/ConnectionTopology.js:197)
LocationsFollowServer ==
  LET named == {Location(r) : r \in {a \in announced : Volume(a) # NoVolume}} IN
  /\ \A l, m \in locations : l.volumeId = m.volumeId => l = m
  /\ ignoreTopology = "NOT IGNORING" => locations = named
  /\ locations \in {{}, named}
===============================================================================
