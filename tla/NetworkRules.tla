---------------------------- MODULE NetworkRules ----------------------------
(* The rules every network document passes (validation.rs of the network      *)
(* engine): the rows are judged one after the other, against what the rows    *)
(* before them left behind, and normalised on the way.  The operator edits a  *)
(* document row by row; every document on the way is judged.                  *)
EXTENDS Integers, Sequences

CONSTANTS NrBits,     \* width of an address (32)
          NrPrefixes, \* prefixes that are accepted (8 to 30)
          NrHosts,    \* addresses that the operator tries
          NrGateways, \* gateways that the operator tries
          NrRows      \* rows of a document

NrAddresses == 0 .. 2 ^ NrBits - 1
\* How many addresses agree in a prefix.
NetSize(prefix) == 2 ^ (NrBits - prefix)

\* The powers of two are numbers, and every prefix has addresses to tell apart.
ASSUME NrAssumption ==
    /\ NrRows \in Nat \ {0} /\ NrPrefixes \subseteq Nat
    /\ NrHosts \subseteq NrAddresses /\ NrGateways \subseteq NrAddresses
    /\ \A prefix \in NrPrefixes : NetSize(prefix) \in Nat \ {0}

VARIABLES vDoc,   \* the document: rows, and the row that has the management role
          vTried  \* (bound) rows written so far

nrVars == <<vDoc, vTried>>
-----------------------------------------------------------------------------
\* 0.0.0.0/8, loopback, link-local, multicast and above: here the last quarter.
Unicast(a) == a # 0 /\ a < 3 * 2 ^ (NrBits - 2)

\* subnet: the lowest and the highest address.
Subnet(a, prefix) ==
    LET low == a - (a % NetSize(prefix))
    IN [low |-> low, high |-> low + NetSize(prefix) - 1]

\* A row: the tag (0 for the port itself), and 0 for no gateway.
NrRowsOf == [tag : 0 .. 1, mode : {"dhcp", "static"}, address : NrHosts \cup {0},
             prefix : NrPrefixes \cup {0}, gateway : NrGateways \cup {0}]

NrTypeOK ==
    /\ vDoc.rows \in Seq(NrRowsOf) /\ Len(vDoc.rows) <= NrRows
    /\ vDoc.management \in 1 .. NrRows /\ vTried \in 0 .. NrRows

\* Are two networks in each other's way?
StartsInside(a, b) == b.low <= a.low /\ a.low <= b.high    \* mutant of Overlaps
Overlaps(a, b) == a.low <= b.high /\ b.low <= a.high

\* A row with a lease keeps nothing of the static row it may have been.
Normalised(row) == IF row.mode = "dhcp" THEN [row EXCEPT !.address = 0, !.prefix = 0, !.gateway = 0]
                   ELSE row

\* `subnets`, when row i is judged: those of the static rows before it.
Before(rows, i) ==
    {Subnet(rows[j].address, rows[j].prefix) :
        j \in {k \in 1 .. i - 1 : rows[k].mode = "static" /\ rows[k].prefix \in NrPrefixes}}

\* One static row, with the subnets of the rows before it.
GoodStatic(row, management, subnets) ==
    LET net == Subnet(row.address, row.prefix)
    IN /\ row.prefix \in NrPrefixes
       /\ Unicast(row.address) /\ row.address \notin {net.low, net.high}
       /\ \A other \in subnets : ~Overlaps(net, other)
       /\ row.gateway # 0 =>
             /\ net.low <= row.gateway /\ row.gateway <= net.high
             /\ Unicast(row.gateway) /\ row.gateway \notin {row.address, net.low, net.high}
             /\ management

\* validate: the rows in their order, normalised, and whether there was no error.
Judged(rows, management, i) ==
    /\ \A j \in 1 .. i - 1 : rows[j].tag # rows[i].tag
    /\ rows[i].mode = "static" => GoodStatic(rows[i], management = i, Before(rows, i))
Validate(doc) ==
    LET rows == [i \in DOMAIN doc.rows |-> Normalised(doc.rows[i])]
    IN [ok |-> /\ rows # <<>> /\ doc.management \in DOMAIN rows
               /\ \A i \in DOMAIN rows : Judged(rows, doc.management, i),
        rows |-> rows]
-----------------------------------------------------------------------------
NrInit == vDoc = [rows |-> <<>>, management |-> 1] /\ vTried = 0

\* The operator adds a row; a static row may later become one with a lease, and
\* the management role may move.
AddRow(row) ==
    /\ vTried < NrRows
    /\ vDoc' = [vDoc EXCEPT !.rows = Append(@, row)]
    /\ vTried' = vTried + 1
TakeLease(i) ==
    /\ vDoc.rows[i].mode = "static"
    /\ vDoc' = [vDoc EXCEPT !.rows[i].mode = "dhcp"]
    /\ UNCHANGED vTried
MoveManagement(i) == vDoc' = [vDoc EXCEPT !.management = i] /\ UNCHANGED vTried

NrNext ==
    \/ \E row \in NrRowsOf : row.mode = "static" /\ AddRow(row)
    \/ \E i \in DOMAIN vDoc.rows : TakeLease(i) \/ MoveManagement(i)
-----------------------------------------------------------------------------
\* What `low` and `high` stand for: the addresses that agree in the prefix.
NrNetwork(row) == {a \in NrAddresses :
                     a \div NetSize(row.prefix) = row.address \div NetSize(row.prefix)}

\* In a document that is accepted no address belongs to two of its networks, in
\* whatever order the rows come and whichever network is the larger one: the
\* media guards and the routes tell the networks apart by nothing else.
NetworksDisjoint ==
    LET v == Validate(vDoc)
    IN v.ok => \A i, j \in DOMAIN v.rows :
                 i # j /\ v.rows[i].mode = "static" /\ v.rows[j].mode = "static" =>
                    NrNetwork(v.rows[i]) \cap NrNetwork(v.rows[j]) = {}

\* In a document that is accepted only the network of the management role has a
\* gateway, and one that it can reach; also when a row was static before, or the
\* role has moved.
OnlyManagementRoutes ==
    LET v == Validate(vDoc)
    IN v.ok => \A i \in DOMAIN v.rows : v.rows[i].gateway # 0 =>
                 i = vDoc.management /\ v.rows[i].gateway \in NrNetwork(v.rows[i]) \ {v.rows[i].address}

\* What an accepted network document promises.
RulesPromises == NrTypeOK /\ NetworksDisjoint /\ OnlyManagementRoutes
=============================================================================
