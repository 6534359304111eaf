------------------------------ MODULE PtpQueries ------------------------------
(***************************************************************************)
(* PtpInstance with the run of pmc inside PtpInstance::snapshot            *)
(* (src/ptp_proto/instance.rs) taken apart: ptp4l answers the requests of  *)
(* pmc one at a time, in any order, some not, some twice or not in the     *)
(* expected form, while its port changes state and it may exit; what pmc   *)
(* has printed by the time it ends goes through parse_pmc_output.          *)
(***************************************************************************)
EXTENDS PtpInstance, PmcOutput, FiniteSets

CONSTANTS
    PortStates,  \* the states the port of a ptp4l goes through
    Missable,    \* bound: the keys that an answer may lack
    Fragile,     \* bound: the keys whose value may be junk
    MaxBlocks    \* bound: the answers that pmc prints in one run

ASSUME QueryAssumption == "SLAVE" \in PortStates /\ MaxBlocks \in Nat

VARIABLES
    port,     \* the state of the port of each instance's ptp4l
    text,     \* what the run of pmc has printed so far
    wasSlave  \* history: the port has been SLAVE at some time in this query

queryVars == <<port, text, wasSlave>>
vars == <<instanceVars, queryVars>>

QueriesInit ==
    /\ InstanceInit
    /\ port \in [Instances -> PortStates]
    /\ text = [i \in Instances |-> <<>>]
    /\ wasSlave = [i \in Instances |-> FALSE]

-----------------------------------------------------------------------------
(* ptp4l *)

\* The answer to a request: every field, with a value that its type parses.
Whole(kind, state) ==
    LET value(key, type) ==
            CASE key = "portState" -> state
              [] type = "flag" -> "true"
              [] OTHER -> type
    IN  <<Noise, Header(kind)>> \o
            [n \in DOMAIN Fields[kind] |->
                Field(Fields[kind][n][1], value(Fields[kind][n][1], Fields[kind][n][2]))]

Lacks(block, key) == {RemoveAt(block, n) : n \in {m \in DOMAIN block : IsField(block[m], key)}}
Garbles(block, key) ==
    [n \in DOMAIN block |-> IF IsField(block[n], key) THEN Field(key, "junk") ELSE block[n]]

Answers == [state \in PortStates |->
    LET whole == {Whole(kind, state) : kind \in Datasets}
        lacking == UNION {Lacks(b, key) : b \in whole, key \in Missable}
    IN  whole \cup lacking
              \cup {Garbles(b, key) : b \in whole, key \in Fragile}
              \cup {<<Header("other"), Field("portState", "junk")>>}]

PrintedBlocks(i) == Cardinality({n \in DOMAIN text[i] : text[i][n].line = "header"})

Answer(i) ==
    /\ query[i] = "pmc" /\ alive[i] # {}
    /\ PrintedBlocks(i) < MaxBlocks
    /\ \E block \in Answers[port[i]] : text' = [text EXCEPT ![i] = @ \o block]
    /\ UNCHANGED <<instanceVars, port, wasSlave>>

PortMoves(i) ==
    /\ alive[i] # {}
    /\ \E state \in PortStates \ {port[i]} : port' = [port EXCEPT ![i] = state]
    /\ wasSlave' = [wasSlave EXCEPT ![i] = @ \/ (query[i] = "pmc" /\ port'[i] = "SLAVE")]
    /\ UNCHANGED <<instanceVars, text>>

-----------------------------------------------------------------------------
(* pmc ends *)

\* Whatever the end of the call, the output is gone with it.
Ends(i) ==
    /\ text' = [text EXCEPT ![i] = <<>>]
    /\ wasSlave' = [wasSlave EXCEPT ![i] = FALSE]
    /\ UNCHANGED <<phase, config, process, spawned, alive, unkilled, faults, port>>

\* It could not be run, or what it printed is not UTF-8.
PmcBreaks(i) ==
    /\ query[i] = "pmc"
    /\ \E r \in {"Io", "Unusable"} : Fails(i, r)
    /\ Ends(i)

PmcRefuses(i) ==
    /\ query[i] = "pmc"
    /\ query' = [query EXCEPT ![i] = "CommandFailed"]
    /\ UNCHANGED result
    /\ Ends(i)

BlamesAtOnce(i, parsed) ==
    /\ parsed.error = "MissingDataset"
    /\ query' = [query EXCEPT ![i] = "idle"]
    /\ Returns(i, "NotReady")
Misses(i, parsed) ==
    /\ parsed.error = "MissingDataset"
    /\ query' = [query EXCEPT ![i] = "NotReady"]
    /\ UNCHANGED result

Verdict(parsed) ==
    IF parsed.error # "none" THEN "Unusable"
    ELSE IF IsSynchronized(parsed) THEN "Synchronized" ELSE "Unsynchronized"

PmcParsed(i) ==
    /\ query[i] = "pmc"
    /\ LET parsed == ParsePmcOutput(text[i])
       IN  \/ Misses(i, parsed)
           \/ /\ parsed.error # "MissingDataset"
              /\ query' = [query EXCEPT ![i] = "idle"]
              /\ Returns(i, Verdict(parsed))
    /\ Ends(i)

-----------------------------------------------------------------------------

\* A call that begins a query; the other calls of PtpInstance, which do not
\* concern pmc.
Begins(i) ==
    /\ Snapshot(i)
    /\ wasSlave' =
           [wasSlave EXCEPT ![i] = query'[i] = "pmc" /\ port[i] = "SLAVE"]
    /\ UNCHANGED <<port, text>>

Others(i) ==
    /\ \/ New(i) \/ NewFails(i) \/ Start(i) \/ StartFails(i) \/ Stop(i) \/ Drop(i)
       \/ Recheck(i) \/ ChildExits(i)
    /\ UNCHANGED queryVars

QueriesNext ==
    \E i \in Instances :
        \/ Begins(i) \/ Answer(i) \/ PortMoves(i)
        \/ PmcBreaks(i) \/ PmcRefuses(i) \/ PmcParsed(i) \/ Others(i)

QueriesSpec == QueriesInit /\ [][QueriesNext]_vars

-----------------------------------------------------------------------------
(* Properties *)

\* A snapshot is returned exactly when pmc has printed one complete answer for each
\* of the three datasets, in whatever order and between whatever other lines; a
\* missing, damaged or repeated answer never becomes a snapshot (the returns of
\* parse_pmc_output, state.rs:235-283).
\* "ptp4l is still initializing" (NotReady, instance.rs:463), which ptp-syncd waits
\* out, is said of silence only: some dataset has not been answered, and every answer
\* there is, is complete and the only one.
QueryEnds(i) == query[i] = "pmc" /\ query'[i] # "pmc"
WholeAnswers ==
    [][\A i \in Instances : QueryEnds(i) =>
         /\ PmcParsed(i) =>
                ((query'[i] = "idle" /\ result'[i] \in Snapshots)
                     <=> \A kind \in Datasets : AnsweredOnce(text[i], kind))
         /\ query'[i] = "NotReady" =>
                /\ \E kind \in Datasets : HeadersOf(text[i], kind) = {}
                /\ \A kind \in Datasets :
                       HeadersOf(text[i], kind) # {} => AnsweredOnce(text[i], kind)]_vars

\* The documentation of PtpSnapshot: "If an answer was not returned for a given dataset
\* request from `pmc`, it will be represented as `None`".  Answers that are all whole
\* make a snapshot, also when there are fewer than three.
MissingIsNone ==
    [][\A i \in Instances :
         /\ PmcParsed(i)
         /\ \A kind \in Datasets : HeadersOf(text[i], kind) # {} => AnsweredOnce(text[i], kind)
         => query'[i] = "idle" /\ result'[i] \in Snapshots]_vars

\* A snapshot that says "synchronized" tells of a port that was SLAVE at some time
\* since the call began, although the port goes on changing state between the
\* answers and ptp4l may be gone when the snapshot is returned.
SynchronizedWasTrue ==
    [][\A i \in Instances :
         QueryEnds(i) /\ query'[i] = "idle" /\ result'[i] = "Synchronized"
             => wasSlave[i]]_vars

\* What the callers of an instance are told (PtpInstance, and PtpSyncd above it) is
\* all that the run of pmc and the parser of its output can do.
RefinesPtpInstance == InstanceSpec
===============================================================================
