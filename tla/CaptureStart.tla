----------------------------- MODULE CaptureStart -----------------------------
(***************************************************************************)
(* Starting captures on an agent: the engine selector                      *)
(* (src/internal/adapter/capture/selector.go), the steps by which          *)
(* AFPacket.Capture acquires what a ring needs (afpacket_linux.go), the    *)
(* agent-wide ring budget (afpacket.go) and the filter compiler with its   *)
(* cache (filter.go).                                                      *)
(*                                                                         *)
(* Starts come one at a time, from the transport goroutine; captures end   *)
(* at any moment, each in its own goroutine.  The mode, the platform and   *)
(* the timeouts are configuration and do not change.                       *)
(***************************************************************************)
EXTENDS Integers, FiniteSets

CONSTANTS
    Interfaces, Filters, Snaplens, \* what requests are made of
    NoFilter,    \* the empty filter, a member of Filters
    BadFilters,  \* the filters dumpcap refuses
    RingSize, RingBudget,
    MaxCache,    \* maxFilterCacheEntries
    MaxCaptures  \* bound: captures started

VARIABLES
    mode,     \* the engine the agent is configured for
    linux,    \* the AF_PACKET engine is built in
    misfit,   \* the ring's timeouts exceed the batch delay
    step,     \* where the current start is
    starts,   \* captures started so far
    requests, \* the request of each capture
    state,    \* "none", "refused", "dumpcap", "afpacket", "closed" or "ended"
    attached, \* the program each ring filters with
    rings,    \* captures whose ring is open
    used,     \* RingBudget.used
    cache     \* DumpcapFilterCompiler.cache

config == <<mode, linux, misfit>>
vars == <<config, step, starts, requests, state, attached, rings, used, cache>>

Captures == 1..MaxCaptures
Requests == [iface : Interfaces, filter : Filters, snaplen : Snaplens]
NoRequest == [iface |-> "none", filter |-> NoFilter, snaplen |-> 0]

\* The bytecode dumpcap generates depends on all of the request; without a
\* filter it is a return of the snaplen.
Program(r) == IF r.filter = NoFilter THEN <<r.snaplen>>
              ELSE <<r.iface, r.snaplen, r.filter>>

\* Mutant: the key leaves out the interface.
KeyWithoutInterface(r) == <<r.snaplen, r.filter>>

\* The cache's key.
Key(r) == <<r.iface, r.snaplen, r.filter>>

Init ==
    /\ mode \in {"dumpcap", "afpacket", "auto"}
    /\ linux \in BOOLEAN /\ misfit \in BOOLEAN
    /\ step = "idle" /\ starts = 0
    /\ requests = [c \in Captures |-> NoRequest]
    /\ state = [c \in Captures |-> "none"]
    /\ attached = [c \in Captures |-> <<>>]
    /\ rings = {} /\ used = 0 /\ cache = <<>>

request == requests[starts]

\* fallbackEligible.
FallbackEligible(e) == e \in {"unsupported", "budget", "initialize"}

\* AFPacket.Capture has failed: auto goes on with dumpcap where it may.
Fails(e) ==
    IF mode = "auto" /\ FallbackEligible(e)
    THEN step' = "dumpcap" /\ UNCHANGED state
    ELSE step' = "idle" /\ state' = [state EXCEPT ![starts] = "refused"]

-----------------------------------------------------------------------------
\* engineSelector.Capture.
Capture(r) ==
    /\ step = "idle" /\ starts < MaxCaptures
    /\ starts' = starts + 1
    /\ requests' = [requests EXCEPT ![starts + 1] = r]
    /\ step' = IF mode = "dumpcap" THEN "dumpcap" ELSE "afpacket"
    /\ UNCHANGED <<config, state, attached, rings, used, cache>>

\* The request is validated, against the ring's timeouts too.
Validate ==
    /\ step = "afpacket"
    /\ \/ ~linux /\ Fails("unsupported")
       \/ linux /\ misfit /\ Fails("invalid")
       \/ linux /\ ~misfit /\ step' = "compile" /\ UNCHANGED state
    /\ UNCHANGED <<config, starts, requests, attached, rings, used, cache>>

\* Mutant: the cache is emptied one entry too late.
StoreLate(p) ==
    LET kept == IF Cardinality(DOMAIN cache) > MaxCache THEN <<>> ELSE cache
    IN  [k \in DOMAIN kept \cup {Key(request)} |->
            IF k = Key(request) THEN p ELSE kept[k]]

\* A full cache is emptied before the program is stored.
Store(p) ==
    LET kept == IF Cardinality(DOMAIN cache) >= MaxCache THEN <<>> ELSE cache
    IN  [k \in DOMAIN kept \cup {Key(request)} |->
            IF k = Key(request) THEN p ELSE kept[k]]

\* Compile: no filter, a cached program, or dumpcap's answer, which is parsed
\* and cached.
Compile ==
    /\ step = "compile"
    /\ \/ /\ request.filter = NoFilter \/ Key(request) \in DOMAIN cache
          /\ attached' = [attached EXCEPT ![starts] =
                             IF request.filter = NoFilter THEN Program(request)
                             ELSE cache[Key(request)]]
          /\ step' = "acquire" /\ UNCHANGED <<state, cache>>
       \/ /\ request.filter # NoFilter /\ Key(request) \notin DOMAIN cache
          /\ \/ /\ request.filter \notin BadFilters
                /\ attached' = [attached EXCEPT ![starts] = Program(request)]
                /\ cache' = Store(Program(request))
                /\ step' = "acquire" /\ UNCHANGED state
             \/ Fails("filter") /\ UNCHANGED <<attached, cache>>
    /\ UNCHANGED <<config, starts, requests, rings, used>>

\* RingBudget.acquire.
Acquire ==
    /\ step = "acquire"
    /\ IF RingSize <= RingBudget - used
       THEN used' = used + RingSize /\ step' = "open" /\ UNCHANGED state
       ELSE Fails("budget") /\ UNCHANGED used
    /\ UNCHANGED <<config, starts, requests, attached, rings, cache>>

\* NewTPacket opens the ring, or the reservation is returned.
Open ==
    /\ step = "open"
    /\ \/ rings' = rings \cup {starts} /\ step' = "attach" /\ UNCHANGED <<used, state>>
       \/ used' = used - RingSize /\ Fails("initialize") /\ UNCHANGED rings
    /\ UNCHANGED <<config, starts, requests, attached, cache>>

\* Mutant: a ring that fails here is closed but its memory stays reserved.
SetUpKeepsBudget ==
    /\ step \in {"attach", "promiscuous"}
    /\ \/ step = "attach" /\ step' = "promiscuous" /\ UNCHANGED <<rings, used, state>>
       \/ /\ step = "promiscuous" /\ step' = "idle"
          /\ state' = [state EXCEPT ![starts] = "afpacket"]
          /\ UNCHANGED <<rings, used>>
       \/ /\ rings' = rings \ {starts} /\ UNCHANGED used
          /\ Fails("initialize")
    /\ UNCHANGED <<config, starts, requests, attached, cache>>

\* SetBPF and SetPromiscuous: a failure closes the ring and returns its memory;
\* after both the capture loop is started.
SetUp ==
    /\ step \in {"attach", "promiscuous"}
    /\ \/ step = "attach" /\ step' = "promiscuous" /\ UNCHANGED <<rings, used, state>>
       \/ /\ step = "promiscuous" /\ step' = "idle"
          /\ state' = [state EXCEPT ![starts] = "afpacket"]
          /\ UNCHANGED <<rings, used>>
       \/ /\ rings' = rings \ {starts} /\ used' = used - RingSize
          /\ Fails("initialize")
    /\ UNCHANGED <<config, starts, requests, attached, cache>>

\* Dumpcap.Capture starts the process, or fails.
StartDumpcap ==
    /\ step = "dumpcap"
    /\ step' = "idle"
    /\ \E s \in {"dumpcap", "refused"} : state' = [state EXCEPT ![starts] = s]
    /\ UNCHANGED <<config, starts, requests, attached, rings, used, cache>>

\* The capture loop has ended: its deferred steps, the ring first.
End(c) ==
    /\ \/ /\ state[c] = "afpacket" /\ rings' = rings \ {c} /\ UNCHANGED used
          /\ state' = [state EXCEPT ![c] = "closed"]
       \/ /\ state[c] = "closed" /\ used' = used - RingSize /\ UNCHANGED rings
          /\ state' = [state EXCEPT ![c] = "ended"]
    /\ UNCHANGED <<config, step, starts, requests, attached, cache>>

Next ==
    \/ \E r \in Requests : Capture(r)
    \/ Validate \/ Compile \/ Acquire \/ Open \/ SetUp \/ StartDumpcap
    \/ \E c \in Captures : End(c)

Spec == Init /\ [][Next]_vars

-----------------------------------------------------------------------------
(* Properties.                                                             *)

\* Types; the filter cache stays within its limit.
TypeOK ==
    /\ mode \in {"dumpcap", "afpacket", "auto"}
    /\ linux \in BOOLEAN /\ misfit \in BOOLEAN
    /\ step \in {"idle", "afpacket", "compile", "acquire", "open", "attach",
                 "promiscuous", "dumpcap"}
    /\ starts \in 0..MaxCaptures
    /\ requests \in [Captures -> Requests \cup {NoRequest}]
    /\ state \in [Captures -> {"none", "refused", "dumpcap", "afpacket", "closed",
                               "ended"}]
    /\ rings \subseteq 1..starts /\ used \in Nat
    /\ Cardinality(DOMAIN cache) <= MaxCache

\* Open rings never hold more memory than is reserved, and no more than the
\* budget is reserved, also while captures end as others start.
RingsFitBudget ==
    RingSize * Cardinality(rings) <= used /\ used <= RingBudget

\* Exactly the captures that have or are setting up a ring hold a reservation: a
\* start that failed at any step, and a capture that ended, have returned theirs.
BudgetIsReturned ==
    used = RingSize *
        (Cardinality({c \in Captures : state[c] \in {"afpacket", "closed"}})
         + IF step \in {"open", "attach", "promiscuous"} THEN 1 ELSE 0)

\* A ring filters with the program of its own request, cached or compiled.
OwnFilter ==
    \A c \in Captures : state[c] = "afpacket" => attached[c] = Program(requests[c])

\* A filter that does not compile is refused; auto does not try it on dumpcap.
BadFilterIsRefused ==
    \A c \in Captures :
        linux /\ mode # "dumpcap" /\ requests[c].filter \in BadFilters =>
            state[c] \in {"none", "refused"} /\ (c = starts => step # "dumpcap")

\* The ring budget is neither exceeded nor leaked.
BudgetIsKept == RingsFitBudget /\ BudgetIsReturned

\* Every capture filters as it was asked to, or is refused.
FiltersAreRight == OwnFilter /\ BadFilterIsRefused
=============================================================================
