---------------------------- MODULE PresentModes ----------------------------
(***************************************************************************)
(* From the present mode an application asks for to the ones the driver    *)
(* sees.  A FIFO swapchain is created in MAILBOX when the surface has it   *)
(* and the application's create chain can be copied, the list of allowed   *)
(* per-present modes in it cut down to what may stand beside MAILBOX; the  *)
(* mode of each present is rewritten to fit.                               *)
(*                                                                         *)
(* A chain is the sequence of its nodes' kinds: "modes" is the list of     *)
(* allowed modes, "plain" a structure the layer can copy, "strange" one it *)
(* does not know.                                                          *)
(***************************************************************************)
EXTENDS Integers, Sequences, FiniteSets

CONSTANTS
    Modes,          \* the present modes of this instance
    MaxChain,       \* bound: nodes in the application's chain
    Strange,        \* the chain may hold a structure the layer does not know
    Room,           \* AFMF_CHAIN_BYTES, in nodes
    MaxModes        \* AFMF_MAX_PRESENT_MODES

Fifo == {"fifo", "relaxed"}

ASSUME ModesAssumption == "mailbox" \in Modes
ASSUME BoundsAssumption ==
    MaxChain \in Nat /\ Room \in Nat /\ MaxModes \in Nat \ {0} /\ Strange \in BOOLEAN

\* The list of allowed modes is at most once in a chain.
Kinds == {"modes", "plain"} \union (IF Strange THEN {"strange"} ELSE {})
Chains ==
    {c \in UNION {[1 .. n -> Kinds] : n \in 0 .. MaxChain} :
        Cardinality({k \in DOMAIN c : c[k] = "modes"}) <= 1}

HasList(c) == \E k \in DOMAIN c : c[k] = "modes"

VARIABLES
    stage,          \* how far the creation is, and then the presents
    asked,          \* what the application asked for: mode, chain, list
    compatible,     \* what the surface allows beside MAILBOX
    next,           \* the node to be copied next
    out,            \* the chain to use: the application's, or the copy so far
    modes,          \* the copy's list of allowed modes, and sc->allowed_modes
    moved,          \* sc->fifo_to_mailbox
    shown           \* the mode of the last present, "none" before one

modesVars == <<stage, asked, compatible, next, out, modes, moved, shown>>

ModesInit ==
    /\ stage = "ask"
    /\ asked \in {a \in [mode : Modes, chain : Chains, list : SUBSET Modes] :
                     IF HasList(a.chain) THEN a.mode \in a.list ELSE a.list = {}}
    /\ compatible \in SUBSET Modes
    /\ next = 1
    /\ out = asked.chain
    /\ modes = {}
    /\ moved = FALSE
    /\ shown = "none"

To(label) == stage' = label

\* The mode is not touched: the application or the surface gives no cause.
Leave ==
    /\ stage = "ask"
    /\ To("create")
    /\ UNCHANGED <<asked, compatible, next, out, modes, moved, shown>>

\* AFMF_PRESENT_MODE=auto, FIFO asked for and MAILBOX offered: without a list
\* there is nothing to copy.
MoveBare ==
    /\ stage = "ask" /\ asked.mode \in Fifo
    /\ ~HasList(asked.chain)
    /\ moved' = TRUE
    /\ To("create")
    /\ UNCHANGED <<asked, compatible, next, out, modes, shown>>

\* A mistake: MAILBOX itself left out of the list.
BugCutDown == asked.list \intersect compatible
CutDown == (asked.list \intersect compatible) \union {"mailbox"}

\* The list is cut down to what the surface says, and the copy begins.
CutList ==
    /\ stage = "ask" /\ asked.mode \in Fifo
    /\ HasList(asked.chain)
    /\ Cardinality((asked.list \intersect compatible) \ {"mailbox"}) < MaxModes
    /\ modes' = CutDown
    /\ To("copy")
    /\ UNCHANGED <<asked, compatible, next, out, moved, shown>>

\* The surface cannot be asked, or the list is too long to carry.
RefuseList ==
    /\ stage = "ask" /\ asked.mode \in Fifo
    /\ HasList(asked.chain)
    /\ To("create")
    /\ UNCHANGED <<asked, compatible, next, out, modes, moved, shown>>

\* One node copied behind the ones before it; the first makes the copy the
\* chain to use.
Copyable == next <= Len(asked.chain) /\ asked.chain[next] # "strange" /\ next <= Room

\* A mistake: the node before the list is not linked to it.
BugLinked(node) ==
    IF next = 1 THEN <<node>> ELSE IF node = "modes" THEN out ELSE Append(out, node)

Linked(node) == IF next = 1 THEN <<node>> ELSE Append(out, node)

CopyNode ==
    /\ stage = "copy" /\ Copyable
    /\ out' = Linked(asked.chain[next])
    /\ next' = next + 1
    /\ UNCHANGED <<stage, asked, compatible, modes, moved, shown>>

CopyDone ==
    /\ stage = "copy" /\ next > Len(asked.chain)
    /\ moved' = TRUE
    /\ To("create")
    /\ UNCHANGED <<asked, compatible, next, out, modes, shown>>

\* A structure the layer cannot copy: what was copied and listed stays.
RefuseCopy ==
    /\ stage = "copy" /\ next <= Len(asked.chain) /\ ~Copyable
    /\ To("create")
    /\ UNCHANGED <<asked, compatible, next, out, modes, moved, shown>>

\* vkCreateSwapchainKHR succeeds with the patched mode and chain.
Create ==
    /\ stage = "create"
    /\ To("alive")
    /\ UNCHANGED <<asked, compatible, next, out, modes, moved, shown>>

Mode == IF moved THEN "mailbox" ELSE asked.mode

\* A mistake: only FIFO is kept from a present's own mode.
BugRewritten(mode) == IF moved /\ mode \in Fifo THEN "mailbox" ELSE mode

\* The rewrite of a present's own mode, threaded or at the head of an inline
\* present's chain.
Rewritten(mode) ==
    IF moved /\ (mode \notin modes \/ mode \in Fifo) THEN "mailbox" ELSE mode

\* A present with a mode of its own, one the application listed (or the only
\* one there is without a list), or without.
Present ==
    /\ stage = "alive"
    /\ \/ shown' = Mode
       \/ \E mode \in asked.list \union {asked.mode} : shown' = Rewritten(mode)
    /\ UNCHANGED <<stage, asked, compatible, next, out, modes, moved>>

ModesNext == Leave \/ MoveBare \/ CutList \/ RefuseList \/ CopyNode \/ CopyDone \/ RefuseCopy
        \/ Create \/ Present

ModesSpec == ModesInit /\ [][ModesNext]_modesVars

-----------------------------------------------------------------------------
\* The modes the swapchain allows, as the driver was told: the copy's list if
\* the chain in use begins with a copy, the application's, or the one mode.
Copied == next > 1
Allowed ==
    IF HasList(out) THEN IF Copied THEN modes ELSE asked.list ELSE {Mode}

\* The chain of a swapchain moved to MAILBOX has every node of the
\* application's, in order, whatever else was found on the way.
ChainCarried == stage = "alive" /\ moved => out = asked.chain

\* Its list of allowed modes has MAILBOX next to nothing the surface does not
\* allow beside it (chain_allows_mailbox: "the list must only hold modes
\* compatible with the swapchain's"), and the modes it is presented in are those
\* it was created with, never FIFO ("a mode outside the cut-down list is
\* invalid").
PresentedAllowed ==
    stage = "alive" /\ moved =>
        /\ Mode \in Allowed /\ Allowed \subseteq compatible \union {"mailbox"}
        /\ shown = "none" \/ shown \in Allowed \ Fifo

\* A swapchain that keeps the application's mode keeps its chain, as it is
\* ("False means a structure the layer cannot copy [...]: the application's
\* mode then stays").
KeptAsAsked == stage = "alive" /\ ~moved => out = asked.chain /\ ~Copied
=============================================================================
