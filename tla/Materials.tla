----------------------------- MODULE Materials ------------------------------
(***************************************************************************)
(* The life of a material: the stream command thread that parses command    *)
(* lines (stream_cmd.cpp), the main loop that carries them out on mlist     *)
(* (decorateVideo.cpp), the detached threads that open added materials and  *)
(* hand them over through the one-place mailbox pmlist (material.cpp), and  *)
(* the product switches that start and stop the decoders of the listed      *)
(* materials (videoplayer.cpp).                                             *)
(*                                                                         *)
(* A material is a name; Info gives what its specification says.  The       *)
(* decoder of a material is abstracted to the state its START, STOP and     *)
(* EXIT leave it in.  SUBOUT and STOPSUB concern the output, not mlist.     *)
(***************************************************************************)
EXTENDS Integers, SequencesExt

CONSTANTS
    Names,        \* the materials
    Info,         \* name -> [product, id, layer, type]
    Initial,      \* the materials on the command line
    Lines,        \* the command lines that may be sent
    CanFail,      \* materials whose opening may fail
    MainProducts, \* products that the raw main material may switch to
    MaxLines      \* bound: command lines sent

ASSUME MaterialsAssumption ==
    /\ Info \in [Names -> [product : Nat, id : Nat, layer : Int,
                           type : {"main", "video", "audio", "image"}]]
    /\ Initial \subseteq Names /\ IsFiniteSet(Initial) /\ CanFail \subseteq Names
    /\ \A l \in Lines : /\ l.op \in {"ADD", "DEL", "MOD", "SWPROD"}
                        /\ l.product \in Int
                        /\ l.op # "SWPROD" => l.id \in Int
                        /\ l.op = "ADD" => l.m \in Names \ Initial
    /\ \A l, k \in Lines : l.op = "ADD" /\ k.op = "ADD" /\ l.m = k.m => l = k
    /\ MainProducts \subseteq Nat \ {0}
    /\ MaxLines \in Nat

VARIABLES
    cmdQueue,   \* parsed commands, from the command thread to the main loop
    mpc,        \* where the main loop is
    cmds,       \* the commands of this iteration that are still to be done
    new_mlist,  \* the materials this iteration adds
    mlist,      \* the listed materials
    product_id, \* the current product, -1 for none
    static_idx, \* the first position of mlist that is drawn frame by frame
    background, \* the materials below static_idx before the main loop, drawn once
    openers,    \* the threads of submit_open_materials, in order of creation
    pmlist,     \* the mailbox: 0, or the thread whose materials are in it
    decoder,    \* what became of the decoder of each material
    drawn,      \* history: the materials whose turn it was to be drawn in this frame
    sent,       \* bound: number of command lines sent
    lines,      \* history: the command lines sent
    gone,       \* history: the materials deleted, and those that failed to open
    told,       \* history: the materials with an ET_MATERIAL_ADD_SUCC event
    raced       \* history: the materials that a product switch could not see

mainvars == <<mpc, cmds, new_mlist, mlist, product_id, drawn>>
fixed == <<static_idx, background>>
history == <<sent, lines, gone, told, raced>>
vars == <<cmdQueue, mainvars, fixed, openers, pmlist, decoder, history>>

HasDecoder(m) == Info[m].type \in {"video", "audio"}

\* The ways to rearrange a list
Orders(q) == Permutations(DOMAIN q)

\* std::sort by layer, which does not keep the order of equal layers
Sorts(q) ==
    {s \in {[i \in DOMAIN q |-> q[p[i]]] : p \in Orders(q)} :
        /\ ToSet(s) = ToSet(q)
        /\ \A i, j \in DOMAIN s : i < j => Info[s[i]].layer <= Info[s[j]].layer}

\* The product of the command line: the least one, or -1
FirstProduct ==
    LET P == {Info[m].product : m \in Initial} \ {0}
    IN  IF P = {} THEN -1 ELSE CHOOSE p \in P : \A q \in P : p <= q

\* open_materials leaves the decoder of a non-current product stopped
OpenedDecoder(m, product) ==
    IF ~HasDecoder(m) THEN "none"
    ELSE IF Info[m].product > 0 /\ product > 0 /\ Info[m].product # product
         THEN "stopped" ELSE "playing"

\* The materials at the bottom of the list that never change are drawn into
\* the background once; audio among them is passed over
StaticIdx(ms) ==
    LET Stops(i) == \/ Info[ms[i]].product > 0
                    \/ Info[ms[i]].type \in {"main", "video"}
    IN  CHOOSE k \in 0 .. Len(ms) : /\ \A i \in 1 .. k : ~Stops(i)
                                    /\ k < Len(ms) => Stops(k + 1)

Init ==
    /\ mlist \in Sorts(SetToSeq(Initial))
    /\ product_id = FirstProduct
    /\ static_idx = StaticIdx(mlist)
    /\ background = SubSeq(mlist, 1, static_idx)
    /\ decoder = [m \in Names |-> IF m \in Initial THEN OpenedDecoder(m, FirstProduct)
                                  ELSE "none"]
    /\ cmdQueue = << >> /\ mpc = "top" /\ cmds = << >> /\ new_mlist = << >>
    /\ openers = << >> /\ pmlist = 0 /\ drawn = {}
    /\ sent = 0 /\ lines = {} /\ gone = {} /\ told = {} /\ raced = {}

-----------------------------------------------------------------------------
(* The stream command thread.                                               *)

\* What the thread makes of a line: a MOD line becomes a DEL command
Parse(l) == IF l.op = "MOD" THEN [op |-> "DEL", product |-> l.product, id |-> l.id] ELSE l

\* A material is added at most once, so that its name tells it apart
StreamCmd(l) ==
    /\ sent < MaxLines
    /\ l.op = "ADD" => l \notin lines
    /\ cmdQueue' = Append(cmdQueue, Parse(l))
    /\ sent' = sent + 1
    /\ lines' = lines \cup {l}
    /\ UNCHANGED <<mainvars, fixed, openers, pmlist, decoder, gone, told, raced>>

-----------------------------------------------------------------------------
(* The main loop.                                                           *)

get_stream_cmds ==
    /\ mpc = "top"
    /\ cmds' = cmdQueue
    /\ cmdQueue' = << >>
    /\ mpc' = "cmds"
    /\ drawn' = {}
    /\ UNCHANGED <<new_mlist, mlist, product_id, fixed, openers, pmlist, decoder, history>>

\* The next command of the batch is c
Command(op) ==
    /\ mpc = "cmds"
    /\ cmds # << >>
    /\ Head(cmds).op = op
    /\ cmds' = Tail(cmds)

\* Skipped with a warning: a bad material_id, a bad product_id in SWPROD
Invalid(c) == IF c.op = "SWPROD" THEN c.product <= 0 ELSE c.id < 1

Skip ==
    /\ mpc = "cmds"
    /\ cmds # << >>
    /\ Invalid(Head(cmds))
    /\ cmds' = Tail(cmds)
    /\ UNCHANGED <<cmdQueue, mpc, new_mlist, mlist, product_id, drawn, fixed, openers, pmlist,
                   decoder, history>>

ADD ==
    /\ Command("ADD")
    /\ ~Invalid(Head(cmds))
    /\ new_mlist' = Append(new_mlist, Head(cmds).m)
    /\ UNCHANGED <<cmdQueue, mpc, mlist, product_id, drawn, fixed, openers, pmlist, decoder,
                   history>>

\* close_material with force: the decoder is told to exit and is detached
close_material(d, S) ==
    [m \in Names |-> IF m \in S /\ d[m] \in {"playing", "stopped"} THEN "exited" ELSE d[m]]

Matches(c, m) == (c.product <= 0 \/ Info[m].product = c.product) /\ Info[m].id = c.id

\* The first material that matches is deleted, unless it is a main material
DEL ==
    /\ Command("DEL")
    /\ ~Invalid(Head(cmds))
    /\ LET c == Head(cmds)
           i == SelectInSeq(mlist, LAMBDA m : Matches(c, m))
       IN  IF i > 0 /\ Info[mlist[i]].type # "main"
           THEN /\ decoder' = close_material(decoder, {mlist[i]})
                /\ gone' = gone \cup {mlist[i]}
                /\ mlist' = RemoveAt(mlist, i)
           ELSE UNCHANGED <<mlist, decoder, gone>>
    /\ UNCHANGED <<cmdQueue, mpc, new_mlist, product_id, drawn, fixed, openers, pmlist, sent, lines,
                   told, raced>>

\* The materials a thread of open_materials_thread_run holds, which the main
\* loop cannot see yet
Held(t) == IF openers[t].pc \in {"open", "put"} \/ pmlist = t THEN ToSet(openers[t].ms) ELSE {}
InFlight == UNION {Held(t) : t \in DOMAIN openers}

\* The materials a switch does not visit although it concerns them: those
\* being opened and, when there was no product before, those of any product
Unseen == InFlight \cup (IF product_id > 0 THEN {} ELSE ToSet(mlist))

\* Mutant: the decoders of the new product are not started
SwitchStopsOnly(product) ==
    /\ product_id' = product
    /\ decoder' = [m \in Names |->
         IF m \notin ToSet(mlist) \/ ~HasDecoder(m) \/ Info[m].product = 0 THEN decoder[m]
         ELSE IF Info[m].product = product_id THEN "stopped"
         ELSE decoder[m]]
    /\ raced' = raced \cup Unseen

\* Stops the listed decoders of the old product, starts those of the new one
Switch(product) ==
    /\ product_id' = product
    /\ decoder' = [m \in Names |->
         IF m \notin ToSet(mlist) \/ ~HasDecoder(m) \/ Info[m].product = 0 THEN decoder[m]
         ELSE IF Info[m].product = product_id THEN "stopped"
         ELSE IF Info[m].product = product THEN "playing"
         ELSE decoder[m]]
    /\ raced' = raced \cup Unseen

SWPROD ==
    /\ Command("SWPROD")
    /\ ~Invalid(Head(cmds))
    /\ IF Head(cmds).product # product_id
       THEN Switch(Head(cmds).product)
       ELSE UNCHANGED <<product_id, decoder, raced>>
    /\ UNCHANGED <<cmdQueue, mpc, new_mlist, mlist, drawn, fixed, openers, pmlist, sent, lines, gone,
                   told>>

\* After the batch: one thread opens all that was added, for the product that
\* is current now
submit_open_materials ==
    /\ mpc = "cmds"
    /\ cmds = << >>
    /\ openers' = IF new_mlist = << >> THEN openers
                  ELSE Append(openers, [ms |-> new_mlist, product |-> product_id,
                                        pc |-> "open", k |-> 1, old |-> 0])
    /\ new_mlist' = << >>
    /\ mpc' = "check"
    /\ UNCHANGED <<cmdQueue, cmds, mlist, product_id, drawn, fixed, pmlist, decoder, history>>

\* Mutant: the mailbox is emptied only when a command waits
CheckWithCommands ==
    /\ mpc = "check"
    /\ IF pmlist = 0 \/ cmdQueue = << >> THEN UNCHANGED <<pmlist, mlist>>
       ELSE /\ mlist' \in Sorts(mlist \o openers[pmlist].ms)
            /\ pmlist' = 0
    /\ mpc' = "frame"
    /\ UNCHANGED <<cmdQueue, cmds, new_mlist, product_id, drawn, fixed, openers, decoder, history>>

\* The mailbox is emptied in one exchange; what was in it is listed and sorted
check_open_materials ==
    /\ mpc = "check"
    /\ IF pmlist = 0 THEN UNCHANGED <<pmlist, mlist>>
       ELSE /\ mlist' \in Sorts(mlist \o openers[pmlist].ms)
            /\ pmlist' = 0
    /\ mpc' = "frame"
    /\ UNCHANGED <<cmdQueue, cmds, new_mlist, product_id, drawn, fixed, openers, decoder, history>>

\* The main frame did not arrive: nothing is drawn, the loop starts again
NoMainFrame ==
    /\ mpc = "frame"
    /\ mpc' = "top"
    /\ UNCHANGED <<cmdQueue, cmds, new_mlist, mlist, product_id, drawn, fixed, openers, pmlist,
                   decoder, history>>

\* The main frame arrived, with a product id (0 for none) when it is raw
MainFrame ==
    /\ mpc = "frame"
    /\ \E prodid \in MainProducts \cup {0} :
         IF prodid > 0 /\ prodid # product_id THEN Switch(prodid)
         ELSE UNCHANGED <<product_id, decoder, raced>>
    /\ mpc' = "draw"
    /\ UNCHANGED <<cmdQueue, cmds, new_mlist, mlist, drawn, fixed, openers, pmlist, sent, lines, gone,
                   told>>

Visible(m) == Info[m].type # "audio" /\ Info[m].product \in {0, product_id}

\* Mutant: the first material above the background is passed over
DrawOneLater ==
    /\ mpc = "draw"
    /\ drawn' = {m \in ToSet(background) : Info[m].type = "image"}
          \cup {m \in {mlist[i] : i \in static_idx + 2 .. Len(mlist)} : Visible(m)}
    /\ mpc' = "top"
    /\ UNCHANGED <<cmdQueue, cmds, new_mlist, mlist, product_id, fixed, openers, pmlist, decoder,
                   history>>

Draw ==
    /\ mpc = "draw"
    /\ drawn' = {m \in ToSet(background) : Info[m].type = "image"}
          \cup {m \in {mlist[i] : i \in static_idx + 1 .. Len(mlist)} : Visible(m)}
    /\ mpc' = "top"
    /\ UNCHANGED <<cmdQueue, cmds, new_mlist, mlist, product_id, fixed, openers, pmlist, decoder,
                   history>>

-----------------------------------------------------------------------------
(* The threads that open materials.                                         *)

\* open_materials opens the next material of the batch
OpenNext(t) ==
    LET o == openers[t] IN
    /\ o.pc = "open"
    /\ o.k <= Len(o.ms)
    /\ openers' = [openers EXCEPT ![t].k = o.k + 1]
    /\ decoder' = [decoder EXCEPT ![o.ms[o.k]] = OpenedDecoder(o.ms[o.k], o.product)]
    /\ UNCHANGED <<cmdQueue, mainvars, fixed, pmlist, history>>

\* Mutant: the materials that were opened before the bad one stay open
OpenFailLeaks(t) ==
    LET o == openers[t] IN
    /\ o.pc = "open"
    /\ o.k <= Len(o.ms)
    /\ o.ms[o.k] \in CanFail
    /\ openers' = [openers EXCEPT ![t].pc = "done"]
    /\ gone' = gone \cup ToSet(o.ms)
    /\ UNCHANGED <<cmdQueue, mainvars, fixed, pmlist, decoder, sent, lines, told, raced>>

\* One that cannot be opened fails the batch: all of it is closed
OpenFail(t) ==
    LET o == openers[t] IN
    /\ o.pc = "open"
    /\ o.k <= Len(o.ms)
    /\ o.ms[o.k] \in CanFail
    /\ openers' = [openers EXCEPT ![t].pc = "done"]
    /\ decoder' = close_material(decoder, ToSet(o.ms))
    /\ gone' = gone \cup ToSet(o.ms)
    /\ UNCHANGED <<cmdQueue, mainvars, fixed, pmlist, sent, lines, told, raced>>

\* All are open: ET_MATERIAL_ADD_SUCC is sent for each
OpenDone(t) ==
    LET o == openers[t] IN
    /\ o.pc = "open"
    /\ o.k > Len(o.ms)
    /\ openers' = [openers EXCEPT ![t].pc = "put"]
    /\ told' = told \cup ToSet(o.ms)
    /\ UNCHANGED <<cmdQueue, mainvars, fixed, pmlist, decoder, sent, lines, gone, raced>>

\* Mutant: old keeps the value that the failed exchange stored in it
PutKeepsOld(t) ==
    LET o == openers[t] IN
    /\ o.pc = "put"
    /\ IF pmlist = o.old
       THEN /\ pmlist' = t
            /\ openers' = [openers EXCEPT ![t].pc = "done"]
       ELSE /\ openers' = [openers EXCEPT ![t].old = pmlist]
            /\ UNCHANGED pmlist
    /\ UNCHANGED <<cmdQueue, mainvars, fixed, decoder, history>>

\* One round of the compare-exchange loop; a failure is followed by old = 0
Put(t) ==
    LET o == openers[t] IN
    /\ o.pc = "put"
    /\ IF pmlist = o.old
       THEN /\ pmlist' = t
            /\ openers' = [openers EXCEPT ![t].pc = "done"]
       ELSE /\ openers' = [openers EXCEPT ![t].old = 0]
            /\ UNCHANGED pmlist
    /\ UNCHANGED <<cmdQueue, mainvars, fixed, decoder, history>>

open_materials_thread_run(t) == OpenNext(t) \/ OpenFail(t) \/ OpenDone(t) \/ Put(t)

-----------------------------------------------------------------------------
MainLoop ==
    \/ get_stream_cmds \/ Skip \/ ADD \/ DEL \/ SWPROD
    \/ submit_open_materials \/ check_open_materials
    \/ NoMainFrame \/ MainFrame \/ Draw

Next ==
    \/ \E l \in Lines : StreamCmd(l)
    \/ MainLoop
    \/ \E t \in DOMAIN openers : open_materials_thread_run(t)

Spec == Init /\ [][Next]_vars

\* The main loop runs for ever and each thread is scheduled.  No fairness
\* between the threads that compete for the mailbox is needed: each of them
\* ends once it succeeds.
FairSpec ==
    /\ Spec
    /\ WF_vars(MainLoop)
    /\ \A t \in 1 .. MaxLines : WF_vars(t \in DOMAIN openers /\ open_materials_thread_run(t))

-----------------------------------------------------------------------------
(* Properties.                                                              *)

Opener == [ms : Seq(Names), product : Int, pc : {"open", "put", "done"},
           k : 1 .. MaxLines + 1, old : {0}]

Commands == {Parse(l) : l \in Lines}

\* The type of every variable.
TypeOK ==
    /\ mpc \in {"top", "cmds", "check", "frame", "draw"}
    /\ cmdQueue \in Seq(Commands) /\ cmds \in Seq(Commands)
    /\ new_mlist \in Seq(Names) /\ mlist \in Seq(Names)
    /\ product_id \in Int
    /\ static_idx \in 0 .. Cardinality(Initial)
    /\ background \in Seq(Names)
    /\ openers \in Seq(Opener)
    /\ pmlist \in 0 .. Len(openers)
    /\ decoder \in [Names -> {"none", "playing", "stopped", "exited"}]
    /\ drawn \subseteq Names
    /\ sent \in 0 .. MaxLines /\ lines \subseteq Lines
    /\ gone \subseteq Names /\ told \subseteq Names /\ raced \subseteq Names

\* The materials whose ADD command was accepted, and those of the start
Added == Initial \cup {l.m : l \in {x \in lines : x.op = "ADD" /\ ~Invalid(x)}}

\* The materials that the commands of a queue will add
Adds(q) == {q[i].m : i \in {j \in DOMAIN q : q[j].op = "ADD" /\ ~Invalid(q[j])}}

Waiting == Adds(cmdQueue) \cup Adds(cmds)

Holders(m) ==
    LET At == [queue |-> Waiting, new |-> ToSet(new_mlist), listed |-> ToSet(mlist), gone |-> gone]
    IN  {<<h, 0>> : h \in {x \in DOMAIN At : m \in At[x]}}
            \cup {<<"opener", t>> : t \in {x \in DOMAIN openers : m \in Held(x)}}

\* Between the command and the list no material is lost or duplicated,
\* however many threads fill the mailbox at once: an added material is in
\* exactly one place, and listed at most once.
HandedOver ==
    /\ \A m \in Added : \E h \in Holders(m) : Holders(m) = {h}
    /\ IsInjective(mlist)

\* No decoder thread outlives its material: a decoder that is not told to exit
\* belongs to a material that is listed or about to be; a listed material never
\* has a decoder that was told to exit.
DecodersOwned ==
    \A m \in Names :
        /\ decoder[m] \in {"playing", "stopped"} => m \in ToSet(mlist) \cup InFlight
        /\ decoder[m] = "exited" => m \in gone

\* The list is drawn from the bottom layer to the top one.
LayersInOrder ==
    \A i, j \in DOMAIN mlist : i < j => Info[mlist[i]].layer <= Info[mlist[j]].layer

\* The lists are sound: every added material is in one place, and the ones that
\* are drawn are sorted by layer.
ListInv == TypeOK /\ HandedOver /\ LayersInOrder

\* The decoder of a listed material plays if the material is for all products
\* or for the current one, and stands still if not, for every material that
\* was not being opened when the product was switched.
SwitchedDecoders ==
    \A m \in ToSet(mlist) \ raced :
        HasDecoder(m) /\ product_id > 0 =>
            (decoder[m] = "playing" <=> Info[m].product \in {0, product_id})

\* A material that was reported as added is listed in the end (or deleted).
AddedIsListed == \A m \in Names : m \in told ~> m \in ToSet(mlist) \cup gone

\* The comment of the switch: "new current product, start"
\* (decorateVideo.cpp:1477): the listed decoders of the current product play.
CurrentPlays ==
    \A m \in ToSet(mlist) :
        HasDecoder(m) /\ Info[m].product = product_id => decoder[m] = "playing"

\* Each frame shows the listed materials of the current product and those "used
\* for all products" (decorateVideo.cpp:315), and no other, as long as the
\* bottom of the list is what it was when the background was drawn.
DrawsWhatIsListed ==
    mpc = "top" /\ drawn # {} /\ IsPrefix(background, mlist) =>
        \A m \in ToSet(mlist) \cup drawn :
            m \in drawn <=> /\ m \in ToSet(mlist)
                            /\ Info[m].type # "audio"
                            /\ Info[m].product \in {0, product_id}
=============================================================================
