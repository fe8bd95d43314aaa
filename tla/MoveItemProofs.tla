--------------------------- MODULE MoveItemProofs ---------------------------
(***************************************************************************)
(* Proofs about MoveItem, for any clients, calendars, moves and number of  *)
(* requests.                                                               *)
(***************************************************************************)
EXTENDS MoveItem, TLAPS

LEMMA NoneIsNoJob == None \notin Job /\ \A j \in Job : j.from \in Calendars /\ j.to \in Calendars
BY MoveAssumption DEF Job

LEMMA EffectTyped ==
  ASSUME TypeOK, NEW c \in Clients, job[c] # None
  PROVE  job[c] \in Job /\ Effect(job[c]) \subseteq Calendars
BY DEF TypeOK, Job, Effect

(* What a client sends is a request.                                       *)
LEMMA SendTyped ==
  ASSUME TypeOK, NEW c \in Clients, NEW j \in Job, Send(c, j)
  PROVE  /\ job' \in [Clients -> Job \cup {None}]
         /\ sent' \in 0 .. MaxRequests
         /\ overlapped' \in BOOLEAN
         /\ UNCHANGED <<held, modal, errors>>
BY MoveAssumption DEF Send, TypeOK

LEMMA BrowserTyped ==
  ASSUME TypeOK, NEW c \in Clients, Browser(c)
  PROVE  TypeOK'
<1>1. CASE Open(c)
  BY <1>1 DEF Open, TypeOK
<1>2. CASE SendMove(c)
  <2>1. PICK m \in Moves : Send(c, [kind |-> "move", from |-> m[1], to |-> m[2], pc |-> "create"])
                           /\ UNCHANGED wanted
    BY <1>2 DEF SendMove
  <2>2. m[1] \in Calendars /\ m[2] \in Calendars
    BY MoveAssumption
  <2>3. [kind |-> "move", from |-> m[1], to |-> m[2], pc |-> "create"] \in Job
    BY <2>2 DEF Job
  <2> QED
    BY <2>1, <2>3, SendTyped DEF TypeOK
<1>3. CASE SendEdit(c)
  <2>1. modal[c] \in Calendars
    BY <1>3 DEF SendEdit, TypeOK
  <2>2. [kind |-> "edit", from |-> modal[c], to |-> modal[c], pc |-> "find"] \in Job
    BY <2>1 DEF Job
  <2> QED
    BY <1>3, <2>2, SendTyped DEF SendEdit, TypeOK
<1>4. CASE SendDelete(c)
  <2>1. PICK k \in {modal[c]} \cup {m[2] : m \in {n \in Moves : n[1] = modal[c]}} :
          Send(c, [kind |-> "delete", from |-> k, to |-> k, pc |-> "find"])
    BY <1>4 DEF SendDelete
  <2>2. k \in Calendars
    BY <1>4, MoveAssumption DEF SendDelete, TypeOK
  <2>3. [kind |-> "delete", from |-> k, to |-> k, pc |-> "find"] \in Job
    BY <2>2 DEF Job
  <2> QED
    BY <1>4, <2>1, <2>3, SendTyped DEF SendDelete, TypeOK
<1> QED
  BY <1>1, <1>2, <1>3, <1>4 DEF Browser

LEMMA HandlerTyped ==
  ASSUME TypeOK, NEW c \in Clients, Handler(c)
  PROVE  TypeOK'
<1>a. job[c] \in Job /\ Effect(job[c]) \subseteq Calendars
  BY EffectTyped DEF Handler, Create, Find, Missing, Change, CallFails
<1>1. CASE Create(c)
  <2>1. [job[c] EXCEPT !.pc = "find"] \in Job
    BY <1>a DEF Job
  <2> QED
    BY <1>1, <1>a, <2>1 DEF Create, Proceed, TypeOK
<1>2. CASE Find(c)
  <2>1. [job[c] EXCEPT !.pc = "change"] \in Job
    BY <1>a DEF Job
  <2> QED
    BY <1>2, <2>1 DEF Find, Proceed, TypeOK
<1>3. CASE Missing(c) \/ Change(c) \/ CallFails(c)
  BY <1>3, <1>a DEF Missing, Change, CallFails, Fail, Done, TypeOK
<1> QED
  BY <1>1, <1>2, <1>3 DEF Handler

LEMMA TypeInit == Init => TypeOK
<1> SUFFICES ASSUME Init PROVE TypeOK
  OBVIOUS
<1>1. held \subseteq Calendars /\ 0 \in 0 .. MaxRequests
  BY MoveAssumption DEF Init
<1>2. modal \in [Clients -> Calendars \cup {None}] /\ job \in [Clients -> Job \cup {None}]
  BY DEF Init
<1> QED
  BY <1>1, <1>2 DEF Init, TypeOK

LEMMA TypeStep == TypeOK /\ [Next]_vars => TypeOK'
<1> SUFFICES ASSUME TypeOK, [Next]_vars PROVE TypeOK'
  OBVIOUS
<1>1. CASE Next
  BY <1>1, BrowserTyped, HandlerTyped DEF Next
<1>2. CASE UNCHANGED vars
  BY <1>2 DEF vars, TypeOK
<1> QED
  BY <1>1, <1>2

(* Every state of the calendars, the modals and the requests is well       *)
(* typed; no handler is sent to a calendar that does not exist.            *)
THEOREM MoveTypes == Spec => []TypeOK
BY TypeInit, TypeStep, PTL DEF Spec

-----------------------------------------------------------------------------
(* NeverVanishes.  A move that has created the item on its target is about *)
(* to delete it from its source: what must be known is that a calendar     *)
(* further up holds it.  The target may have lost it again meanwhile, but  *)
(* only to a move that put it still further up.                            *)
Onward(j, H) == j.kind = "move" /\ j.pc # "create" => \E k \in H : k > j.from

Kept ==
  wanted => /\ held # {}
            /\ \A c \in Clients : job[c] # None =>
                 /\ job[c].kind # "delete"
                 /\ job[c].kind = "move" => job[c].from < job[c].to
                 /\ Onward(job[c], held)

LEMMA KeptInit == Init => Kept
<1> SUFFICES ASSUME Init PROVE Kept
  OBVIOUS
<1>1. held # {} /\ \A c \in Clients : job[c] = None
  BY DEF Init
<1> QED
  BY <1>1 DEF Kept

(* Adding copies never hurts.                                              *)
LEMMA KeptGrows ==
  ASSUME TypeOK, Kept, held \subseteq held', UNCHANGED wanted,
         \A c \in Clients : job'[c] # None => job'[c] = job[c] \/ (job'[c].kind # "delete"
           /\ (job'[c].kind = "move" => job'[c].from < job'[c].to) /\ Onward(job'[c], held'))
  PROVE  Kept'
<1>1. ASSUME NEW j, Onward(j, held) PROVE Onward(j, held')
  BY <1>1 DEF Onward
<1> QED
  BY <1>1 DEF Kept

(* Deleting the source of a move leaves the item further up.               *)
LEMMA KeptMoves ==
  ASSUME TypeOK, Kept, wanted, NEW c \in Clients, job[c] # None,
         job[c].kind = "move", job[c].pc # "create",
         held' = held \ {job[c].from}, job' = [job EXCEPT ![c] = None]
  PROVE  Kept'
<1>1. held \subseteq Int /\ \A d \in Clients : job[d] # None => job[d].from \in Int
  BY MoveAssumption DEF TypeOK, Job
<1>2. PICK k \in held : k > job[c].from
  BY DEF Kept, Onward
<1>3. k \in held'
  BY <1>1, <1>2
<1>4. ASSUME NEW d \in Clients, job'[d] # None PROVE job'[d] = job[d] /\ job[d] # None
  BY <1>4 DEF TypeOK
<1>5. ASSUME NEW d \in Clients, job'[d] # None PROVE Onward(job'[d], held')
  <2> SUFFICES ASSUME job[d].kind = "move", job[d].pc # "create"
               PROVE  \E n \in held' : n > job[d].from
    BY <1>4, <1>5 DEF Onward
  <2>1. PICK n \in held : n > job[d].from
    BY <1>4, <1>5 DEF Kept, Onward
  <2>2. CASE n = job[c].from
    BY <1>1, <1>2, <1>3, <1>4, <1>5, <2>1, <2>2
  <2>3. CASE n # job[c].from
    BY <2>1, <2>3
  <2> QED
    BY <2>2, <2>3
<1> QED
  BY <1>3, <1>4, <1>5 DEF Kept

LEMMA KeptBrowser ==
  ASSUME \A m \in Moves : m[1] < m[2],
         TypeOK, Kept, NEW c \in Clients, Browser(c)
  PROVE  Kept'
<1>1. CASE Open(c)
  BY <1>1 DEF Open, Kept, Onward
<1>2. CASE SendMove(c)
  <2>1. PICK m \in Moves : Send(c, [kind |-> "move", from |-> m[1], to |-> m[2], pc |-> "create"])
    BY <1>2 DEF SendMove
  <2>2. m[1] < m[2]
    OBVIOUS
  <2> QED
    BY <1>2, <2>1, <2>2, KeptGrows DEF SendMove, Send, TypeOK, Onward
<1>3. CASE SendEdit(c)
  BY <1>3, KeptGrows DEF SendEdit, Send, TypeOK, Onward
<1>4. CASE SendDelete(c)
  BY <1>4 DEF SendDelete, Kept
<1> QED
  BY <1>1, <1>2, <1>3, <1>4 DEF Browser

LEMMA KeptHandler ==
  ASSUME TypeOK, Kept, NEW c \in Clients, Handler(c)
  PROVE  Kept'
<1>a. job[c] # None /\ job[c] \in Job /\ UNCHANGED wanted
  BY EffectTyped DEF Handler, Create, Find, Missing, Change, CallFails, Proceed, Done, Fail
<1>b. held \subseteq Int /\ job[c].from \in Int /\ job[c].to \in Int
  BY <1>a, MoveAssumption DEF TypeOK, Job
<1>1. CASE ~wanted
  BY <1>1, <1>a DEF Kept
<1>2. CASE wanted /\ Create(c)
  <2>1. held' = held \cup {job[c].to} /\ job' = [job EXCEPT ![c].pc = "find"]
    BY <1>2 DEF Create, Effect, Proceed
  <2>2. job'[c].kind = job[c].kind /\ job'[c].from = job[c].from /\ job'[c].to = job[c].to
    BY <2>1, <1>a DEF TypeOK, Job
  <2>3. job[c].kind # "delete" /\ (job[c].kind = "move" => job[c].from < job[c].to)
    BY <1>2, <1>a DEF Kept
  <2>4. Onward(job'[c], held')
    BY <2>1, <2>2, <2>3, <1>b DEF Onward
  <2>5. \A d \in Clients : d # c => job'[d] = job[d]
    BY <2>1 DEF TypeOK
  <2> QED
    BY <2>1, <2>2, <2>3, <2>4, <2>5, <1>a, KeptGrows
<1>3. CASE wanted /\ Find(c)
  <2>1. held' = held /\ job' = [job EXCEPT ![c].pc = "change"] /\ job[c].pc = "find"
    BY <1>3 DEF Find, Proceed
  <2>2. job'[c].kind = job[c].kind /\ job'[c].from = job[c].from /\ job'[c].to = job[c].to
    BY <2>1, <1>a DEF TypeOK, Job
  <2>3. job[c].kind # "delete" /\ (job[c].kind = "move" => job[c].from < job[c].to) /\ Onward(job[c], held)
    BY <1>3, <1>a DEF Kept
  <2>4. Onward(job'[c], held')
    BY <2>1, <2>2, <2>3 DEF Onward
  <2>5. \A d \in Clients : d # c => job'[d] = job[d]
    BY <2>1 DEF TypeOK
  <2> QED
    BY <2>1, <2>2, <2>3, <2>4, <2>5, <1>a, KeptGrows
<1>4. CASE wanted /\ (Missing(c) \/ Change(c) \/ CallFails(c))
  <2>1. job' = [job EXCEPT ![c] = None] /\ held' \in {held, Effect(job[c])}
    BY <1>4 DEF Missing, Change, CallFails, Fail, Done
  <2>2. \A d \in Clients : job'[d] # None => job'[d] = job[d]
    BY <2>1 DEF TypeOK
  <2>3. CASE held \subseteq held'
    BY <2>2, <2>3, <1>a, KeptGrows
  <2>4. CASE ~(held \subseteq held')
    <3>1. job[c].pc # "create" /\ job[c].kind # "edit" /\ held' = held \ {job[c].from}
      BY <2>1, <2>4 DEF Effect
    <3>2. job[c].kind = "move"
      BY <3>1, <1>a, <1>4 DEF Kept, Job
    <3> QED
      BY <3>1, <3>2, <2>1, <1>a, <1>4, KeptMoves
  <2> QED
    BY <2>3, <2>4
<1> QED
  BY <1>1, <1>2, <1>3, <1>4 DEF Handler

(* When all moves go the same way, the item is somewhere until a deletion  *)
(* is asked for: for any number of clients, requests under way and failing *)
(* calls (put_event, put_task, put_journal: the target is written before   *)
(* the source is deleted).                                                 *)
THEOREM NeverLost ==
  ASSUME \A m \in Moves : m[1] < m[2]
  PROVE  Spec => []NeverVanishes
<1>1. Init => TypeOK /\ Kept
  BY TypeInit, KeptInit
<1>2. TypeOK /\ Kept /\ [Next]_vars => TypeOK' /\ Kept'
  <2>1. TypeOK /\ Kept /\ Next => Kept'
    BY KeptBrowser, KeptHandler DEF Next
  <2>2. Kept /\ UNCHANGED vars => Kept'
    BY DEF vars, Kept, Onward
  <2> QED
    BY <2>1, <2>2, TypeStep
<1>3. Kept => NeverVanishes
  BY DEF Kept, NeverVanishes
<1> QED
  BY <1>1, <1>2, <1>3, PTL DEF Spec

-----------------------------------------------------------------------------
(* OneCopy.  While requests follow one another and succeed, the calendars  *)
(* hold one copy between two requests, and what they hold during one is    *)
(* determined by how far it has come.                                      *)
One(H, w) == IF w THEN \E k \in Calendars : H = {k} ELSE H = {}

StageMove(j, H, w) ==
  /\ j.from # j.to
  /\ j.pc = "create" => One(H, w)
  /\ j.pc = "find" => IF w THEN \E k \in Calendars : H = {k, j.to} ELSE H = {j.to}
  /\ j.pc = "change" => w /\ H = {j.from, j.to}

StageEdit(j, H, w) ==
  /\ j.pc = "find" => One(H, w)
  /\ j.pc = "change" => w /\ H = {j.from}
  /\ j.pc # "create"

StageDelete(j, H, w) ==
  /\ ~w
  /\ j.pc = "find" => One(H, TRUE) \/ One(H, FALSE)
  /\ j.pc = "change" => H = {j.from}
  /\ j.pc # "create"

Stage(j, H, w) ==
  /\ j.kind = "move" => StageMove(j, H, w)
  /\ j.kind = "edit" => StageEdit(j, H, w)
  /\ j.kind = "delete" => StageDelete(j, H, w)

Alone == \A c, d \in Clients : job[c] # None /\ job[d] # None => c = d

Tidy ==
  ~errors /\ ~overlapped =>
    /\ Alone
    /\ (\A c \in Clients : job[c] = None) => One(held, wanted)
    /\ \A c \in Clients : job[c] # None => Stage(job[c], held, wanted)

LEMMA TidyInit == Init => Tidy
<1> SUFFICES ASSUME Init PROVE Tidy
  OBVIOUS
<1>1. One(held, wanted) /\ \A c \in Clients : job[c] = None
  BY DEF Init, One
<1> QED
  BY <1>1 DEF Tidy, Alone

(* A request that is sent alone starts from one copy.                      *)
LEMMA TidySend ==
  ASSUME TypeOK, Tidy, NEW c \in Clients, NEW j \in Job, Send(c, j),
         One(held, wanted) => Stage(j, held, wanted')
  PROVE  Tidy'
<1>1. job' = [job EXCEPT ![c] = j] /\ job'[c] = j /\ UNCHANGED <<held, errors>>
  BY DEF Send, TypeOK
<1>2. j # None
  BY MoveAssumption, <1>1 DEF Send, Job
<1>3. ASSUME ~errors, ~overlapped'
      PROVE  (\A d \in Clients : job[d] = None) /\ One(held, wanted)
  BY <1>3 DEF Send, Tidy
<1>4. ASSUME ~errors, ~overlapped' PROVE \A d \in Clients : d # c => job'[d] = None
  BY <1>1, <1>3, <1>4 DEF TypeOK
<1> QED
  BY <1>1, <1>2, <1>3, <1>4 DEF Tidy, Alone

LEMMA TidyBrowser ==
  ASSUME TypeOK, Tidy, NEW c \in Clients, Browser(c)
  PROVE  Tidy'
<1>1. CASE Open(c)
  BY <1>1 DEF Open, Tidy, Alone
<1>2. CASE SendMove(c)
  <2>1. PICK m \in Moves : Send(c, [kind |-> "move", from |-> m[1], to |-> m[2], pc |-> "create"])
                           /\ UNCHANGED wanted
    BY <1>2 DEF SendMove
  <2> DEFINE j == [kind |-> "move", from |-> m[1], to |-> m[2], pc |-> "create"]
  <2>2. m[1] \in Calendars /\ m[2] \in Calendars /\ m[1] # m[2]
    BY MoveAssumption
  <2>3. j \in Job
    BY <2>2 DEF Job
  <2>4. One(held, wanted) => Stage(j, held, wanted)
    BY <2>2 DEF Stage, StageMove
  <2> QED
    BY <2>1, <2>3, <2>4, TidySend
<1>3. CASE SendEdit(c)
  <2> DEFINE j == [kind |-> "edit", from |-> modal[c], to |-> modal[c], pc |-> "find"]
  <2>1. j \in Job
    BY <1>3 DEF SendEdit, TypeOK, Job
  <2>2. One(held, wanted) => Stage(j, held, wanted)
    BY DEF Stage, StageEdit
  <2> QED
    BY <1>3, <2>1, <2>2, TidySend DEF SendEdit
<1>4. CASE SendDelete(c)
  <2>1. PICK k \in {modal[c]} \cup {m[2] : m \in {n \in Moves : n[1] = modal[c]}} :
          Send(c, [kind |-> "delete", from |-> k, to |-> k, pc |-> "find"])
    BY <1>4 DEF SendDelete
  <2> DEFINE j == [kind |-> "delete", from |-> k, to |-> k, pc |-> "find"]
  <2>2. j \in Job
    BY <1>4, MoveAssumption DEF SendDelete, TypeOK, Job
  <2>3. One(held, wanted) => Stage(j, held, FALSE)
    BY DEF Stage, StageDelete, One
  <2> QED
    BY <1>4, <2>1, <2>2, <2>3, TidySend DEF SendDelete
<1> QED
  BY <1>1, <1>2, <1>3, <1>4 DEF Browser

(* The request under way goes on, or ends, alone.                          *)
LEMMA TidyOn ==
  ASSUME TypeOK, Tidy, NEW c \in Clients, job[c] # None, NEW j,
         job' = [job EXCEPT ![c] = j], UNCHANGED <<wanted, errors, overlapped>>,
         ~errors /\ ~overlapped =>
           IF j = None THEN One(held', wanted) ELSE Stage(j, held', wanted)
  PROVE  Tidy'
<1>1. job'[c] = j /\ \A d \in Clients : d # c => job'[d] = job[d]
  BY DEF TypeOK
<1>2. ASSUME ~errors, ~overlapped, NEW d \in Clients, d # c PROVE job'[d] = None
  BY <1>1, <1>2 DEF Tidy, Alone
<1> QED
  BY <1>1, <1>2 DEF Tidy, Alone

LEMMA TidyHandler ==
  ASSUME TypeOK, Tidy, NEW c \in Clients, Handler(c)
  PROVE  Tidy'
<1>a. job[c] # None /\ job[c] \in Job
  BY EffectTyped DEF Handler, Create, Find, Missing, Change, CallFails
<1>b. ASSUME ~errors, ~overlapped PROVE Stage(job[c], held, wanted)
  BY <1>a, <1>b DEF Tidy
<1>1. CASE Create(c)
  <2> DEFINE j == [job[c] EXCEPT !.pc = "find"]
  <2>1. /\ j.kind = job[c].kind /\ j.from = job[c].from /\ j.to = job[c].to /\ j.pc = "find"
        /\ j # None /\ job[c].to \in Calendars
    BY <1>a, NoneIsNoJob DEF Job
  <2>2. held' = held \cup {job[c].to} /\ job' = [job EXCEPT ![c] = j]
    BY <1>1 DEF Create, Effect, Proceed
  <2>3. ASSUME ~errors, ~overlapped PROVE Stage(j, held', wanted)
    <3>1. job[c].kind = "move" /\ StageMove(job[c], held, wanted)
      BY <1>1, <1>a, <1>b, <2>3 DEF Create, Stage, StageEdit, StageDelete, Job
    <3>2. One(held, wanted) /\ job[c].from # job[c].to
      BY <3>1, <1>1 DEF StageMove, Create
    <3>3. IF wanted THEN \E k \in Calendars : held' = {k, j.to} ELSE held' = {j.to}
      BY <3>2, <2>1, <2>2 DEF One
    <3> QED
      BY <2>1, <3>1, <3>2, <3>3 DEF Stage, StageMove
  <2> QED
    BY <1>1, <1>a, <2>1, <2>2, <2>3, TidyOn DEF Create, Proceed
<1>2. CASE Find(c)
  <2> DEFINE j == [job[c] EXCEPT !.pc = "change"]
  <2>1. /\ j.kind = job[c].kind /\ j.from = job[c].from /\ j.to = job[c].to /\ j.pc = "change"
        /\ j # None
    BY <1>a, NoneIsNoJob DEF Job
  <2>2. held' = held /\ job' = [job EXCEPT ![c] = j] /\ job[c].from \in held /\ job[c].pc = "find"
    BY <1>2 DEF Find, Proceed
  <2>3. ASSUME ~errors, ~overlapped PROVE Stage(j, held, wanted)
    <3>1. CASE job[c].kind = "move"
      <4>1. StageMove(job[c], held, wanted)
        BY <1>b, <2>3, <3>1 DEF Stage
      <4>2. wanted /\ held = {job[c].from, job[c].to} /\ job[c].from # job[c].to
        BY <4>1, <2>2 DEF StageMove
      <4> QED
        BY <2>1, <3>1, <4>2 DEF Stage, StageMove
    <3>2. CASE job[c].kind = "edit"
      <4>1. One(held, wanted)
        BY <1>b, <2>2, <2>3, <3>2 DEF Stage, StageEdit
      <4>2. wanted /\ held = {job[c].from}
        BY <4>1, <2>2 DEF One
      <4> QED
        BY <2>1, <3>2, <4>2 DEF Stage, StageEdit
    <3>3. CASE job[c].kind = "delete"
      <4>1. ~wanted /\ (One(held, TRUE) \/ One(held, FALSE))
        BY <1>b, <2>2, <2>3, <3>3 DEF Stage, StageDelete
      <4>2. held = {job[c].from}
        BY <4>1, <2>2 DEF One
      <4> QED
        BY <2>1, <3>3, <4>1, <4>2 DEF Stage, StageDelete
    <3> QED
      BY <1>a, <3>1, <3>2, <3>3 DEF Job
  <2> QED
    BY <1>2, <1>a, <2>1, <2>2, <2>3, TidyOn DEF Find, Proceed
<1>3. CASE Change(c)
  <2>1. held' = Effect(job[c]) /\ job' = [job EXCEPT ![c] = None] /\ job[c].pc = "change"
    BY <1>3 DEF Change, Done
  <2>2. ASSUME ~errors, ~overlapped PROVE One(held', wanted)
    <3>0. job[c].from \in Calendars /\ job[c].to \in Calendars
      BY <1>a, NoneIsNoJob
    <3>1. CASE job[c].kind = "move"
      <4>1. wanted /\ held = {job[c].from, job[c].to} /\ job[c].from # job[c].to
        BY <1>b, <2>1, <2>2, <3>1 DEF Stage, StageMove
      <4>2. held' = {job[c].to}
        BY <2>1, <3>1, <4>1 DEF Effect
      <4> QED
        BY <3>0, <4>1, <4>2 DEF One
    <3>2. CASE job[c].kind = "edit"
      <4>1. wanted /\ held = {job[c].from}
        BY <1>b, <2>1, <2>2, <3>2 DEF Stage, StageEdit
      <4>2. held' = {job[c].from}
        BY <2>1, <3>2, <4>1 DEF Effect
      <4> QED
        BY <3>0, <4>1, <4>2 DEF One
    <3>3. CASE job[c].kind = "delete"
      <4>1. ~wanted /\ held = {job[c].from}
        BY <1>b, <2>1, <2>2, <3>3 DEF Stage, StageDelete
      <4>2. held' = {}
        BY <2>1, <3>3, <4>1 DEF Effect
      <4> QED
        BY <4>1, <4>2 DEF One
    <3> QED
      BY <1>a, <3>1, <3>2, <3>3 DEF Job
  <2> QED
    BY <1>3, <1>a, <2>1, <2>2, TidyOn DEF Change, Done
<1>4. CASE Missing(c) \/ CallFails(c)
  BY <1>4 DEF Missing, CallFails, Fail, Tidy
<1> QED
  BY <1>1, <1>2, <1>3, <1>4 DEF Handler

(* Requests made one after the other and answered with success leave one   *)
(* copy of the item, or none once it was deleted, whatever old views they  *)
(* start from and whichever way the moves go (EventNotFoundError in        *)
(* _sync_update_event and _sync_delete_event).                             *)
THEOREM OneCopyLeft == Spec => []OneCopy
<1>1. Init => TypeOK /\ Tidy
  BY TypeInit, TidyInit
<1>2. TypeOK /\ Tidy /\ [Next]_vars => TypeOK' /\ Tidy'
  <2>1. TypeOK /\ Tidy /\ Next => Tidy'
    BY TidyBrowser, TidyHandler DEF Next
  <2>2. Tidy /\ UNCHANGED vars => Tidy'
    BY DEF vars, Tidy, Alone
  <2> QED
    BY <2>1, <2>2, TypeStep
<1>3. Tidy => OneCopy
  BY DEF Tidy, OneCopy, One
<1> QED
  BY <1>1, <1>2, <1>3, PTL DEF Spec
=============================================================================
