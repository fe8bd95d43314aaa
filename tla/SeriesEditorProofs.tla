------------------------- MODULE SeriesEditorProofs -------------------------
(***************************************************************************)
(* Theorems on SeriesEditor: for any number of clients, events, rules and  *)
(* gestures, in any interleaving and with any failures, the calendar holds *)
(* well-formed resources, none of them with two overrides for one slot,    *)
(* and with timed events a request fails only when the server does.  For   *)
(* one client that drags, deletes and creates, with series that follow     *)
(* their DTSTART and again any failures, the scoped edits keep the         *)
(* occurrences: they implement the Agenda.                                 *)
(***************************************************************************)
EXTENDS SeriesEditor, SeriesProofs

(* A resource as the calendar holds it, or its absence.                    *)
Held == {r \in Sound : r.allDay \in AllDays} \cup {NoResource}

SoundWrite == [uid : Uids, res : Held, follows : BOOLEAN]

(* TypeOK with the overrides of every resource unique, stored or pending,  *)
(* and with every resource and creation of one of the value types of the   *)
(* calendar: the inductive form of the invariants below.                   *)
IInv ==
  /\ store \in [Uids -> Held]
  /\ minted \subseteq Uids
  /\ request \in [Clients -> Request \cup {NoRequest}]
  /\ \A c \in Clients : Asks(c, "create") => request[c].allDay \in AllDays
  /\ writes \in [Clients -> Seq(SoundWrite)]
  /\ reply \in [Clients -> {"none", "ok", "notfound", "error"}]
  /\ fault \in [Clients -> BOOLEAN]
  /\ sent \in 0 .. MaxRequests

LEMMA InitHolds == Init => IInv
<1> SUFFICES ASSUME Init PROVE IInv
  OBVIOUS
<1> USE EditorAssumption
<1>1. PICK u \in Uids, start \in Starts, title \in Titles, rule \in InitialRules,
           allDay \in AllDays :
        /\ store = [v \in Uids |-> IF v = u THEN NewResource(start, title, rule, allDay)
                                   ELSE NoResource]
        /\ minted = {u}
  BY DEF Init
<1>2. NewResource(start, title, rule, allDay) \in Held
  <2>1. start \in Int /\ rule \in Rule \cup {NoRule} /\ allDay \in BOOLEAN
    OBVIOUS
  <2> QED BY <2>1 DEF NewResource, Held, Sound, Resource, OnePerSlot
<1>3. store \in [Uids -> Held] /\ minted \subseteq Uids
  BY <1>1, <1>2 DEF Held
<1>4. writes \in [Clients -> Seq(SoundWrite)]
  BY DEF Init
<1> QED BY <1>3, <1>4 DEF Init, IInv, Asks

-----------------------------------------------------------------------------
(* The client.                                                             *)

(* What a calendar view shows are occurrences, of integer slots and times. *)
LEMMA ShownTypes ==
  ASSUME NEW r \in Resource, NEW i \in Occurrences(r, Horizon)
  PROVE  i.slot \in Int /\ i.time \in Int /\ i.title \in Titles
<1>1. CASE i \in PlainOccurrences(r, Horizon)
  <2>1. PICK t \in Horizon :
          i = [slot |-> t, time |-> t, title |-> r.title, custom |-> FALSE]
    BY <1>1 DEF PlainOccurrences
  <2> QED BY <2>1, EditorAssumption DEF Resource
<1>2. CASE i \in CustomOccurrences(r)
  <2>1. PICK o \in r.overrides :
          i = [slot |-> o.rid, time |-> o.time, title |-> o.title, custom |-> TRUE]
    BY <1>2 DEF CustomOccurrences
  <2>2. o \in Override
    BY DEF Resource
  <2> QED BY <2>1, <2>2 DEF Override
<1> QED BY <1>1, <1>2 DEF Occurrences

LEMMA SendKeeps ==
  ASSUME IInv, NEW c \in Clients, NEW q \in Request, Send(c, q),
         q.op = "create" => q.allDay \in AllDays, minted' \subseteq Uids
  PROVE  IInv'
<1>1. request' \in [Clients -> Request \cup {NoRequest}]
  BY DEF IInv, Send
<1>2. \A d \in Clients : Asks(d, "create")' => request'[d].allDay \in AllDays
  BY DEF IInv, Send, Asks
<1>3. sent' \in 0 .. MaxRequests
  BY EditorAssumption DEF IInv, Send
<1>4. /\ reply' \in [Clients -> {"none", "ok", "notfound", "error"}]
      /\ fault' \in [Clients -> BOOLEAN]
  BY DEF IInv, Send
<1> QED BY <1>1, <1>2, <1>3, <1>4 DEF IInv, Send

LEMMA SendEditKeeps ==
  ASSUME IInv, NEW c \in Clients, NEW uid \in Uids, NEW i, i.slot \in Int,
         NEW start, NEW title \in Titles, NEW rule \in Rule \cup {NoRule},
         SendEdit(c, uid, i, start, title, rule)
  PROVE  IInv'
<1> DEFINE changed == (IF start # i.time THEN {"time"} ELSE {})
                        \cup (IF title # i.title THEN {"title"} ELSE {})
           E(reset) == [start |-> start, title |-> title, rule |-> rule,
                        reset |-> reset, changed |-> changed]
<1>1. start \in Int /\ minted' \subseteq Uids
  BY EditorAssumption DEF SendEdit, IInv
<1>2. changed \in SUBSET Fields
  BY DEF Fields
<1>3. \A reset \in SUBSET Fields : E(reset) \in Edit
  BY <1>1, <1>2 DEF Edit
<1>4. \/ \E scope \in Scopes, reset \in {{}, changed} :
           Send(c, [op |-> "edit", uid |-> uid, scope |-> scope,
                    rid |-> i.slot, edit |-> E(reset)])
      \/ Send(c, [op |-> "edit", uid |-> uid, scope |-> "all",
                  rid |-> NoPivot, edit |-> E({})])
  BY DEF SendEdit
<1> HIDE DEF E, changed
<1>5. CASE \E scope \in Scopes, reset \in {{}, changed} :
             Send(c, [op |-> "edit", uid |-> uid, scope |-> scope,
                      rid |-> i.slot, edit |-> E(reset)])
  <2>1. PICK scope \in Scopes, reset \in {{}, changed} :
          Send(c, [op |-> "edit", uid |-> uid, scope |-> scope,
                   rid |-> i.slot, edit |-> E(reset)])
    BY <1>5
  <2>2. E(reset) \in Edit
    BY <1>2, <1>3
  <2> DEFINE q == [op |-> "edit", uid |-> uid, scope |-> scope,
                   rid |-> i.slot, edit |-> E(reset)]
  <2>3. q \in Request /\ q.op # "create"
    BY <2>2 DEF Request
  <2> HIDE DEF q
  <2> QED BY <1>1, <2>1, <2>3, SendKeeps DEF q
<1>6. CASE Send(c, [op |-> "edit", uid |-> uid, scope |-> "all",
                    rid |-> NoPivot, edit |-> E({})])
  <2>2. E({}) \in Edit
    BY <1>3
  <2> DEFINE q == [op |-> "edit", uid |-> uid, scope |-> "all",
                   rid |-> NoPivot, edit |-> E({})]
  <2>3. q \in Request /\ q.op # "create"
    BY <2>2 DEF Request, Scopes
  <2> HIDE DEF q
  <2> QED BY <1>1, <1>6, <2>3, SendKeeps DEF q
<1> QED BY <1>4, <1>5, <1>6

LEMMA LiveResources ==
  ASSUME IInv, NEW uid \in Live
  PROVE  uid \in Uids /\ store[uid] \in Sound /\ store[uid] \in Resource
         /\ store[uid].allDay \in AllDays
BY DEF IInv, Live, Held, Sound

LEMMA ClientKeeps ==
  ASSUME IInv, NEW c \in Clients, Drag(c) \/ Save(c) \/ Delete(c) \/ Create(c)
  PROVE  IInv'
<1>1. CASE Drag(c)
  <2>1. PICK uid \in Live : \E i \in Occurrences(store[uid], Horizon), d \in Drags :
               SendEdit(c, uid, i, i.time + d, i.title, NoRule)
    BY <1>1 DEF Drag
  <2>2. PICK i \in Occurrences(store[uid], Horizon), d \in Drags :
          SendEdit(c, uid, i, i.time + d, i.title, NoRule)
    BY <2>1
  <2> QED BY <2>2, LiveResources, ShownTypes, SendEditKeeps
<1>2. CASE Save(c)
  <2>1. PICK uid \in Live :
          \E i \in Occurrences(store[uid], Horizon), d \in Retimes, title \in Titles,
             rule \in {NoRule, store[uid].rule} \cup RuleEdits :
            SendEdit(c, uid, i, i.time + d, title, rule)
    BY <1>2 DEF Save
  <2>2. PICK i \in Occurrences(store[uid], Horizon), d \in Retimes, title \in Titles,
             rule \in {NoRule, store[uid].rule} \cup RuleEdits :
          SendEdit(c, uid, i, i.time + d, title, rule)
    BY <2>1
  <2>3. rule \in Rule \cup {NoRule}
    BY LiveResources, EditorAssumption DEF Resource
  <2> QED BY <2>2, <2>3, LiveResources, ShownTypes, SendEditKeeps
<1>3. CASE Delete(c)
  <2>1. PICK uid \in Live : \E i \in Occurrences(store[uid], Horizon), scope \in Scopes :
          /\ Send(c, [op |-> "delete", uid |-> uid,
                      scope |-> IF Recurs(uid) THEN scope ELSE "all",
                      rid |-> IF Recurs(uid) THEN i.slot ELSE NoPivot])
          /\ UNCHANGED minted
    BY <1>3 DEF Delete
  <2>2. PICK i \in Occurrences(store[uid], Horizon), scope \in Scopes :
          /\ Send(c, [op |-> "delete", uid |-> uid,
                      scope |-> IF Recurs(uid) THEN scope ELSE "all",
                      rid |-> IF Recurs(uid) THEN i.slot ELSE NoPivot])
          /\ UNCHANGED minted
    BY <2>1
  <2> DEFINE q == [op |-> "delete", uid |-> uid,
                   scope |-> IF Recurs(uid) THEN scope ELSE "all",
                   rid |-> IF Recurs(uid) THEN i.slot ELSE NoPivot]
  <2>3. i.slot \in Int /\ uid \in Uids
    BY LiveResources, ShownTypes
  <2>4. q \in Request /\ q.op # "create"
    BY <2>3 DEF Request, Scopes
  <2>5. minted' \subseteq Uids
    BY <2>2 DEF IInv
  <2>6. Send(c, q)
    BY <2>2
  <2> HIDE DEF q
  <2> QED BY <2>4, <2>5, <2>6, SendKeeps
<1>4. CASE Create(c)
  <2>1. PICK uid \in Uids \ minted, start \in Starts, title \in Titles,
             rule \in RuleEdits \cup {NoRule}, allDay \in AllDays :
          /\ Send(c, [op |-> "create", uid |-> uid, allDay |-> allDay,
                      edit |-> [start |-> start, title |-> title, rule |-> rule,
                                reset |-> {}, changed |-> {}]])
          /\ minted' = minted \cup {uid}
    BY <1>4 DEF Create
  <2> DEFINE e == [start |-> start, title |-> title, rule |-> rule,
                   reset |-> {}, changed |-> {}]
             q == [op |-> "create", uid |-> uid, allDay |-> allDay, edit |-> e]
  <2>2. e \in Edit
    BY EditorAssumption DEF Edit
  <2> HIDE DEF e
  <2>3. q \in Request /\ q.allDay \in AllDays
    BY <2>2, EditorAssumption DEF Request
  <2>4. minted' \subseteq Uids
    BY <2>1 DEF IInv
  <2>5. Send(c, q)
    BY <2>1 DEF e
  <2> HIDE DEF q
  <2> QED BY <2>3, <2>4, <2>5, SendKeeps
<1> QED BY <1>1, <1>2, <1>3, <1>4

-----------------------------------------------------------------------------
(* The handler.                                                            *)

LEMMA PlanKeeps ==
  ASSUME IInv, NEW c \in Clients, NEW todo \in Seq(SoundWrite), Plan(c, todo),
         minted' \subseteq Uids
  PROVE  IInv'
BY DEF IInv, Plan, Asks

LEMMA FailKeeps ==
  ASSUME IInv, NEW c \in Clients, NEW answer \in {"notfound", "error"}, Fail(c, answer),
         fault' \in [Clients -> BOOLEAN]
  PROVE  IInv'
<1>1. <<>> \in Seq(SoundWrite)
  OBVIOUS
<1> QED BY <1>1 DEF IInv, Fail, Asks

(* A single PUT of a sound resource that takes the place of another.       *)
LEMMA PutOneKeeps ==
  ASSUME IInv, NEW c \in Clients, NEW r, r \in Sound, r.allDay \in AllDays,
         request[c].uid \in Uids, Plan(c, <<Put1(request[c].uid, r)>>), UNCHANGED minted
  PROVE  IInv'
<1>1. Put1(request[c].uid, r) \in SoundWrite
  BY DEF Put1, SoundWrite, Held
<1>2. <<Put1(request[c].uid, r)>> \in Seq(SoundWrite)
  BY <1>1
<1>3. minted' \subseteq Uids
  BY DEF IInv
<1> QED BY <1>2, <1>3, PlanKeeps

LEMMA EditRequest ==
  ASSUME IInv, NEW c \in Clients, Finds(c, "edit")
  PROVE  /\ request[c].uid \in Uids
         /\ request[c].edit \in SeriesEdit
         /\ Target(c) \in Sound /\ Target(c).allDay \in AllDays
         /\ FindsScoped(c, "edit", request[c].scope) =>
              request[c].rid \in Int /\ Target(c).rule # NoRule
<1>1. request[c] \in Request /\ request[c].op = "edit"
  BY DEF Finds, Asks, IInv
<1>2. request[c] \in [op : {"edit"}, uid : Uids, scope : Scopes,
                      rid : Int \cup {NoPivot}, edit : Edit]
  BY <1>1 DEF Request
<1>3. request[c].uid \in Uids /\ request[c].edit \in SeriesEdit
  BY <1>2 DEF Edit, SeriesEdit
<1>4. Target(c) \in Sound /\ Target(c).allDay \in AllDays
  BY <1>3 DEF Finds, Target, IInv, Held
<1> QED BY <1>2, <1>3, <1>4 DEF FindsScoped, Scoped

LEMMA DeleteRequest ==
  ASSUME IInv, NEW c \in Clients, Finds(c, "delete")
  PROVE  /\ request[c].uid \in Uids
         /\ Target(c) \in Sound /\ Target(c).allDay \in AllDays
         /\ Scoped(c) => request[c].rid \in Int /\ Target(c).rule # NoRule
<1>1. request[c] \in Request /\ request[c].op = "delete"
  BY DEF Finds, Asks, IInv
<1>2. request[c] \in [op : {"delete"}, uid : Uids, scope : Scopes, rid : Int \cup {NoPivot}]
  BY <1>1 DEF Request
<1>3. Target(c) \in Sound /\ Target(c).allDay \in AllDays
  BY <1>2 DEF Finds, Target, IInv, Held
<1> QED BY <1>2, <1>3 DEF Scoped

(* The pivot of a scoped edit is an integer.                               *)
LEMMA PivotTypes ==
  ASSUME IInv, NEW c \in Clients, NEW scope, FindsScoped(c, "edit", scope),
         NEW pivot \in Pivots(c)
  PROVE  pivot \in Int
<1>1. Finds(c, "edit") /\ request[c].scope = scope
  BY DEF FindsScoped
<1>2. request[c].rid \in Int /\ Target(c) \in Resource
  BY <1>1, EditRequest DEF Sound
<1>3. pivot = request[c].rid \/ \E o \in Target(c).overrides : pivot = o.rid
  BY DEF Pivots, ResolvePivot
<1> QED BY <1>2, <1>3 DEF Resource, Override

LEMMA UpdateKeeps ==
  ASSUME IInv, NEW c \in Clients,
         UpdatePlain(c) \/ UpdateAll(c) \/ UpdateThis(c) \/ UpdateFirst(c) \/ UpdateSplit(c)
  PROVE  IInv'
<1> DEFINE e == request[c].edit
           r == Target(c)
<1>1. CASE UpdatePlain(c)
  <2>1. request[c].uid \in Uids /\ e \in SeriesEdit /\ r \in Sound /\ r.allDay \in AllDays
    BY <1>1, EditRequest DEF UpdatePlain
  <2>2. EditPlain(r, e) \in Sound /\ EditPlain(r, e).allDay \in AllDays
    BY <2>1, EditsStaySound, 0 \in Int
  <2> QED BY <1>1, <2>1, <2>2, PutOneKeeps DEF UpdatePlain
<1>2. ASSUME NEW scope, FindsScoped(c, "edit", scope), NEW pivot \in Pivots(c)
      PROVE  /\ request[c].uid \in Uids /\ e \in SeriesEdit /\ pivot \in Int
             /\ r \in Sound /\ r.allDay \in AllDays /\ r.rule # NoRule
  <2>1. Finds(c, "edit") /\ FindsScoped(c, "edit", request[c].scope)
    BY <1>2 DEF FindsScoped
  <2> QED BY <1>2, <2>1, EditRequest, PivotTypes
<1>3. CASE UpdateAll(c)
  <2>1. PICK pivot \in Pivots(c) : Plan(c, <<Put1(request[c].uid, EditAll(r, e, pivot))>>)
    BY <1>3 DEF UpdateAll
  <2>2. FindsScoped(c, "edit", "all") /\ UNCHANGED minted
    BY <1>3 DEF UpdateAll
  <2>3. EditAll(r, e, pivot) \in Sound /\ EditAll(r, e, pivot).allDay \in AllDays
    BY <1>2, <2>2, SeriesEditsStaySound
  <2> QED BY <1>2, <2>1, <2>2, <2>3, PutOneKeeps
<1>4. CASE UpdateThis(c)
  <2>1. PICK pivot \in Pivots(c) : Plan(c, <<Put1(request[c].uid, EditThis(r, e, pivot))>>)
    BY <1>4 DEF UpdateThis
  <2>2. FindsScoped(c, "edit", "this") /\ UNCHANGED minted
    BY <1>4 DEF UpdateThis
  <2>3. EditThis(r, e, pivot) \in Sound /\ EditThis(r, e, pivot).allDay \in AllDays
    BY <1>2, <2>2, EditsStaySound
  <2> QED BY <1>2, <2>1, <2>2, <2>3, PutOneKeeps
<1>5. CASE UpdateFirst(c)
  <2>1. PICK pivot \in Pivots(c) :
          Plan(c, <<Put1(request[c].uid, RewriteFirst(r, e, pivot))>>)
    BY <1>5 DEF UpdateFirst
  <2>2. FindsScoped(c, "edit", "thisfuture") /\ UNCHANGED minted
    BY <1>5 DEF UpdateFirst
  <2>3. RewriteFirst(r, e, pivot) \in Sound /\ RewriteFirst(r, e, pivot).allDay \in AllDays
    BY <1>2, <2>2, SeriesEditsStaySound
  <2> QED BY <1>2, <2>1, <2>2, <2>3, PutOneKeeps
<1>6. CASE UpdateSplit(c)
  <2>1. PICK pivot \in Pivots(c), new \in Uids \ minted :
          /\ minted' = minted \cup {new}
          /\ Plan(c, <<Put1(request[c].uid, SplitOld(r, pivot)), Put2(new, SplitNew(r, e, pivot))>>)
    BY <1>6 DEF UpdateSplit
  <2>2. FindsScoped(c, "edit", "thisfuture")
    BY <1>6 DEF UpdateSplit
  <2>3. /\ SplitOld(r, pivot) \in Sound /\ SplitOld(r, pivot).allDay \in AllDays
        /\ SplitNew(r, e, pivot) \in Sound /\ SplitNew(r, e, pivot).allDay \in AllDays
    BY <1>2, <2>2, SeriesEditsStaySound
  <2>4. /\ Put1(request[c].uid, SplitOld(r, pivot)) \in SoundWrite
        /\ Put2(new, SplitNew(r, e, pivot)) \in SoundWrite
    BY <1>2, <2>2, <2>3 DEF Put1, Put2, SoundWrite, Held
  <2>5. <<Put1(request[c].uid, SplitOld(r, pivot)), Put2(new, SplitNew(r, e, pivot))>>
          \in Seq(SoundWrite)
    BY <2>4
  <2>6. minted' \subseteq Uids
    BY <2>1 DEF IInv
  <2> QED BY <2>1, <2>5, <2>6, PlanKeeps
<1> QED BY <1>1, <1>3, <1>4, <1>5, <1>6

LEMMA DeleteKeeps ==
  ASSUME IInv, NEW c \in Clients, DeleteResource(c) \/ DeleteOccurrence(c) \/ DeleteTail(c)
  PROVE  IInv'
<1> DEFINE r == Target(c)
<1>1. Finds(c, "delete") /\ UNCHANGED minted
  BY DEF DeleteResource, DeleteOccurrence, DeleteTail, FindsScoped
<1>2. request[c].uid \in Uids /\ r \in Sound /\ r.allDay \in AllDays
  BY <1>1, DeleteRequest
<1>3. CASE DeleteResource(c)
  <2>1. Plan(c, <<Put1(request[c].uid, NoResource)>>)
    BY <1>3 DEF DeleteResource
  <2>2. Put1(request[c].uid, NoResource) \in SoundWrite
    BY <1>2 DEF Put1, SoundWrite, Held
  <2>3. <<Put1(request[c].uid, NoResource)>> \in Seq(SoundWrite)
    BY <2>2
  <2>4. minted' \subseteq Uids
    BY <1>1 DEF IInv
  <2> QED BY <2>1, <2>3, <2>4, PlanKeeps
<1>4. CASE DeleteOccurrence(c)
  <2>1. /\ Plan(c, <<Put1(request[c].uid, DeleteThis(r, request[c].rid))>>)
        /\ Scoped(c)
    BY <1>4 DEF DeleteOccurrence, FindsScoped
  <2>2. request[c].rid \in Int
    BY <1>1, <2>1, DeleteRequest
  <2>3. DeleteThis(r, request[c].rid) \in Sound /\ DeleteThis(r, request[c].rid).allDay \in AllDays
    BY <1>2, <2>2 DEF DeleteThis, Sound, Resource
  <2> QED BY <1>1, <1>2, <2>1, <2>3, PutOneKeeps
<1>5. CASE DeleteTail(c)
  <2>1. /\ Plan(c, <<Put1(request[c].uid, DeleteFuture(r, request[c].rid))>>)
        /\ Scoped(c)
    BY <1>5 DEF DeleteTail, FindsScoped
  <2>2. request[c].rid \in Int /\ r.rule # NoRule
    BY <1>1, <2>1, DeleteRequest
  <2>3. /\ DeleteFuture(r, request[c].rid) \in Sound
        /\ DeleteFuture(r, request[c].rid).allDay \in AllDays
    BY <1>2, <2>2, DeletesStaySound
  <2> QED BY <1>1, <1>2, <2>1, <2>3, PutOneKeeps
<1> QED BY <1>3, <1>4, <1>5

LEMMA CreateKeeps ==
  ASSUME IInv, NEW c \in Clients, CreateEvent(c)
  PROVE  IInv'
<1> DEFINE e == request[c].edit
           rule == IF e.rule = NoRule THEN NoRule ELSE BuildRule(e.rule, e.start)
           r == NewResource(e.start, e.title, rule, request[c].allDay)
<1>1. Asks(c, "create") /\ Plan(c, <<Put1(request[c].uid, r)>>) /\ UNCHANGED minted
  BY DEF CreateEvent
<1>2. request[c] \in Request /\ request[c].op = "create" /\ request[c].allDay \in AllDays
  BY <1>1 DEF Asks, IInv
<1>3. request[c].uid \in Uids /\ e \in Edit /\ request[c].allDay \in BOOLEAN
  BY <1>2 DEF Request
<1>4. e.start \in Int /\ e.title \in Titles /\ e.rule \in Rule \cup {NoRule}
  BY <1>3 DEF Edit
<1>5. rule \in Rule \cup {NoRule}
  BY <1>4, RuleTypes
<1> HIDE DEF e, rule
<1>6. r \in Sound /\ r.allDay \in AllDays
  BY <1>2, <1>3, <1>4, <1>5 DEF NewResource, Sound, Resource, OnePerSlot
<1> HIDE DEF r
<1> QED BY <1>1, <1>3, <1>6, PutOneKeeps

LEMMA RefusalKeeps ==
  ASSUME IInv, NEW c \in Clients, NotFound(c) \/ UpdateFirstRaises(c)
  PROVE  IInv'
<1>1. fault' \in [Clients -> BOOLEAN]
  BY DEF NotFound, UpdateFirstRaises, IInv
<1>2. Fail(c, "notfound") \/ Fail(c, "error")
  BY DEF NotFound, UpdateFirstRaises
<1> QED BY <1>1, <1>2, FailKeeps

-----------------------------------------------------------------------------
(* The calls to the server.                                                *)

LEMMA CallKeeps ==
  ASSUME IInv, NEW c \in Clients, Put(c) \/ CallFails(c) \/ AnswerLost(c)
  PROVE  IInv'
<1>1. ASSUME writes[c] # <<>>
      PROVE  /\ Head(writes[c]) \in SoundWrite
             /\ Tail(writes[c]) \in Seq(SoundWrite)
  BY <1>1 DEF IInv
<1>2. ASSUME writes[c] # <<>>, Apply(Head(writes[c]))
      PROVE  store' \in [Uids -> Held]
  BY <1>1, <1>2 DEF IInv, Apply, SoundWrite
<1>3. CASE Put(c)
  <2>1. store' \in [Uids -> Held] /\ writes' \in [Clients -> Seq(SoundWrite)]
    BY <1>1, <1>2, <1>3 DEF Put, IInv
  <2>2. reply' \in [Clients -> {"none", "ok", "notfound", "error"}]
    BY <1>3 DEF Put, IInv
  <2> QED BY <1>3, <2>1, <2>2 DEF Put, IInv, Asks
<1>4. CASE CallFails(c)
  <2>1. fault' \in [Clients -> BOOLEAN] /\ Fail(c, "error")
    BY <1>4 DEF CallFails, IInv
  <2> QED BY <2>1, FailKeeps
<1>5. CASE AnswerLost(c)
  <2>1. store' \in [Uids -> Held]
    BY <1>2, <1>5 DEF AnswerLost
  <2>2. <<>> \in Seq(SoundWrite)
    OBVIOUS
  <2>3. /\ writes' \in [Clients -> Seq(SoundWrite)]
        /\ reply' \in [Clients -> {"none", "ok", "notfound", "error"}]
        /\ fault' \in [Clients -> BOOLEAN]
    BY <1>5, <2>2 DEF AnswerLost, IInv
  <2> QED BY <1>5, <2>1, <2>3 DEF AnswerLost, IInv, Asks
<1> QED BY <1>3, <1>4, <1>5

LEMMA NextKeeps == IInv /\ [Next]_vars => IInv'
<1> SUFFICES ASSUME IInv, [Next]_vars PROVE IInv'
  OBVIOUS
<1>1. CASE UNCHANGED vars
  BY <1>1 DEF IInv, vars, Asks
<1>2. ASSUME NEW c \in Clients, Drag(c) \/ Save(c) \/ Delete(c) \/ Create(c) \/ Server(c)
      PROVE  IInv'
  <2>1. CASE Drag(c) \/ Save(c) \/ Delete(c) \/ Create(c)
    BY <2>1, ClientKeeps
  <2>2. CASE Handle(c)
    BY <2>2, RefusalKeeps, CreateKeeps, UpdateKeeps, DeleteKeeps DEF Handle
  <2>3. CASE Put(c) \/ CallFails(c) \/ AnswerLost(c)
    BY <2>3, CallKeeps
  <2> QED BY <1>2, <2>1, <2>2, <2>3 DEF Server
<1> QED BY <1>1, <1>2 DEF Next

LEMMA Invariance == Spec => []IInv
BY InitHolds, NextKeeps, PTL DEF Spec

-----------------------------------------------------------------------------
(* The theorems.                                                           *)

(* Type correctness: whatever clients do and whichever calls fail, what is *)
(* stored, planned and answered has its type; in particular no edit ever   *)
(* makes a rule with a COUNT below one.                                    *)
THEOREM TypeCorrect == Spec => []TypeOK
<1>1. IInv => TypeOK
  <2> SUFFICES ASSUME IInv PROVE TypeOK
    OBVIOUS
  <2>1. Held \subseteq Resource \cup {NoResource}
    BY DEF Held, Sound
  <2>2. SoundWrite \subseteq Write
    BY <2>1 DEF SoundWrite, Write
  <2>3. store \in [Uids -> Resource \cup {NoResource}]
    BY <2>1 DEF IInv
  <2>4. \A c \in Clients : writes[c] \in Seq(Write)
    BY <2>2 DEF IInv
  <2>5. writes \in [Clients -> Seq(Write)]
    BY <2>4 DEF IInv
  <2> QED BY <2>3, <2>5 DEF IInv, TypeOK
<1> QED BY <1>1, Invariance, PTL

(* No slot of a series ever has two overrides, in the calendar or in a PUT *)
(* on its way to it (_upsert_override, _shift_override, _pop_overrides).   *)
THEOREM OverridesUnique == Spec => []UniqueOverrides
<1>1. IInv => UniqueOverrides
  <2> SUFFICES ASSUME IInv, NEW r \in Resources PROVE OnePerSlot(r.overrides)
    BY DEF UniqueOverrides
  <2>1. r # NoResource /\ (r \in {store[u] : u \in Uids} \/ r \in Pending)
    BY DEF Resources
  <2>2. r \in {store[u] : u \in Uids} => r \in Held
    BY DEF IInv
  <2>3. r \in Pending => r \in Held
    <3> SUFFICES ASSUME NEW c \in Clients, NEW k \in DOMAIN writes[c], r = writes[c][k].res
                 PROVE  r \in Held
      BY DEF Pending
    <3>1. writes[c] \in Seq(SoundWrite)
      BY DEF IInv
    <3>2. writes[c][k] \in SoundWrite
      BY <3>1
    <3> QED BY <3>2 DEF SoundWrite
  <2> QED BY <2>1, <2>2, <2>3 DEF Held, Sound
<1> QED BY <1>1, Invariance, PTL

-----------------------------------------------------------------------------
(* One client that drags, creates and deletes.  The model's saves send the *)
(* rule of the editor along and are left out here.                         *)

OneClient == \A c, d \in Clients : c = d

DragsOnly ==
  /\ OneClient /\ Retimes = {}
  /\ \A rule \in InitialRules \cup RuleEdits : rule # NoRule => rule \in Following

(* An edit in the shadow of a moved occurrence reaches that one, which may *)
(* have been deleted since.                                                *)
Unshadowed == EditShadowed = FALSE

EditSlots(r) == IF EditShadowed THEN SlotsOf(r) ELSE Kept(r)

LEMMA EditSlotsAre ==
  ASSUME NEW r
  PROVE  /\ EditSlots(r) \subseteq SlotsOf(r) /\ Kept(r) \subseteq EditSlots(r)
         /\ Unshadowed => EditSlots(r) = Kept(r)
BY DEF EditSlots, Kept, Unshadowed

(* What one PUT or DELETE can put in the place of what is stored.          *)
Created(r2) ==
  \E start \in Starts, title \in Titles, rule \in InitialRules \cup RuleEdits \cup {NoRule},
     allDay \in AllDays : r2 = NewResource(start, title, rule, allDay)

EditedPlain(r, r2) ==
  r.rule = NoRule /\ \E e \in Gesture : e.start \in Times /\ r2 = EditPlain(r, e)

EditedSeries(r, r2) ==
  r.rule # NoRule /\ \E pivot \in EditSlots(r), e \in Gesture :
    /\ e.start \in Times
    /\ \/ r2 = EditAll(r, e, pivot)
       \/ r2 = EditThis(r, e, pivot)
       \/ pivot = r.start /\ r2 = RewriteFirst(r, e, pivot)

DeletedFrom(r, r2) ==
  r.rule # NoRule /\ \E pivot \in Kept(r) :
    r2 = DeleteThis(r, pivot) \/ (pivot > r.start /\ r2 = DeleteFuture(r, pivot))

Rewrites(r, r2) ==
  \/ r = NoResource /\ Created(r2)
  \/ r # NoResource /\ r2 = NoResource
  \/ r # NoResource /\ (EditedPlain(r, r2) \/ EditedSeries(r, r2) \/ DeletedFrom(r, r2))

Splits(r, old, rest) ==
  /\ r # NoResource /\ r.rule # NoRule
  /\ \E pivot \in EditSlots(r), e \in Gesture :
       /\ e.start \in Times /\ pivot > r.start
       /\ old = SplitOld(r, pivot) /\ rest = SplitNew(r, e, pivot)

(* A set of resources that gestures do not lead out of.                    *)
Closed(G) ==
  /\ G \subseteq Tidy
  /\ \A r2 : Created(r2) => r2 \in G
  /\ \A r \in G : \A r2 : EditedPlain(r, r2) \/ EditedSeries(r, r2) \/ DeletedFrom(r, r2) => r2 \in G
  /\ \A r \in G : \A old, rest : Splits(r, old, rest) => old \in G /\ rest \in G

(* A request was made of what the calendar still holds: an occurrence it   *)
(* shows and, out of the shadows, the only one it can be taken for.        *)
FreshRequest(q, r) ==
  /\ q.op = "create" => /\ r = NoResource
                        /\ q.edit.start \in Starts /\ q.edit.rule \in RuleEdits \cup {NoRule}
  /\ q.op \in {"edit", "delete"} =>
       /\ r # NoResource
       /\ r.rule = NoRule => q.rid = NoPivot
       /\ r.rule # NoRule => q.rid \in Kept(r)
  /\ q.op = "edit" =>
       /\ q.edit \in Gesture /\ q.edit.start \in Times
       /\ r.rule # NoRule => /\ ResolvePivot(r, q.rid) \subseteq EditSlots(r)
                             /\ Unshadowed => ResolvePivot(r, q.rid) = {q.rid}

Fresh(c) ==
  request[c] # NoRequest =>
    /\ writes[c] = <<>> /\ request[c].uid \in minted
    /\ FreshRequest(request[c], store[request[c].uid])

(* The calls still to be made rewrite what the calendar holds.             *)
Planned(c, G) ==
  \/ writes[c] = <<>>
  \/ \E uid \in minted, r2 \in G \cup {NoResource} :
       writes[c] = <<Put1(uid, r2)>> /\ Rewrites(store[uid], r2)
  \/ \E uid \in minted, new \in minted, old \in G, rest \in G :
       /\ writes[c] = <<Put1(uid, old), Put2(new, rest)>>
       /\ store[new] = NoResource /\ Splits(store[uid], old, rest)
  \/ \E new \in minted, rest \in G :
       writes[c] = <<Put2(new, rest)>> /\ store[new] = NoResource

DragInv(G) ==
  /\ \A u \in Uids : store[u] # NoResource => store[u] \in G
  /\ \A u \in Uids \ minted : store[u] = NoResource
  /\ \A c \in Clients : Fresh(c) /\ Planned(c, G)

LEMMA NothingIsTidy == NoResource \notin Tidy
BY EditorAssumption DEF Tidy, Sound

LEMMA TidyClosed ==
  ASSUME DragsOnly
  PROVE  Closed(Tidy)
<1>1. ASSUME NEW r2, Created(r2) PROVE r2 \in Tidy
  <2>1. PICK start \in Starts, title \in Titles, rule \in InitialRules \cup RuleEdits \cup {NoRule},
             allDay \in AllDays : r2 = NewResource(start, title, rule, allDay)
    BY <1>1 DEF Created
  <2>2. /\ start \in Int /\ allDay \in BOOLEAN /\ rule \in Rule \cup {NoRule}
        /\ rule # NoRule => rule \in Following
    BY EditorAssumption DEF DragsOnly
  <2>3. r2 \in Sound
    BY <2>1, <2>2 DEF NewResource, Sound, Resource, OnePerSlot
  <2>4. r2.rule = rule /\ r2.exdates = {} /\ r2.overrides = {}
    BY <2>1 DEF NewResource
  <2> QED BY <2>2, <2>3, <2>4 DEF Tidy
<1>2. ASSUME NEW r \in Tidy, NEW r2,
             EditedPlain(r, r2) \/ EditedSeries(r, r2) \/ DeletedFrom(r, r2)
      PROVE  r2 \in Tidy
  <2>1. CASE EditedPlain(r, r2)
    BY <2>1, EditPlainSlots DEF EditedPlain
  <2>2. CASE EditedSeries(r, r2)
    <3>1. PICK pivot \in EditSlots(r), e \in Gesture :
            \/ r2 = EditAll(r, e, pivot)
            \/ r2 = EditThis(r, e, pivot)
            \/ pivot = r.start /\ r2 = RewriteFirst(r, e, pivot)
      BY <2>2 DEF EditedSeries
    <3>2. pivot \in SlotsOf(r) /\ e \in SeriesEdit /\ r.rule # NoRule
      BY <2>2, EditSlotsAre DEF Gesture, EditedSeries
    <3>3. EditAll(r, e, pivot) \in Tidy /\ EditThis(r, e, pivot) \in Tidy
      BY <3>2, EditAllSlots, EditThisSlots
    <3>4. pivot = r.start => RewriteFirst(r, e, pivot) \in Tidy
      BY <3>2, RewriteFirstSlots
    <3> QED BY <3>1, <3>3, <3>4
  <2>3. CASE DeletedFrom(r, r2)
    <3>1. PICK pivot \in Kept(r) :
            r2 = DeleteThis(r, pivot) \/ (pivot > r.start /\ r2 = DeleteFuture(r, pivot))
      BY <2>3 DEF DeletedFrom
    <3>2. pivot \in SlotsOf(r) /\ r.rule # NoRule
      BY <2>3 DEF Kept, DeletedFrom
    <3>3. DeleteThis(r, pivot) \in Tidy /\ (pivot > r.start => DeleteFuture(r, pivot) \in Tidy)
      BY <3>2, DeleteThisSlots, CutSlots
    <3> QED BY <3>1, <3>3
  <2> QED BY <1>2, <2>1, <2>2, <2>3
<1>3. ASSUME NEW r \in Tidy, NEW old, NEW rest, Splits(r, old, rest)
      PROVE  old \in Tidy /\ rest \in Tidy
  <2>1. PICK pivot \in EditSlots(r), e \in Gesture :
          /\ e.start \in Times /\ pivot > r.start
          /\ old = SplitOld(r, pivot) /\ rest = SplitNew(r, e, pivot)
    BY <1>3 DEF Splits
  <2>2. pivot \in SlotsOf(r) /\ r.rule # NoRule
    BY <1>3, EditSlotsAre DEF Splits
  <2> QED BY <2>1, <2>2, CutSlots, SplitNewSlots
<1> QED BY <1>1, <1>2, <1>3 DEF Closed

LEMMA InitDrags ==
  ASSUME NEW G, Closed(G), Init
  PROVE  DragInv(G)
<1>1. PICK u \in Uids, start \in Starts, title \in Titles, rule \in InitialRules,
           allDay \in AllDays :
        /\ store = [v \in Uids |-> IF v = u THEN NewResource(start, title, rule, allDay)
                                   ELSE NoResource]
        /\ minted = {u}
  BY DEF Init
<1>2. Created(NewResource(start, title, rule, allDay))
  BY DEF Created
<1>3. NewResource(start, title, rule, allDay) \in G
  BY <1>2 DEF Closed
<1>4. \A c \in Clients : Fresh(c) /\ Planned(c, G)
  BY DEF Init, Fresh, Planned
<1> QED BY <1>1, <1>3, <1>4 DEF DragInv

(* An occurrence shown is one of a slot that is kept; a request for it is  *)
(* about a slot of its series and, out of the shadow of the moved ones,    *)
(* about it.                                                               *)
LEMMA ShownSlot ==
  ASSUME NEW r \in Tidy, NEW i \in Occurrences(r, Horizon)
  PROVE  /\ i.slot \in Kept(r)
         /\ ResolvePivot(r, i.slot) \subseteq SlotsOf(r)
         /\ (i.custom \/ ~ \E o \in r.overrides : o.time = i.slot) =>
              ResolvePivot(r, i.slot) = {i.slot}
<1>0. \A o \in r.overrides : o.rid \in SlotsOf(r)
  BY DEF Tidy
<1>1. CASE i \in PlainOccurrences(r, Horizon)
  <2>1. PICK t \in Horizon :
          /\ i = [slot |-> t, time |-> t, title |-> r.title, custom |-> FALSE]
          /\ IsSlot(r.start, r.rule, t) /\ t \notin r.exdates
    BY <1>1 DEF PlainOccurrences
  <2>2. t \in Int
    BY EditorAssumption
  <2>3. i.slot \in Kept(r) /\ i.slot \in SlotsOf(r) /\ ~i.custom
    BY <2>1, <2>2 DEF Kept, SlotsOf
  <2> QED BY <1>0, <2>3 DEF ResolvePivot
<1>2. CASE i \in CustomOccurrences(r)
  <2>1. PICK o \in r.overrides :
          /\ i = [slot |-> o.rid, time |-> o.time, title |-> o.title, custom |-> TRUE]
          /\ o.rid \notin r.exdates
    BY <1>2 DEF CustomOccurrences
  <2>2. i.slot \in Kept(r) /\ i.slot \in SlotsOf(r) /\ i.slot = o.rid
    BY <1>0, <2>1 DEF Kept
  <2> QED BY <2>2 DEF ResolvePivot
<1> QED BY <1>1, <1>2 DEF Occurrences

LEMMA SendDrags ==
  ASSUME DragsOnly, IInv, NEW G, DragInv(G), NEW c \in Clients, NEW q, Send(c, q),
         minted \subseteq minted', q.uid \in minted', FreshRequest(q, store[q.uid])
  PROVE  DragInv(G)'
<1>1. \A d \in Clients : d = c
  BY DEF DragsOnly, OneClient
<1>2. /\ writes' = writes /\ store' = store /\ writes[c] = <<>>
      /\ request'[c] = q
  BY DEF Send, Idle, IInv
<1>3. Fresh(c)'
  BY <1>2 DEF Fresh
<1>4. Planned(c, G)'
  BY <1>2 DEF Planned
<1>5. \A u \in Uids \ minted' : store'[u] = NoResource
  BY <1>2 DEF DragInv
<1>6. \A u \in Uids : store'[u] # NoResource => store'[u] \in G
  BY <1>2 DEF DragInv
<1> QED BY <1>1, <1>3, <1>4, <1>5, <1>6 DEF DragInv

LEMMA LiveTidy ==
  ASSUME NEW G, Closed(G), DragInv(G), NEW uid \in Live
  PROVE  uid \in Uids /\ uid \in minted /\ store[uid] \in G /\ store[uid] \in Tidy
         /\ store[uid] # NoResource
BY DEF Live, DragInv, Closed

LEMMA ClientDrags ==
  ASSUME DragsOnly, IInv, NEW G, Closed(G), DragInv(G), NEW c \in Clients,
         Drag(c) \/ Save(c) \/ Delete(c) \/ Create(c)
  PROVE  DragInv(G)'
<1>1. CASE Drag(c)
  <2>1. PICK uid \in Live : \E i \in Occurrences(store[uid], Horizon), d \in Drags :
               SendEdit(c, uid, i, i.time + d, i.title, NoRule)
    BY <1>1 DEF Drag
  <2>2. PICK i \in Occurrences(store[uid], Horizon), d \in Drags :
          SendEdit(c, uid, i, i.time + d, i.title, NoRule)
    BY <2>1
  <2>3. /\ uid \in Uids /\ uid \in minted /\ store[uid] \in Tidy /\ store[uid] # NoResource
        /\ store[uid] \in Resource
    BY LiveTidy, TidyParts
  <2>4. i.slot \in Kept(store[uid]) /\ i.title \in Titles
    BY <2>3, ShownSlot, ShownTypes
  <2>5. /\ EditShadowed \/ ~ Shadowed(uid, i)
        /\ UNCHANGED minted /\ i.time + d \in Times
    BY <2>2 DEF SendEdit
  <2>6. /\ ResolvePivot(store[uid], i.slot) \subseteq EditSlots(store[uid])
        /\ Unshadowed => ResolvePivot(store[uid], i.slot) = {i.slot}
    <3>1. EditShadowed \/ ResolvePivot(store[uid], i.slot) = {i.slot}
      BY <2>3, <2>5, ShownSlot DEF Shadowed
    <3>2. ResolvePivot(store[uid], i.slot) \subseteq SlotsOf(store[uid])
      BY <2>3, ShownSlot
    <3> QED BY <2>4, <3>1, <3>2 DEF EditSlots, Unshadowed
  <2> DEFINE changed == (IF i.time + d # i.time THEN {"time"} ELSE {})
                          \cup (IF i.title # i.title THEN {"title"} ELSE {})
             E(reset) == [start |-> i.time + d, title |-> i.title, rule |-> NoRule,
                          reset |-> reset, changed |-> changed]
  <2>7. \/ /\ Recurs(uid)
           /\ \E scope \in Scopes, reset \in {{}, changed} :
                Send(c, [op |-> "edit", uid |-> uid, scope |-> scope,
                         rid |-> i.slot, edit |-> E(reset)])
        \/ /\ ~Recurs(uid)
           /\ Send(c, [op |-> "edit", uid |-> uid, scope |-> "all",
                       rid |-> NoPivot, edit |-> E({})])
    BY <2>2 DEF SendEdit
  <2>8. changed \in SUBSET Fields
    BY DEF Fields
  <2>9. \A reset \in SUBSET Fields : E(reset) \in Gesture /\ E(reset).start \in Times
    BY <2>4, <2>5, <2>8, EditorAssumption DEF Gesture, SeriesEdit
  <2> HIDE DEF changed, E
  <2>10. CASE Recurs(uid)
    <3>1. PICK scope \in Scopes, reset \in {{}, changed} :
            Send(c, [op |-> "edit", uid |-> uid, scope |-> scope,
                     rid |-> i.slot, edit |-> E(reset)])
      BY <2>7, <2>10
    <3> DEFINE q == [op |-> "edit", uid |-> uid, scope |-> scope,
                     rid |-> i.slot, edit |-> E(reset)]
    <3>2. reset \in SUBSET Fields
      BY <2>8
    <3>3. FreshRequest(q, store[q.uid]) /\ q.uid = uid
      BY <2>3, <2>4, <2>6, <2>9, <2>10, <3>2 DEF FreshRequest, Recurs
    <3>4. Send(c, q)
      BY <3>1
    <3> HIDE DEF q
    <3> QED BY <2>3, <2>5, <3>3, <3>4, SendDrags
  <2>11. CASE ~Recurs(uid)
    <3> DEFINE q == [op |-> "edit", uid |-> uid, scope |-> "all",
                     rid |-> NoPivot, edit |-> E({})]
    <3>1. FreshRequest(q, store[q.uid]) /\ q.uid = uid
      BY <2>3, <2>9, <2>11 DEF FreshRequest, Recurs
    <3>2. Send(c, q)
      BY <2>7, <2>11
    <3> HIDE DEF q
    <3> QED BY <2>3, <2>5, <3>1, <3>2, SendDrags
  <2> QED BY <2>10, <2>11
<1>2. CASE Save(c)
  BY <1>2 DEF Save, DragsOnly
<1>3. CASE Delete(c)
  <2>1. PICK uid \in Live : \E i \in Occurrences(store[uid], Horizon), scope \in Scopes :
          /\ Send(c, [op |-> "delete", uid |-> uid,
                      scope |-> IF Recurs(uid) THEN scope ELSE "all",
                      rid |-> IF Recurs(uid) THEN i.slot ELSE NoPivot])
          /\ UNCHANGED minted
    BY <1>3 DEF Delete
  <2>2. PICK i \in Occurrences(store[uid], Horizon), scope \in Scopes :
          /\ Send(c, [op |-> "delete", uid |-> uid,
                      scope |-> IF Recurs(uid) THEN scope ELSE "all",
                      rid |-> IF Recurs(uid) THEN i.slot ELSE NoPivot])
          /\ UNCHANGED minted
    BY <2>1
  <2>3. uid \in minted /\ store[uid] \in Tidy /\ store[uid] # NoResource
    BY LiveTidy
  <2>4. i.slot \in Kept(store[uid])
    BY <2>3, ShownSlot
  <2> DEFINE q == [op |-> "delete", uid |-> uid,
                   scope |-> IF Recurs(uid) THEN scope ELSE "all",
                   rid |-> IF Recurs(uid) THEN i.slot ELSE NoPivot]
  <2>5. FreshRequest(q, store[q.uid]) /\ q.uid = uid
    BY <2>3, <2>4 DEF FreshRequest, Recurs
  <2>6. Send(c, q)
    BY <2>2
  <2> HIDE DEF q
  <2> QED BY <2>2, <2>3, <2>5, <2>6, SendDrags
<1>4. CASE Create(c)
  <2>1. PICK uid \in Uids \ minted, start \in Starts, title \in Titles,
             rule \in RuleEdits \cup {NoRule}, allDay \in AllDays :
          /\ Send(c, [op |-> "create", uid |-> uid, allDay |-> allDay,
                      edit |-> [start |-> start, title |-> title, rule |-> rule,
                                reset |-> {}, changed |-> {}]])
          /\ minted' = minted \cup {uid}
    BY <1>4 DEF Create
  <2> DEFINE q == [op |-> "create", uid |-> uid, allDay |-> allDay,
                   edit |-> [start |-> start, title |-> title, rule |-> rule,
                             reset |-> {}, changed |-> {}]]
  <2>2. store[uid] = NoResource
    BY DEF DragInv
  <2>3. FreshRequest(q, store[q.uid]) /\ q.uid = uid
    BY <2>2 DEF FreshRequest
  <2>4. Send(c, q)
    BY <2>1
  <2> HIDE DEF q
  <2> QED BY <2>1, <2>3, <2>4, SendDrags
<1> QED BY <1>1, <1>2, <1>3, <1>4


-----------------------------------------------------------------------------
(* The handler plans rewritings of what the calendar holds.                *)

LEMMA PlanDrags ==
  ASSUME DragsOnly, IInv, NEW G, DragInv(G), NEW c \in Clients, NEW todo, Plan(c, todo),
         minted \subseteq minted', Planned(c, G)'
  PROVE  DragInv(G)'
<1>1. \A d \in Clients : d = c
  BY DEF DragsOnly, OneClient
<1>2. store' = store /\ request'[c] = NoRequest
  BY DEF Plan, IInv
<1>3. Fresh(c)'
  BY <1>2 DEF Fresh
<1>4. \A u \in Uids \ minted' : store'[u] = NoResource
  BY <1>2 DEF DragInv
<1>5. \A u \in Uids : store'[u] # NoResource => store'[u] \in G
  BY <1>2 DEF DragInv
<1> QED BY <1>1, <1>3, <1>4, <1>5 DEF DragInv

LEMMA RewritesStayIn ==
  ASSUME NEW G, Closed(G), NEW r \in G \cup {NoResource}, NEW r2, Rewrites(r, r2)
  PROVE  r2 \in G \cup {NoResource}
BY DEF Closed, Rewrites

LEMMA PutDrags ==
  ASSUME DragsOnly, IInv, NEW G, Closed(G), DragInv(G), NEW c \in Clients,
         NEW uid \in minted, NEW r2, Plan(c, <<Put1(uid, r2)>>), UNCHANGED minted,
         Rewrites(store[uid], r2)
  PROVE  DragInv(G)'
<1>1. store[uid] \in G \cup {NoResource}
  BY DEF DragInv, IInv
<1>2. r2 \in G \cup {NoResource}
  BY <1>1, RewritesStayIn
<1>3. writes'[c] = <<Put1(uid, r2)>> /\ store' = store /\ minted' = minted
  BY DEF Plan, IInv
<1>4. Planned(c, G)'
  BY <1>2, <1>3 DEF Planned
<1> QED BY <1>3, <1>4, PlanDrags

LEMMA FreshEdit ==
  ASSUME IInv, NEW G, Closed(G), DragInv(G), NEW c \in Clients, Finds(c, "edit")
  PROVE  /\ request[c].uid \in minted /\ Target(c) = store[request[c].uid]
         /\ Target(c) \in G /\ Target(c) \in Tidy /\ Target(c) # NoResource
         /\ request[c].edit \in Gesture /\ request[c].edit.start \in Times
         /\ Scoped(c) <=> Target(c).rule # NoRule
         /\ Scoped(c) => /\ Pivots(c) \subseteq EditSlots(Target(c))
                         /\ Unshadowed => Pivots(c) = {request[c].rid}
<1> DEFINE r == Target(c)
<1>1. request[c] # NoRequest /\ request[c].op = "edit" /\ r = store[request[c].uid]
      /\ r # NoResource
  BY DEF Finds, Asks, Target
<1>2. request[c].uid \in minted /\ FreshRequest(request[c], r)
  BY <1>1 DEF DragInv, Fresh
<1>3. r \in G /\ r \in Tidy
  BY <1>1, <1>2 DEF DragInv, IInv, Closed
<1>4. /\ request[c].edit \in Gesture /\ request[c].edit.start \in Times
      /\ r.rule = NoRule => request[c].rid = NoPivot
      /\ r.rule # NoRule =>
           /\ request[c].rid \in Kept(r) /\ ResolvePivot(r, request[c].rid) \subseteq EditSlots(r)
           /\ Unshadowed => ResolvePivot(r, request[c].rid) = {request[c].rid}
  BY <1>1, <1>2 DEF FreshRequest
<1>5. \A t \in Kept(r) : t # NoPivot
  BY EditorAssumption DEF Kept, SlotsOf
<1> HIDE DEF r
<1>6. Scoped(c) <=> r.rule # NoRule
  BY <1>4, <1>5 DEF Scoped, r
<1>7. Pivots(c) = ResolvePivot(r, request[c].rid)
  BY DEF Pivots, r
<1> QED BY <1>1, <1>2, <1>3, <1>4, <1>6, <1>7 DEF r

LEMMA FreshDelete ==
  ASSUME IInv, NEW G, Closed(G), DragInv(G), NEW c \in Clients, Finds(c, "delete")
  PROVE  /\ request[c].uid \in minted /\ Target(c) = store[request[c].uid]
         /\ Target(c) \in G /\ Target(c) \in Tidy /\ Target(c) # NoResource
         /\ Scoped(c) <=> Target(c).rule # NoRule
         /\ Scoped(c) => request[c].rid \in Kept(Target(c))
<1> DEFINE r == Target(c)
<1>1. request[c] # NoRequest /\ request[c].op = "delete" /\ r = store[request[c].uid]
      /\ r # NoResource
  BY DEF Finds, Asks, Target
<1>2. request[c].uid \in minted /\ FreshRequest(request[c], r)
  BY <1>1 DEF DragInv, Fresh
<1>3. r \in G /\ r \in Tidy
  BY <1>1, <1>2 DEF DragInv, IInv, Closed
<1>4. /\ r.rule = NoRule => request[c].rid = NoPivot
      /\ r.rule # NoRule => request[c].rid \in Kept(r)
  BY <1>1, <1>2 DEF FreshRequest
<1>5. \A t \in Kept(r) : t # NoPivot
  BY EditorAssumption DEF Kept, SlotsOf
<1> HIDE DEF r
<1>6. Scoped(c) <=> r.rule # NoRule
  BY <1>4, <1>5 DEF Scoped, r
<1> QED BY <1>1, <1>2, <1>3, <1>4, <1>6 DEF r

(* The pivot of a scoped edit is a slot of its series and, out of the      *)
(* shadows, the one the request names.                                     *)
LEMMA ScopedEdit ==
  ASSUME IInv, NEW G, Closed(G), DragInv(G), NEW c \in Clients, NEW scope,
         FindsScoped(c, "edit", scope), NEW pivot \in Pivots(c)
  PROVE  /\ pivot \in EditSlots(Target(c)) /\ pivot \in SlotsOf(Target(c))
         /\ Unshadowed => pivot = request[c].rid
         /\ Target(c).rule # NoRule
         /\ request[c].uid \in minted /\ Target(c) = store[request[c].uid]
         /\ Target(c) \in G /\ Target(c) \in Tidy /\ Target(c) # NoResource
         /\ request[c].edit \in Gesture /\ request[c].edit.start \in Times
<1>1. Finds(c, "edit") /\ Scoped(c)
  BY DEF FindsScoped
<1>2. pivot \in EditSlots(Target(c)) /\ (Unshadowed => pivot = request[c].rid)
  BY <1>1, FreshEdit
<1>3. pivot \in SlotsOf(Target(c))
  BY <1>2, EditSlotsAre
<1> QED BY <1>1, <1>2, <1>3, FreshEdit

LEMMA UpdateDrags ==
  ASSUME DragsOnly, IInv, NEW G, Closed(G), DragInv(G), NEW c \in Clients,
         UpdatePlain(c) \/ UpdateAll(c) \/ UpdateThis(c) \/ UpdateFirst(c) \/ UpdateSplit(c)
  PROVE  DragInv(G)'
<1> DEFINE e == request[c].edit
           r == Target(c)
           uid == request[c].uid
<1>1. CASE UpdatePlain(c)
  <2>1. Finds(c, "edit") /\ ~Scoped(c) /\ Plan(c, <<Put1(uid, EditPlain(r, e))>>)
        /\ UNCHANGED minted
    BY <1>1 DEF UpdatePlain
  <2>2. uid \in minted /\ r = store[uid] /\ r # NoResource /\ r.rule = NoRule
        /\ e \in Gesture /\ e.start \in Times
    BY <2>1, FreshEdit
  <2>3. Rewrites(r, EditPlain(r, e))
    BY <2>2 DEF Rewrites, EditedPlain
  <2> QED BY <2>1, <2>2, <2>3, PutDrags
<1>2. ASSUME NEW scope, FindsScoped(c, "edit", scope), NEW pivot \in Pivots(c), NEW r2,
             \/ r2 = EditAll(r, e, pivot)
             \/ r2 = EditThis(r, e, pivot)
             \/ pivot = r.start /\ r2 = RewriteFirst(r, e, pivot),
             Plan(c, <<Put1(uid, r2)>>), UNCHANGED minted
      PROVE  DragInv(G)'
  <2>1. /\ pivot \in EditSlots(r) /\ r.rule # NoRule /\ uid \in minted /\ r = store[uid]
        /\ r # NoResource /\ e \in Gesture /\ e.start \in Times
    BY <1>2, ScopedEdit
  <2>2. Rewrites(r, r2)
    BY <1>2, <2>1 DEF Rewrites, EditedSeries
  <2> QED BY <1>2, <2>1, <2>2, PutDrags
<1>3. CASE UpdateAll(c)
  BY <1>2, <1>3 DEF UpdateAll
<1>4. CASE UpdateThis(c)
  BY <1>2, <1>4 DEF UpdateThis
<1>5. CASE UpdateFirst(c)
  <2>1. PICK pivot \in Pivots(c) :
          pivot <= r.start /\ Plan(c, <<Put1(uid, RewriteFirst(r, e, pivot))>>)
    BY <1>5 DEF UpdateFirst
  <2>2. FindsScoped(c, "edit", "thisfuture") /\ UNCHANGED minted
    BY <1>5 DEF UpdateFirst
  <2>3. pivot \in SlotsOf(r) /\ r \in Tidy
    BY <2>2, ScopedEdit
  <2>4. pivot >= r.start /\ pivot \in Int /\ r.start \in Int
    BY <2>3, TidyStart, TidyParts
  <2>5. pivot = r.start
    BY <2>1, <2>4
  <2> QED BY <1>2, <2>1, <2>2, <2>5
<1>6. CASE UpdateSplit(c)
  <2>1. FindsScoped(c, "edit", "thisfuture")
    BY <1>6 DEF UpdateSplit
  <2>2. PICK pivot \in Pivots(c), new \in Uids \ minted :
          /\ pivot > r.start
          /\ minted' = minted \cup {new}
          /\ Plan(c, <<Put1(uid, SplitOld(r, pivot)), Put2(new, SplitNew(r, e, pivot))>>)
    BY <1>6 DEF UpdateSplit
  <2> DEFINE old == SplitOld(r, pivot)
             rest == SplitNew(r, e, pivot)
  <2>3. /\ pivot \in EditSlots(r) /\ r.rule # NoRule /\ uid \in minted /\ r = store[uid] /\ r \in G
        /\ r # NoResource /\ e \in Gesture /\ e.start \in Times
    BY <2>1, ScopedEdit
  <2>4. Splits(r, old, rest)
    BY <2>2, <2>3 DEF Splits
  <2>5. old \in G /\ rest \in G
    BY <2>3, <2>4 DEF Closed
  <2> HIDE DEF old, rest
  <2>6. /\ store' = store /\ writes'[c] = <<Put1(uid, old), Put2(new, rest)>>
        /\ uid \in minted' /\ new \in minted' /\ minted \subseteq minted'
    BY <2>2, <2>3 DEF Plan, IInv, old, rest
  <2>7. store[new] = NoResource
    BY <2>2 DEF DragInv
  <2>8. Planned(c, G)'
    BY <2>3, <2>4, <2>5, <2>6, <2>7 DEF Planned
  <2> QED BY <2>2, <2>6, <2>8, PlanDrags
<1> QED BY <1>1, <1>3, <1>4, <1>5, <1>6

LEMMA DeleteDrags ==
  ASSUME DragsOnly, IInv, NEW G, Closed(G), DragInv(G), NEW c \in Clients,
         DeleteResource(c) \/ DeleteOccurrence(c) \/ DeleteTail(c)
  PROVE  DragInv(G)'
<1> DEFINE r == Target(c)
           uid == request[c].uid
           rid == request[c].rid
<1>1. Finds(c, "delete") /\ UNCHANGED minted
  BY DEF DeleteResource, DeleteOccurrence, DeleteTail, FindsScoped
<1>2. uid \in minted /\ r = store[uid] /\ r # NoResource
  BY <1>1, FreshDelete
<1>3. Scoped(c) => rid \in Kept(r) /\ r.rule # NoRule
  BY <1>1, FreshDelete
<1>4. CASE DeleteResource(c)
  <2>1. Plan(c, <<Put1(uid, NoResource)>>)
    BY <1>4 DEF DeleteResource
  <2>2. Rewrites(r, NoResource)
    BY <1>2 DEF Rewrites
  <2> QED BY <1>1, <1>2, <2>1, <2>2, PutDrags
<1>5. CASE DeleteOccurrence(c)
  <2>1. Scoped(c) /\ Plan(c, <<Put1(uid, DeleteThis(r, rid))>>)
    BY <1>5 DEF DeleteOccurrence, FindsScoped
  <2>2. Rewrites(r, DeleteThis(r, rid))
    BY <1>2, <1>3, <2>1 DEF Rewrites, DeletedFrom
  <2> QED BY <1>1, <1>2, <2>1, <2>2, PutDrags
<1>6. CASE DeleteTail(c)
  <2>1. Scoped(c) /\ rid > r.start /\ Plan(c, <<Put1(uid, DeleteFuture(r, rid))>>)
    BY <1>6 DEF DeleteTail, FindsScoped
  <2>2. Rewrites(r, DeleteFuture(r, rid))
    BY <1>2, <1>3, <2>1 DEF Rewrites, DeletedFrom
  <2> QED BY <1>1, <1>2, <2>1, <2>2, PutDrags
<1> QED BY <1>4, <1>5, <1>6

LEMMA CreateDrags ==
  ASSUME DragsOnly, IInv, NEW G, Closed(G), DragInv(G), NEW c \in Clients, CreateEvent(c)
  PROVE  DragInv(G)'
<1> DEFINE e == request[c].edit
           uid == request[c].uid
           rule == IF e.rule = NoRule THEN NoRule ELSE BuildRule(e.rule, e.start)
           r2 == NewResource(e.start, e.title, rule, request[c].allDay)
<1>1. Asks(c, "create") /\ Plan(c, <<Put1(uid, r2)>>) /\ UNCHANGED minted
  BY DEF CreateEvent
<1>2. request[c] \in Request /\ request[c].op = "create" /\ request[c] # NoRequest
      /\ request[c].allDay \in AllDays
  BY <1>1 DEF Asks, IInv
<1>3. e \in Edit
  BY <1>2 DEF Request
<1>4. uid \in minted /\ store[uid] = NoResource /\ e.start \in Starts
      /\ e.rule \in RuleEdits \cup {NoRule}
  BY <1>2 DEF DragInv, Fresh, FreshRequest
<1>5. rule = e.rule
  BY <1>4 DEF BuildRule, DragsOnly, Following
<1>6. e.title \in Titles
  BY <1>3 DEF Edit
<1>7. Created(r2)
  BY <1>2, <1>4, <1>5, <1>6 DEF Created
<1> HIDE DEF r2
<1>8. Rewrites(store[uid], r2)
  BY <1>4, <1>7 DEF Rewrites
<1> QED BY <1>1, <1>4, <1>8, PutDrags

LEMMA FailDrags ==
  ASSUME DragsOnly, IInv, NEW G, DragInv(G), NEW c \in Clients, NEW answer, Fail(c, answer)
  PROVE  DragInv(G)'
<1>1. \A d \in Clients : d = c
  BY DEF DragsOnly, OneClient
<1>2. /\ store' = store /\ minted' = minted /\ request'[c] = NoRequest /\ writes'[c] = <<>>
  BY DEF Fail, IInv
<1>3. Fresh(c)' /\ Planned(c, G)'
  BY <1>2 DEF Fresh, Planned
<1>4. /\ \A u \in Uids \ minted' : store'[u] = NoResource
      /\ \A u \in Uids : store'[u] # NoResource => store'[u] \in G
  BY <1>2 DEF DragInv
<1> QED BY <1>1, <1>3, <1>4 DEF DragInv


(* Two resources that differ in the override of one slot show the same of  *)
(* every other.                                                            *)
LEMMA OneDiffers ==
  ASSUME NEW r, NEW r2, NEW pivot, NEW time, NEW title,
         r2.start = r.start, r2.rule = r.rule, r2.title = r.title, r2.exdates = r.exdates,
         r2.overrides = UpsertOverride(r.overrides, pivot, time, title)
  PROVE  Differ(r, r2) \subseteq {pivot}
<1>1. \A o : (o.rid # pivot) => (o \in r2.overrides <=> o \in r.overrides)
  BY DEF UpsertOverride
<1>3. ASSUME NEW x, NEW y,
             x.start = y.start, x.rule = y.rule, x.title = y.title, x.exdates = y.exdates,
             \A o : (o.rid # pivot) => (o \in x.overrides <=> o \in y.overrides),
             NEW i \in Occurrences(x, Horizon), i.slot # pivot
      PROVE  i \in Occurrences(y, Horizon)
  <2>1. CASE i \in PlainOccurrences(x, Horizon)
    <3>1. PICK t \in Horizon :
            /\ i = [slot |-> t, time |-> t, title |-> x.title, custom |-> FALSE]
            /\ IsSlot(x.start, x.rule, t) /\ t \notin x.exdates
            /\ \A o \in x.overrides : o.rid # t
      BY <2>1 DEF PlainOccurrences
    <3>2. t # pivot
      BY <1>3, <3>1
    <3>3. \A o \in y.overrides : o.rid # t
      BY <1>3, <3>1, <3>2
    <3>4. i \in PlainOccurrences(y, Horizon)
      BY <1>3, <3>1, <3>3 DEF PlainOccurrences
    <3> QED BY <3>4 DEF Occurrences
  <2>2. CASE i \in CustomOccurrences(x)
    <3>1. PICK o \in x.overrides :
            /\ i = [slot |-> o.rid, time |-> o.time, title |-> o.title, custom |-> TRUE]
            /\ o.rid \notin x.exdates
      BY <2>2 DEF CustomOccurrences
    <3>2. o \in y.overrides /\ o.rid \notin y.exdates
      BY <1>3, <3>1
    <3>3. i \in CustomOccurrences(y)
      BY <3>1, <3>2 DEF CustomOccurrences
    <3> QED BY <3>3 DEF Occurrences
  <2> QED BY <1>3, <2>1, <2>2 DEF Occurrences
<1>4. \A i \in Occurrences(r, Horizon) : i.slot # pivot => i \in Occurrences(r2, Horizon)
  BY <1>1, <1>3
<1>5. \A i \in Occurrences(r2, Horizon) : i.slot # pivot => i \in Occurrences(r, Horizon)
  BY <1>1, <1>3
<1> QED BY <1>4, <1>5 DEF Differ

(* The calls, and what is left to do after each.                           *)
LEMMA Calls ==
  ASSUME NEW G, DragInv(G), NEW c \in Clients, writes[c] # <<>>
  PROVE  \/ \E uid \in minted, r2 \in G \cup {NoResource} :
              /\ Head(writes[c]) = Put1(uid, r2) /\ Tail(writes[c]) = <<>>
              /\ Rewrites(store[uid], r2)
         \/ \E uid \in minted, new \in minted, old \in G, rest \in G :
              /\ Head(writes[c]) = Put1(uid, old) /\ Tail(writes[c]) = <<Put2(new, rest)>>
              /\ store[new] = NoResource /\ new # uid /\ Splits(store[uid], old, rest)
         \/ \E new \in minted, rest \in G :
              /\ Head(writes[c]) = Put2(new, rest) /\ Tail(writes[c]) = <<>>
              /\ store[new] = NoResource
<1>1. Planned(c, G)
  BY DEF DragInv
<1>2. CASE \E uid \in minted, r2 \in G \cup {NoResource} :
             writes[c] = <<Put1(uid, r2)>> /\ Rewrites(store[uid], r2)
  BY <1>2
<1>3. CASE \E uid \in minted, new \in minted, old \in G, rest \in G :
             /\ writes[c] = <<Put1(uid, old), Put2(new, rest)>>
             /\ store[new] = NoResource /\ Splits(store[uid], old, rest)
  <2>1. PICK uid \in minted, new \in minted, old \in G, rest \in G :
          /\ writes[c] = <<Put1(uid, old), Put2(new, rest)>>
          /\ store[new] = NoResource /\ Splits(store[uid], old, rest)
    BY <1>3
  <2>2. new # uid
    BY <2>1 DEF Splits
  <2>3. Head(writes[c]) = Put1(uid, old) /\ Tail(writes[c]) = <<Put2(new, rest)>>
    BY <2>1
  <2> QED BY <2>1, <2>2, <2>3
<1>4. CASE \E new \in minted, rest \in G :
             writes[c] = <<Put2(new, rest)>> /\ store[new] = NoResource
  BY <1>4
<1> QED BY <1>1, <1>2, <1>3, <1>4 DEF Planned

LEMMA StoreDrags ==
  ASSUME DragsOnly, IInv, NEW G, DragInv(G), NEW c \in Clients, NEW uid \in minted,
         NEW r2 \in G \cup {NoResource}, store' = [store EXCEPT ![uid] = r2],
         UNCHANGED <<minted, request>>, request[c] = NoRequest, Planned(c, G)'
  PROVE  DragInv(G)'
<1>1. \A d \in Clients : d = c
  BY DEF DragsOnly, OneClient
<1>2. Fresh(c)'
  BY DEF Fresh
<1>3. \A u \in Uids : store'[u] = IF u = uid THEN r2 ELSE store[u]
  BY DEF IInv
<1>4. /\ \A u \in Uids \ minted' : store'[u] = NoResource
      /\ \A u \in Uids : store'[u] # NoResource => store'[u] \in G
  BY <1>3 DEF DragInv, IInv
<1> QED BY <1>1, <1>2, <1>4 DEF DragInv

LEMMA CallDrags ==
  ASSUME DragsOnly, IInv, NEW G, DragInv(G), NEW c \in Clients, Put(c) \/ AnswerLost(c)
  PROVE  DragInv(G)'
<1>1. /\ writes[c] # <<>> /\ Apply(Head(writes[c])) /\ UNCHANGED <<minted, request>>
      /\ writes'[c] = Tail(writes[c]) \/ writes'[c] = <<>>
  BY DEF Put, AnswerLost, IInv
<1>2. request[c] = NoRequest
  BY <1>1 DEF DragInv, Fresh
<1>3. writes'[c] = <<>> => Planned(c, G)'
  BY DEF Planned
<1>4. CASE \E uid \in minted, r2 \in G \cup {NoResource} :
              /\ Head(writes[c]) = Put1(uid, r2) /\ Tail(writes[c]) = <<>>
              /\ Rewrites(store[uid], r2)
  <2>1. PICK uid \in minted, r2 \in G \cup {NoResource} :
          Head(writes[c]) = Put1(uid, r2) /\ Tail(writes[c]) = <<>>
    BY <1>4
  <2>2. store' = [store EXCEPT ![uid] = r2]
    <3>1. Head(writes[c]).uid = uid /\ Head(writes[c]).res = r2
      BY <2>1 DEF Put1
    <3> QED BY <1>1, <3>1 DEF Apply
  <2> QED BY <1>1, <1>2, <1>3, <2>1, <2>2, StoreDrags
<1>5. CASE \E uid \in minted, new \in minted, old \in G, rest \in G :
             /\ Head(writes[c]) = Put1(uid, old) /\ Tail(writes[c]) = <<Put2(new, rest)>>
             /\ store[new] = NoResource /\ new # uid /\ Splits(store[uid], old, rest)
  <2>1. PICK uid \in minted, new \in minted, old \in G, rest \in G :
          /\ Head(writes[c]) = Put1(uid, old) /\ Tail(writes[c]) = <<Put2(new, rest)>>
          /\ store[new] = NoResource /\ new # uid
    BY <1>5
  <2>2. store' = [store EXCEPT ![uid] = old]
    <3>1. Head(writes[c]).uid = uid /\ Head(writes[c]).res = old
      BY <2>1 DEF Put1
    <3> QED BY <1>1, <3>1 DEF Apply
  <2>3. store'[new] = NoResource
    BY <2>1, <2>2 DEF IInv
  <2>4. Planned(c, G)'
    BY <1>1, <2>1, <2>3 DEF Planned
  <2> QED BY <1>1, <1>2, <2>2, <2>4, StoreDrags
<1>6. CASE \E new \in minted, rest \in G :
             /\ Head(writes[c]) = Put2(new, rest) /\ Tail(writes[c]) = <<>>
             /\ store[new] = NoResource
  <2>1. PICK new \in minted, rest \in G :
          Head(writes[c]) = Put2(new, rest) /\ Tail(writes[c]) = <<>>
    BY <1>6
  <2>2. store' = [store EXCEPT ![new] = rest]
    <3>1. Head(writes[c]).uid = new /\ Head(writes[c]).res = rest
      BY <2>1 DEF Put2
    <3> QED BY <1>1, <3>1 DEF Apply
  <2> QED BY <1>1, <1>2, <1>3, <2>1, <2>2, StoreDrags
<1> QED BY <1>1, <1>4, <1>5, <1>6, Calls

LEMMA NextDrags ==
  ASSUME DragsOnly, IInv, NEW G, Closed(G), DragInv(G), [Next]_vars
  PROVE  DragInv(G)'
<1>1. CASE UNCHANGED vars
  BY <1>1 DEF vars, DragInv, Fresh, Planned
<1>2. ASSUME NEW c \in Clients, Drag(c) \/ Save(c) \/ Delete(c) \/ Create(c) \/ Server(c)
      PROVE  DragInv(G)'
  <2>1. CASE Drag(c) \/ Save(c) \/ Delete(c) \/ Create(c)
    BY <2>1, ClientDrags
  <2>2. CASE NotFound(c) \/ UpdateFirstRaises(c) \/ CallFails(c)
    BY <2>2, FailDrags DEF NotFound, UpdateFirstRaises, CallFails
  <2>3. CASE CreateEvent(c)
    BY <2>3, CreateDrags
  <2>4. CASE UpdatePlain(c) \/ UpdateAll(c) \/ UpdateThis(c) \/ UpdateFirst(c) \/ UpdateSplit(c)
    BY <2>4, UpdateDrags
  <2>5. CASE DeleteResource(c) \/ DeleteOccurrence(c) \/ DeleteTail(c)
    BY <2>5, DeleteDrags
  <2>6. CASE Put(c) \/ AnswerLost(c)
    BY <2>6, CallDrags
  <2> QED BY <1>2, <2>1, <2>2, <2>3, <2>4, <2>5, <2>6 DEF Server, Handle
<1> QED BY <1>1, <1>2 DEF Next

-----------------------------------------------------------------------------
(* What holds of the drags of one client.                                  *)

(* An override always stands for a slot of its series: it goes where the   *)
(* slot goes when the series is dragged, and to the part the slot is in    *)
(* when the series is split or cut (_shift_override,                       *)
(* _pop_overrides_on_or_after, _split_recurring_event).                    *)
THEOREM OverridesKeepTheirSlots ==
  ASSUME DragsOnly
  PROVE  Spec => []OverridesOnGrid
<1> DEFINE Inv == DragInv(Tidy)
<1>1. Init => Inv
  BY TidyClosed, InitDrags
<1>2. IInv /\ Inv /\ [Next]_vars => Inv'
  BY TidyClosed, NextDrags
<1>3. Inv => OverridesOnGrid
  BY DEF DragInv, OverridesOnGrid, Live, Tidy, SlotsOf
<1> HIDE DEF Inv
<1> QED BY <1>1, <1>2, <1>3, Invariance, PTL DEF Spec

(* An edit of one occurrence changes nothing else the calendar shows, nor  *)
(* does it ever end up on the occurrence of another slot                   *)
(* (_resolve_pivot, _upsert_override).                                     *)
THEOREM EditsStayInPlace ==
  ASSUME DragsOnly, Unshadowed
  PROVE  Spec => EditsInPlace
<1> DEFINE Inv == DragInv(Tidy)
           Body == \A c \in Clients :
                     UpdateThis(c) => Differ(Target(c), writes'[c][1].res) \subseteq {request[c].rid}
<1>1. Init => Inv
  BY TidyClosed, InitDrags
<1>2. IInv /\ Inv /\ [Next]_vars => Inv'
  BY TidyClosed, NextDrags
<1>3. IInv /\ Inv => Body
  <2> SUFFICES ASSUME IInv, Inv, NEW c \in Clients, UpdateThis(c)
               PROVE  Differ(Target(c), writes'[c][1].res) \subseteq {request[c].rid}
    OBVIOUS
  <2> DEFINE e == request[c].edit
             r == Target(c)
  <2>1. FindsScoped(c, "edit", "this")
    BY DEF UpdateThis
  <2>2. PICK pivot \in Pivots(c) : Plan(c, <<Put1(request[c].uid, EditThis(r, e, pivot))>>)
    BY DEF UpdateThis
  <2>3. pivot = request[c].rid /\ pivot \in SlotsOf(r) /\ r \in Tidy
        /\ r.rule # NoRule /\ e \in SeriesEdit
    BY <2>1, ScopedEdit, TidyClosed DEF Gesture
  <2>4. writes'[c] = <<Put1(request[c].uid, EditThis(r, e, pivot))>>
    BY <2>2 DEF Plan, IInv
  <2> DEFINE r2 == EditThis(r, e, pivot)
  <2>5. writes'[c][1].res = r2
    BY <2>4 DEF Put1
  <2>6. /\ r2.title = r.title /\ r2.exdates = r.exdates
        /\ r2.overrides = UpsertOverride(r.overrides, pivot, e.start, e.title)
    BY <2>3, EditThisSlots
  <2>7. r2.start = r.start /\ r2.rule = r.rule
    BY <2>3, TidyParts DEF EditThis, Resource
  <2> HIDE DEF e, r, r2
  <2>8. Differ(r, r2) \subseteq {pivot}
    BY <2>6, <2>7, OneDiffers
  <2> QED BY <2>3, <2>5, <2>8 DEF r
<1>4. IInv /\ Inv => [Body]_vars
  BY <1>3
<1> HIDE DEF Inv
<1>5. [][Body]_vars <=> EditsInPlace
  BY DEF EditsInPlace
<1> HIDE DEF Body
<1> QED BY <1>1, <1>2, <1>4, <1>5, Invariance, PTL DEF Spec


-----------------------------------------------------------------------------
(* The window.  A gesture puts one occurrence of a series at one of Times; *)
(* a series that spans at most W ticks then has all its slots within W of  *)
(* that time, and a window that reaches as far shows all of them.  So does *)
(* a window without ends, however long series are.                         *)

Spans(W) ==
  \A start \in Starts, rule \in InitialRules \cup RuleEdits \cup {NoRule}, t \in Int :
    IsSlot(start, rule, t) => t <= start + W

ShowsSpan(W) == Spans(W) /\ \A t \in Times : (t - W) .. (t + W) \subseteq Horizon

BoundedWindow == \E W \in Nat : ShowsSpan(W)

WideWindow == Horizon = Int \/ BoundedWindow

InReach(r, W) ==
  \E t \in Times, first \in Int :
    /\ first <= t /\ t <= first + W
    /\ \A s \in SlotsOf(r) : first <= s /\ s <= first + W

Reached(W) == {r \in Tidy : InReach(r, W)}

LEMMA ReachCarried ==
  ASSUME NEW W \in Nat, NEW r \in Tidy, InReach(r, W), NEW r2, NEW slots \in SUBSET SlotsOf(r),
         NEW pivot \in SlotsOf(r), NEW t \in Times, SlotsOf(r2) = Shift(slots, t - pivot)
  PROVE  InReach(r2, W)
<1>1. PICK first \in Int : \A s \in SlotsOf(r) : first <= s /\ s <= first + W
  BY DEF InReach
<1>2. pivot \in Int /\ t \in Int /\ SlotsOf(r) \subseteq Int
  BY EditorAssumption DEF SlotsOf
<1> DEFINE a == first + (t - pivot)
<1>3. a \in Int /\ a <= t /\ t <= a + W
  BY <1>1, <1>2
<1>4. ASSUME NEW s2 \in SlotsOf(r2) PROVE a <= s2 /\ s2 <= a + W
  <2>1. PICK s \in slots : s2 = s + (t - pivot)
    BY DEF Shift
  <2>2. s \in Int /\ first <= s /\ s <= first + W
    BY <1>1, <1>2
  <2> QED BY <1>1, <1>2, <2>1, <2>2
<1> HIDE DEF a
<1> QED BY <1>3, <1>4 DEF InReach

LEMMA ReachedClosed ==
  ASSUME DragsOnly, NEW W \in Nat, Spans(W)
  PROVE  Closed(Reached(W))
<1>1. Closed(Tidy)
  BY TidyClosed
<1>2. ASSUME NEW r2, Created(r2) PROVE r2 \in Reached(W)
  <2>1. PICK start \in Starts, title \in Titles, rule \in InitialRules \cup RuleEdits \cup {NoRule},
             allDay \in AllDays : r2 = NewResource(start, title, rule, allDay)
    BY <1>2 DEF Created
  <2>2. r2 \in Tidy /\ r2.start = start /\ r2.rule = rule
    BY <1>1, <1>2, <2>1 DEF Closed, NewResource
  <2>3. ASSUME NEW s \in SlotsOf(r2) PROVE start <= s /\ s <= start + W
    <3>1. s >= r2.start
      BY <2>2, TidyStart
    <3>2. s \in Int /\ IsSlot(start, rule, s) /\ start \in Int
      BY <2>2, EditorAssumption DEF SlotsOf
    <3>3. s <= start + W
      BY <3>2 DEF Spans
    <3> QED BY <2>2, <3>1, <3>2, <3>3
  <2>4. start \in Times /\ start \in Int /\ start <= start /\ start <= start + W
    BY EditorAssumption
  <2> QED BY <2>2, <2>3, <2>4 DEF InReach, Reached
<1>3. ASSUME NEW r \in Reached(W), NEW r2 \in Tidy, NEW slots \in SUBSET SlotsOf(r),
             NEW pivot \in EditSlots(r), NEW e, e.start \in Times,
             SlotsOf(r2) = Shift(slots, e.start - pivot)
      PROVE  r2 \in Reached(W)
  BY <1>3, ReachCarried, EditSlotsAre DEF Reached
<1>4. ASSUME NEW r \in Reached(W), NEW r2 \in Tidy, SlotsOf(r2) \subseteq SlotsOf(r)
      PROVE  r2 \in Reached(W)
  BY <1>4 DEF Reached, InReach
<1>5. ASSUME NEW r \in Reached(W), NEW r2, EditedPlain(r, r2) PROVE r2 \in Reached(W)
  <2>1. PICK e \in Gesture : e.start \in Times /\ r2 = EditPlain(r, e)
    BY <1>5 DEF EditedPlain
  <2>2. r2 \in Tidy /\ SlotsOf(r2) = {e.start}
    BY <1>5, <2>1, EditPlainSlots DEF EditedPlain, Reached
  <2>3. e.start \in Int
    BY <2>1, EditorAssumption
  <2>4. e.start <= e.start /\ e.start <= e.start + W
    BY <2>3
  <2> QED BY <2>1, <2>2, <2>3, <2>4 DEF Reached, InReach
<1>6. ASSUME NEW r \in Reached(W), NEW r2, EditedSeries(r, r2) PROVE r2 \in Reached(W)
  <2>1. PICK pivot \in EditSlots(r), e \in Gesture :
          /\ e.start \in Times
          /\ \/ r2 = EditAll(r, e, pivot)
             \/ r2 = EditThis(r, e, pivot)
             \/ pivot = r.start /\ r2 = RewriteFirst(r, e, pivot)
    BY <1>6 DEF EditedSeries
  <2>2. pivot \in SlotsOf(r) /\ e \in SeriesEdit /\ r.rule # NoRule /\ r \in Tidy
    BY <1>6, EditSlotsAre DEF Gesture, EditedSeries, Reached
  <2>3. r2 \in Tidy
    BY <1>1, <1>6, <2>2 DEF Closed
  <2>4. CASE r2 = EditAll(r, e, pivot)
    <3>1. SlotsOf(r2) = Shift(SlotsOf(r), e.start - pivot)
      BY <2>2, <2>4, EditAllSlots DEF Carries
    <3> QED BY <1>3, <2>1, <2>3, <3>1
  <2>5. CASE r2 = EditThis(r, e, pivot)
    <3>1. SlotsOf(r2) = SlotsOf(r)
      BY <2>2, <2>5, EditThisSlots
    <3> QED BY <1>4, <2>3, <3>1
  <2>6. CASE pivot = r.start /\ r2 = RewriteFirst(r, e, pivot)
    <3>1. SlotsOf(r2) = Shift(SlotsOf(r), e.start - pivot)
      BY <2>2, <2>6, RewriteFirstSlots DEF Carries
    <3> QED BY <1>3, <2>1, <2>3, <3>1
  <2> QED BY <2>1, <2>4, <2>5, <2>6
<1>7. ASSUME NEW r \in Reached(W), NEW r2, DeletedFrom(r, r2) PROVE r2 \in Reached(W)
  <2>1. PICK pivot \in Kept(r) :
          r2 = DeleteThis(r, pivot) \/ (pivot > r.start /\ r2 = DeleteFuture(r, pivot))
    BY <1>7 DEF DeletedFrom
  <2>2. pivot \in SlotsOf(r) /\ r.rule # NoRule /\ r \in Tidy
    BY <1>7 DEF Kept, DeletedFrom, Reached
  <2>3. r2 \in Tidy
    BY <1>1, <1>7, <2>2 DEF Closed
  <2>4. r2 = DeleteThis(r, pivot) => SlotsOf(r2) \subseteq SlotsOf(r)
    BY <2>2, DeleteThisSlots
  <2>5. pivot > r.start /\ r2 = DeleteFuture(r, pivot) => SlotsOf(r2) \subseteq SlotsOf(r)
    BY <2>2, CutSlots DEF CutAt
  <2> QED BY <1>4, <2>1, <2>3, <2>4, <2>5
<1>8. ASSUME NEW r \in Reached(W), NEW old, NEW rest, Splits(r, old, rest)
      PROVE  old \in Reached(W) /\ rest \in Reached(W)
  <2>1. PICK pivot \in EditSlots(r), e \in Gesture :
          /\ e.start \in Times /\ pivot > r.start
          /\ old = SplitOld(r, pivot) /\ rest = SplitNew(r, e, pivot)
    BY <1>8 DEF Splits
  <2>2. pivot \in SlotsOf(r) /\ r.rule # NoRule /\ r \in Tidy
    BY <1>8, EditSlotsAre DEF Splits, Reached
  <2>3. old \in Tidy /\ rest \in Tidy
    BY <1>1, <1>8, <2>2 DEF Closed
  <2>4. SlotsOf(old) \subseteq SlotsOf(r)
    BY <2>1, <2>2, CutSlots DEF CutAt
  <2> DEFINE slots == {t \in SlotsOf(r) : t >= pivot}
  <2>5. SlotsOf(rest) = Shift(slots, e.start - pivot) /\ slots \in SUBSET SlotsOf(r)
    BY <2>1, <2>2, SplitNewSlots DEF Carries
  <2> HIDE DEF slots
  <2> QED BY <1>3, <1>4, <2>1, <2>3, <2>4, <2>5
<1> QED BY <1>2, <1>5, <1>6, <1>7, <1>8 DEF Closed, Reached

LEMMA ReachedShown ==
  ASSUME NEW W \in Nat, ShowsSpan(W), NEW r \in Reached(W)
  PROVE  SlotsOf(r) \subseteq Horizon
<1>1. PICK t \in Times, first \in Int :
        /\ first <= t /\ t <= first + W
        /\ \A s \in SlotsOf(r) : first <= s /\ s <= first + W
  BY DEF Reached, InReach
<1>2. t \in Int
  BY EditorAssumption
<1>3. ASSUME NEW s \in SlotsOf(r) PROVE s \in (t - W) .. (t + W)
  <2>1. s \in Int
    BY DEF SlotsOf
  <2> QED BY <1>1, <1>2, <2>1
<1> QED BY <1>3 DEF ShowsSpan

(* Whatever the window, a set of resources closed under gestures all of    *)
(* whose slots it shows.                                                   *)
LEMMA WindowShowsAll ==
  ASSUME DragsOnly, WideWindow
  PROVE  \E G : Closed(G) /\ \A r \in G : SlotsOf(r) \subseteq Horizon
<1>1. CASE Horizon = Int
  <2>1. \A r \in Tidy : SlotsOf(r) \subseteq Horizon
    BY <1>1 DEF SlotsOf
  <2> QED BY <2>1, TidyClosed
<1>2. CASE BoundedWindow
  <2>1. PICK W \in Nat : ShowsSpan(W)
    BY <1>2 DEF BoundedWindow
  <2>2. Closed(Reached(W))
    BY <2>1, ReachedClosed DEF ShowsSpan
  <2>3. \A r \in Reached(W) : SlotsOf(r) \subseteq Horizon
    BY <2>1, ReachedShown
  <2> QED BY <2>2, <2>3
<1> QED BY <1>1, <1>2 DEF WideWindow


(* Dragging this and the following occurrences of a series loses no slot   *)
(* and adds none: the old part keeps those before the pivot, the new one   *)
(* has the others, moved with it, and what was excluded stays excluded     *)
(* (_truncate_rrule_until, _remaining_rrule, _split_recurring_event).      *)
THEOREM SplitsConserve ==
  ASSUME DragsOnly
  PROVE  Spec => SplitConserves
<1> DEFINE Inv == DragInv(Tidy)
           Body == \A c \in Clients :
             (UpdateSplit(c) /\ request[c].edit.rule = NoRule) =>
               \E pivot \in Pivots(c) :
                 LET delta == request[c].edit.start - pivot
                 IN  \A t \in Horizon :
                       /\ Remains(writes'[c][1].res, t) <=> Remains(Target(c), t) /\ t < pivot
                       /\ Remains(writes'[c][2].res, t + delta)
                            <=> Remains(Target(c), t) /\ t >= pivot
<1>1. Init => Inv
  BY TidyClosed, InitDrags
<1>2. IInv /\ Inv /\ [Next]_vars => Inv'
  BY TidyClosed, NextDrags
<1>3. IInv /\ Inv => Body
  <2> SUFFICES ASSUME IInv, Inv, NEW c \in Clients, UpdateSplit(c)
               PROVE  \E pivot \in Pivots(c) :
                        LET delta == request[c].edit.start - pivot
                        IN  \A t \in Horizon :
                              /\ Remains(writes'[c][1].res, t)
                                   <=> Remains(Target(c), t) /\ t < pivot
                              /\ Remains(writes'[c][2].res, t + delta)
                                   <=> Remains(Target(c), t) /\ t >= pivot
    OBVIOUS
  <2> DEFINE e == request[c].edit
             r == Target(c)
  <2>1. FindsScoped(c, "edit", "thisfuture")
    BY DEF UpdateSplit
  <2>2. PICK pivot \in Pivots(c), new \in Uids \ minted :
          /\ pivot > r.start
          /\ Plan(c, <<Put1(request[c].uid, SplitOld(r, pivot)), Put2(new, SplitNew(r, e, pivot))>>)
    BY DEF UpdateSplit
  <2> DEFINE old == SplitOld(r, pivot)
             rest == SplitNew(r, e, pivot)
             delta == e.start - pivot
             onward == {t \in SlotsOf(r) : t >= pivot}
  <2>3. pivot \in SlotsOf(r) /\ r.rule # NoRule /\ r \in Tidy
        /\ e \in Gesture /\ e.start \in Times
    BY TidyClosed, <2>1, ScopedEdit
  <2>4. CutAt(r, old, pivot)
    BY <2>2, <2>3, CutSlots
  <2>5. /\ SlotsOf(rest) = Shift(onward, delta)
        /\ \A t \in onward : t + delta \in rest.exdates <=> t \in r.exdates
    BY <2>3, SplitNewSlots DEF Carries
  <2>6. writes'[c] = <<Put1(request[c].uid, old), Put2(new, rest)>>
    BY <2>2 DEF Plan, IInv
  <2>7. writes'[c][1].res = old /\ writes'[c][2].res = rest
    BY <2>6 DEF Put1, Put2
  <2>8. pivot \in Int /\ delta \in Int
    <3>1. pivot \in Int /\ e.start \in Int
      BY <2>3, EditorAssumption DEF SlotsOf
    <3> QED BY <3>1
  <2> HIDE DEF r, e, old, rest, delta
  <2>9. ASSUME NEW x, NEW t \in Int PROVE Remains(x, t) <=> t \in SlotsOf(x) /\ t \notin x.exdates
    BY DEF Remains, SlotsOf
  <2>10. ASSUME NEW t \in Int
         PROVE  Remains(old, t) <=> Remains(r, t) /\ t < pivot
    <3>1. t \in SlotsOf(old) <=> t \in SlotsOf(r) /\ t < pivot
      BY <2>4 DEF CutAt
    <3>2. t \in SlotsOf(old) => (t \in old.exdates <=> t \in r.exdates)
      BY <2>4 DEF CutAt
    <3> QED BY <2>9, <3>1, <3>2
  <2>11. ASSUME NEW t \in Int
         PROVE  Remains(rest, t + delta) <=> Remains(r, t) /\ t >= pivot
    <3>1. t + delta \in Int
      BY <2>8
    <3>2. onward \in SUBSET Int
      BY DEF SlotsOf
    <3>3. t \in onward <=> t \in SlotsOf(r) /\ t >= pivot
      OBVIOUS
    <3> HIDE DEF onward
    <3>4. t + delta \in SlotsOf(rest) <=> t \in onward
      BY <2>5, <2>8, <3>2, ShiftedMember
    <3>5. t \in onward => (t + delta \in rest.exdates <=> t \in r.exdates)
      BY <2>5
    <3> QED BY <2>9, <3>1, <3>3, <3>4, <3>5
  <2>12. \A t \in Horizon : t \in Int
    BY EditorAssumption
  <2> QED BY <2>2, <2>7, <2>10, <2>11, <2>12 DEF r, e, delta
<1>4. IInv /\ Inv => [Body]_vars
  BY <1>3
<1>5. [][Body]_vars <=> SplitConserves
  BY DEF SplitConserves
<1> HIDE DEF Inv, Body
<1> QED BY <1>1, <1>2, <1>4, <1>5, Invariance, PTL DEF Spec


-----------------------------------------------------------------------------
(* The items of the agenda that a resource shows.                          *)

ItemAt(u, r, t) ==
  [series |-> u, slot |-> t, time |-> OccurrenceAt(r, t).time,
   title |-> OccurrenceAt(r, t).title, custom |-> OccurrenceAt(r, t).custom]

ItemsOf(u, r) == {ItemAt(u, r, t) : t \in Kept(r)}

LEMMA ShownItems ==
  ASSUME NEW u, NEW r \in Tidy, SlotsOf(r) \subseteq Horizon
  PROVE  ShownOf(u, r) = ItemsOf(u, r)
<1>1. r # NoResource /\ Horizon \in SUBSET Int
  BY NothingIsTidy, EditorAssumption
<1>2. Occurrences(r, Horizon) = {OccurrenceAt(r, t) : t \in Kept(r)}
  BY <1>1, OccurrencesKept
<1>3. \A t \in Kept(r) : OccurrenceAt(r, t).slot = t
  BY OccurrenceFields DEF Kept, SlotsOf
<1>4. ShownOf(u, r) =
        {[series |-> u, slot |-> i.slot, time |-> i.time, title |-> i.title,
          custom |-> i.custom] : i \in {OccurrenceAt(r, t) : t \in Kept(r)}}
  BY <1>1, <1>2 DEF ShownOf
<1> QED BY <1>3, <1>4 DEF ItemsOf, ItemAt

LEMMA ItemTypes ==
  ASSUME NEW u \in Uids, NEW r \in Tidy, NEW t \in Kept(r)
  PROVE  /\ ItemAt(u, r, t) \in A!Item
         /\ ItemAt(u, r, t).series = u /\ ItemAt(u, r, t).slot = t
<1>1. t \in Int
  BY DEF Kept, SlotsOf
<1> QED BY <1>1, OccurrenceFields DEF A!Item, ItemAt

LEMMA ItemForm ==
  ASSUME NEW u, NEW r, NEW t, NEW time, NEW title, NEW custom,
         OccurrenceAt(r, t) = [slot |-> t, time |-> time, title |-> title, custom |-> custom]
  PROVE  ItemAt(u, r, t)
           = [series |-> u, slot |-> t, time |-> time, title |-> title, custom |-> custom]
BY DEF ItemAt

LEMMA PlainForm ==
  ASSUME NEW u, NEW t, NEW title
  PROVE  A!Plain(u, t, title)
           = [series |-> u, slot |-> t, time |-> t, title |-> title, custom |-> FALSE]
BY DEF A!Plain

(* Where a slot goes.                                                      *)
Later(t, delta) == t + delta

(* An item with all but its `custom' field replaced.                       *)
Remade(i, x, y, z, w) == [i EXCEPT !.series = x, !.slot = y, !.time = z, !.title = w]

Remake(i) == [series |-> i.series, slot |-> i.slot, time |-> i.time, title |-> i.title,
              custom |-> i.custom]

LEMMA RemadeForm ==
  ASSUME NEW i, i = Remake(i), NEW x, NEW y, NEW z, NEW w
  PROVE  Remade(i, x, y, z, w)
           = [series |-> x, slot |-> y, time |-> z, title |-> w, custom |-> i.custom]
<1>1. ASSUME NEW a, NEW b, NEW c, NEW d, NEW f
      PROVE  Remade([series |-> a, slot |-> b, time |-> c, title |-> d, custom |-> f], x, y, z, w)
               = [series |-> x, slot |-> y, time |-> z, title |-> w, custom |-> f]
  <2> DEFINE i0 == [series |-> a, slot |-> b, time |-> c, title |-> d, custom |-> f]
             i1 == [i0 EXCEPT !.series = x]
             i2 == [i1 EXCEPT !.slot = y]
             i3 == [i2 EXCEPT !.time = z]
             i4 == [i3 EXCEPT !.title = w]
  <2>1. Remade(i0, x, y, z, w) = i4
    BY DEF Remade
  <2>2. i1 = [series |-> x, slot |-> b, time |-> c, title |-> d, custom |-> f]
    OBVIOUS
  <2> HIDE DEF i1
  <2>3. i2 = [series |-> x, slot |-> y, time |-> c, title |-> d, custom |-> f]
    BY <2>2
  <2> HIDE DEF i2
  <2>4. i3 = [series |-> x, slot |-> y, time |-> z, title |-> d, custom |-> f]
    BY <2>3
  <2> HIDE DEF i3
  <2>5. i4 = [series |-> x, slot |-> y, time |-> z, title |-> w, custom |-> f]
    BY <2>4
  <2> HIDE DEF i4
  <2> QED BY <2>1, <2>5
<1>2. Remade(Remake(i), x, y, z, w)
        = [series |-> x, slot |-> y, time |-> z, title |-> w, custom |-> i.custom]
  BY <1>1 DEF Remake
<1> QED BY <1>2

LEMMA MovedCustom ==
  ASSUME NEW i, i = Remake(i), i.custom, NEW u2, NEW delta, NEW text, NEW reset
  PROVE  A!Moved(i, u2, delta, text, reset) =
           [series |-> u2, slot |-> Later(i.slot, delta),
            time  |-> IF "time" \in reset THEN Later(i.slot, delta) ELSE i.time,
            title |-> IF "title" \in reset THEN text ELSE i.title,
            custom |-> i.custom]
<1> DEFINE slot2 == i.slot + delta
           time2 == IF "time" \in reset THEN i.slot + delta ELSE i.time
           title2 == IF "title" \in reset THEN text ELSE i.title
<1>1. A!Moved(i, u2, delta, text, reset) = Remade(i, u2, slot2, time2, title2)
  BY DEF A!Moved, Remade
<1>2. /\ slot2 = Later(i.slot, delta)
      /\ time2 = IF "time" \in reset THEN Later(i.slot, delta) ELSE i.time
      /\ title2 = IF "title" \in reset THEN text ELSE i.title
  BY DEF Later
<1> HIDE DEF slot2, time2, title2
<1>3. Remade(i, u2, slot2, time2, title2)
        = [series |-> u2, slot |-> slot2, time |-> time2, title |-> title2, custom |-> i.custom]
  BY RemadeForm
<1> QED BY <1>1, <1>2, <1>3

LEMMA MovedPlain ==
  ASSUME NEW i, i.custom = FALSE, NEW u2, NEW delta, NEW text, NEW reset
  PROVE  A!Moved(i, u2, delta, text, reset) = A!Plain(u2, Later(i.slot, delta), text)
BY DEF A!Moved, Later

(* What a series shows of a slot it took from another.                     *)
LEMMA MovedItems ==
  ASSUME NEW u \in Uids, NEW u2, NEW r \in Tidy, NEW r2 \in Tidy, NEW delta \in Int, NEW e,
         NEW slots \in SUBSET SlotsOf(r), NEW ovs \in SUBSET r.overrides,
         Carries(r, r2, slots, ovs, delta, e)
  PROVE  /\ ItemsOf(u2, r2) = {ItemAt(u2, r2, Later(t, delta)) : t \in slots \ r.exdates}
         /\ \A t \in slots \ r.exdates : (\A o \in r.overrides : o.rid = t => o \in ovs) =>
              ItemAt(u2, r2, Later(t, delta))
                = A!Moved(ItemAt(u, r, t), u2, delta, e.title, e.reset)
         /\ \A t \in slots \ r.exdates : (\A o \in ovs : o.rid # t) =>
              ItemAt(u2, r2, Later(t, delta)) = A!Plain(u2, Later(t, delta), e.title)
<1>1. Kept(r2) = {Later(t, delta) : t \in slots \ r.exdates}
  BY CarriedOccurrences DEF Later
<1>2. ItemsOf(u2, r2) = {ItemAt(u2, r2, Later(t, delta)) : t \in slots \ r.exdates}
  BY <1>1 DEF ItemsOf
<1>3. \A t \in slots \ r.exdates : (\A o \in ovs : o.rid # t) =>
        ItemAt(u2, r2, Later(t, delta)) = A!Plain(u2, Later(t, delta), e.title)
  <2> SUFFICES ASSUME NEW t \in slots \ r.exdates, \A o \in ovs : o.rid # t
               PROVE  ItemAt(u2, r2, Later(t, delta)) = A!Plain(u2, Later(t, delta), e.title)
    OBVIOUS
  <2>1. OccurrenceAt(r2, t + delta) =
          [slot |-> t + delta, time |-> t + delta, title |-> e.title, custom |-> FALSE]
    BY CarriedOccurrences
  <2>2. OccurrenceAt(r2, Later(t, delta)) =
          [slot |-> Later(t, delta), time |-> Later(t, delta), title |-> e.title, custom |-> FALSE]
    BY <2>1 DEF Later
  <2>3. ItemAt(u2, r2, Later(t, delta)) =
          [series |-> u2, slot |-> Later(t, delta), time |-> Later(t, delta), title |-> e.title,
           custom |-> FALSE]
    BY <2>2, ItemForm
  <2> QED BY <2>3, PlainForm
<1>4. \A t \in slots \ r.exdates : (\A o \in r.overrides : o.rid = t => o \in ovs) =>
        ItemAt(u2, r2, Later(t, delta))
          = A!Moved(ItemAt(u, r, t), u2, delta, e.title, e.reset)
  <2> SUFFICES ASSUME NEW t \in slots \ r.exdates,
                      \A o \in r.overrides : o.rid = t => o \in ovs
               PROVE  ItemAt(u2, r2, Later(t, delta))
                        = A!Moved(ItemAt(u, r, t), u2, delta, e.title, e.reset)
    OBVIOUS
  <2> DEFINE i == ItemAt(u, r, t)
             s == Later(t, delta)
  <2>1. OnePerSlot(r.overrides)
    BY TidyParts
  <2>2. CASE \E o \in r.overrides : o.rid = t
    <3>1. PICK o \in ovs : o.rid = t
      BY <2>2
    <3>2. OccurrenceAt(r, t) =
            [slot |-> t, time |-> o.time, title |-> o.title, custom |-> TRUE]
      BY <2>1, <3>1, OccurrenceForm
    <3>3. OccurrenceAt(r2, s) =
            [slot |-> s, time |-> IF "time" \in e.reset THEN s ELSE o.time,
             title |-> IF "title" \in e.reset THEN e.title ELSE o.title, custom |-> TRUE]
      BY <3>1, CarriedOccurrences DEF Later
    <3> DEFINE j == ItemAt(u2, r2, s)
    <3>4. i = Remake(i) /\ j = Remake(j)
      BY DEF ItemAt, Remake
    <3>5. i.slot = t /\ i.time = o.time /\ i.title = o.title /\ i.custom = TRUE
      BY <3>2 DEF ItemAt
    <3>6. /\ j.series = u2 /\ j.slot = s /\ j.custom = TRUE
          /\ j.time = IF "time" \in e.reset THEN s ELSE o.time
          /\ j.title = IF "title" \in e.reset THEN e.title ELSE o.title
      BY <3>3 DEF ItemAt
    <3> HIDE DEF i, j
    <3>7. A!Moved(i, u2, delta, e.title, e.reset) =
            [series |-> u2, slot |-> Later(i.slot, delta),
             time  |-> IF "time" \in e.reset THEN Later(i.slot, delta) ELSE i.time,
             title |-> IF "title" \in e.reset THEN e.title ELSE i.title,
             custom |-> i.custom]
      BY <3>4, <3>5, MovedCustom
    <3>8. A!Moved(i, u2, delta, e.title, e.reset) = Remake(j)
      BY <3>5, <3>6, <3>7 DEF Remake
    <3> QED BY <3>4, <3>8 DEF i, j
  <2>3. CASE \A o \in r.overrides : o.rid # t
    <3>1. OccurrenceAt(r, t) = [slot |-> t, time |-> t, title |-> r.title, custom |-> FALSE]
      BY <2>1, <2>3, OccurrenceForm
    <3>2. i = [series |-> u, slot |-> t, time |-> t, title |-> r.title, custom |-> FALSE]
      BY <3>1, ItemForm
    <3>3. ItemAt(u2, r2, s) = A!Plain(u2, s, e.title)
      BY <1>3, <2>3
    <3>5. i.custom = FALSE /\ i.slot = t
      BY <3>2
    <3> HIDE DEF i
    <3>4. A!Moved(i, u2, delta, e.title, e.reset) = A!Plain(u2, s, e.title)
      BY <3>5, MovedPlain
    <3> QED BY <3>3, <3>4 DEF i, s
  <2> QED BY <2>2, <2>3
<1> QED BY <1>2, <1>3, <1>4

(* The series an edit of `this and future' makes: the edited occurrence    *)
(* plain, the ones after it carried along.                                 *)
FutureOf(u, u2, r, pivot, slots, delta, e) ==
  {A!Plain(u2, Later(pivot, delta), e.title)}
    \cup {A!Moved(j, u2, delta, e.title, e.reset) :
            j \in {ItemAt(u, r, t) : t \in slots \ r.exdates} \ {ItemAt(u, r, pivot)}}

LEMMA FutureItems ==
  ASSUME NEW u \in Uids, NEW u2, NEW r \in Tidy, NEW r2 \in Tidy, NEW delta \in Int, NEW e,
         NEW slots \in SUBSET SlotsOf(r), NEW ovs \in SUBSET r.overrides,
         Carries(r, r2, slots, ovs, delta, e),
         NEW pivot \in slots \ r.exdates,
         \A o \in r.overrides : o \in ovs <=> o.rid \in slots /\ o.rid # pivot
  PROVE  ItemsOf(u2, r2) = FutureOf(u, u2, r, pivot, slots, delta, e)
<1> DEFINE S == slots \ r.exdates
           New(t) == ItemAt(u2, r2, Later(t, delta))
           Move(j) == A!Moved(j, u2, delta, e.title, e.reset)
           At0(t) == ItemAt(u, r, t)
<1>1. /\ ItemsOf(u2, r2) = {New(t) : t \in S}
      /\ \A t \in S : (\A o \in r.overrides : o.rid = t => o \in ovs) => New(t) = Move(At0(t))
      /\ \A t \in S : (\A o \in ovs : o.rid # t) =>
           New(t) = A!Plain(u2, Later(t, delta), e.title)
  BY MovedItems
<1>2. \A t \in S : At0(t).slot = t
  BY DEF ItemAt
<1>3. \A t \in S : t \in slots
  OBVIOUS
<1> HIDE DEF New, Move, At0, S
<1>4. pivot \in S /\ \A o \in ovs : o.rid # pivot
  BY DEF S
<1>5. New(pivot) = A!Plain(u2, Later(pivot, delta), e.title)
  BY <1>1, <1>4
<1>6. \A t \in S \ {pivot} : New(t) = Move(At0(t))
  BY <1>1, <1>3
<1>7. {At0(t) : t \in S} \ {At0(pivot)} = {At0(t) : t \in S \ {pivot}}
  BY <1>2, <1>4
<1>8. {New(t) : t \in S} = {New(pivot)} \cup {New(t) : t \in S \ {pivot}}
  BY <1>4
<1>9. {New(t) : t \in S \ {pivot}} = {Move(j) : j \in {At0(t) : t \in S \ {pivot}}}
  BY <1>6
<1>10. ItemsOf(u2, r2) = {A!Plain(u2, Later(pivot, delta), e.title)}
                           \cup {Move(j) : j \in {At0(t) : t \in S} \ {At0(pivot)}}
  BY <1>1, <1>5, <1>7, <1>8, <1>9
<1> QED BY <1>10 DEF Move, At0, S, FutureOf


-----------------------------------------------------------------------------
(* The agenda of a calendar, and what a change to one of its series does.  *)

ShowAll(f) == UNION {ShownOf(u, f[u]) : u \in Uids}

(* The window shows all of every resource of G.                            *)
InView(G) == \A r \in G : r \in Tidy /\ SlotsOf(r) \subseteq Horizon

(* A step that takes the calendar shown from f to f2.                      *)
Steps(G, f, f2) ==
  /\ InView(G)
  /\ f \in [Uids -> G \cup {NoResource}] /\ f2 \in [Uids -> G \cup {NoResource}]
  /\ Shown = ShowAll(f) /\ Shown' = ShowAll(f2)

LEMMA ShownForms ==
  ASSUME NEW G, InView(G), NEW u \in Uids
  PROVE  /\ ShownOf(u, NoResource) = {}
         /\ \A r \in G : r # NoResource /\ ShownOf(u, r) = ItemsOf(u, r)
         /\ \A r \in G \cup {NoResource} : \A i \in ShownOf(u, r) : i.series = u
<1>1. ShownOf(u, NoResource) = {}
  BY DEF ShownOf
<1>2. \A r \in G : r # NoResource /\ ShownOf(u, r) = ItemsOf(u, r)
  BY NothingIsTidy, ShownItems DEF InView
<1>3. \A r \in G : \A i \in ItemsOf(u, r) : i.series = u
  BY DEF ItemsOf, ItemAt
<1> QED BY <1>1, <1>2, <1>3

LEMMA OfSeries ==
  ASSUME NEW G, NEW f, NEW f2, Steps(G, f, f2), NEW u \in Uids
  PROVE  A!Of(u) = ShownOf(u, f[u]) /\ ShownOf(u, f[u]) \subseteq Shown
<1>1. \A v \in Uids : \A i \in ShownOf(v, f[v]) : i.series = v
  BY ShownForms DEF Steps
<1>2. Shown = ShowAll(f)
  BY DEF Steps
<1>3. A!Of(u) = {i \in Shown : i.series = u}
  BY DEF A!Of
<1> QED BY <1>1, <1>2, <1>3 DEF ShowAll

LEMMA ReplaceStep ==
  ASSUME NEW G, NEW f, NEW f2, Steps(G, f, f2), NEW u \in Uids,
         \A v \in Uids \ {u} : f2[v] = f[v],
         NEW old, NEW new, old \subseteq ShownOf(u, f[u]),
         ShownOf(u, f2[u]) = (ShownOf(u, f[u]) \ old) \cup new
  PROVE  A!Replace(old, new)
<1>1. \A v \in Uids : \A i \in ShownOf(v, f[v]) : i.series = v
  BY ShownForms DEF Steps
<1>2. ShowAll(f2) \subseteq (ShowAll(f) \ old) \cup new
  <2> SUFFICES ASSUME NEW v \in Uids, NEW i \in ShownOf(v, f2[v])
               PROVE  i \in (ShowAll(f) \ old) \cup new
    BY DEF ShowAll
  <2>1. CASE v = u
    BY <2>1 DEF ShowAll
  <2>2. CASE v # u
    BY <1>1, <2>2 DEF ShowAll
  <2> QED BY <2>1, <2>2
<1>3. new \subseteq ShowAll(f2)
  BY DEF ShowAll
<1>4. ShowAll(f) \ old \subseteq ShowAll(f2)
  <2> SUFFICES ASSUME NEW v \in Uids, NEW i \in ShownOf(v, f[v]), i \notin old
               PROVE  i \in ShowAll(f2)
    BY DEF ShowAll
  <2>1. i \in ShownOf(v, f2[v])
    OBVIOUS
  <2> QED BY <2>1 DEF ShowAll
<1>5. ShowAll(f2) = (ShowAll(f) \ old) \cup new
  BY <1>2, <1>3, <1>4
<1> QED BY <1>5 DEF Steps, A!Replace

(* The same, with what is new in a series there was not.                   *)
LEMMA ReplaceTwo ==
  ASSUME NEW G, NEW f, NEW f2, Steps(G, f, f2), NEW u \in Uids, NEW u2 \in Uids \ {u},
         \A v \in Uids \ {u, u2} : f2[v] = f[v], f[u2] = NoResource,
         NEW old, old \subseteq ShownOf(u, f[u]),
         ShownOf(u, f2[u]) = ShownOf(u, f[u]) \ old
  PROVE  A!Replace(old, ShownOf(u2, f2[u2]))
<1>1. \A v \in Uids : \A i \in ShownOf(v, f[v]) : i.series = v
  BY ShownForms DEF Steps
<1>2. ShownOf(u2, f[u2]) = {}
  BY ShownForms DEF Steps
<1>3. ShowAll(f2) \subseteq (ShowAll(f) \ old) \cup ShownOf(u2, f2[u2])
  <2> SUFFICES ASSUME NEW v \in Uids, NEW i \in ShownOf(v, f2[v]), v # u2
               PROVE  i \in ShowAll(f) \ old
    BY DEF ShowAll
  <2>1. CASE v = u
    BY <2>1 DEF ShowAll
  <2>2. CASE v # u
    BY <1>1, <2>2 DEF ShowAll
  <2> QED BY <2>1, <2>2
<1>4. ShownOf(u2, f2[u2]) \subseteq ShowAll(f2)
  BY DEF ShowAll
<1>5. ShowAll(f) \ old \subseteq ShowAll(f2)
  <2> SUFFICES ASSUME NEW v \in Uids, NEW i \in ShownOf(v, f[v]), i \notin old
               PROVE  i \in ShowAll(f2)
    BY DEF ShowAll
  <2>1. v # u2
    BY <1>2
  <2>2. i \in ShownOf(v, f2[v])
    BY <2>1
  <2> QED BY <2>2 DEF ShowAll
<1>6. ShowAll(f2) = (ShowAll(f) \ old) \cup ShownOf(u2, f2[u2])
  BY <1>3, <1>4, <1>5
<1> QED BY <1>6 DEF Steps, A!Replace

(* A change of one series.                                                 *)
Alters(G, f, f2, u) ==
  /\ Steps(G, f, f2) /\ u \in Uids
  /\ \A v \in Uids \ {u} : f2[v] = f[v]

LEMMA CreateStep ==
  ASSUME NEW G, NEW f, NEW f2, NEW u, Alters(G, f, f2, u),
         f[u] = NoResource, f2[u] # NoResource, Created(f2[u])
  PROVE  Shown' # Shown => A!Next
<1> DEFINE r2 == f2[u]
<1>1. /\ u \in Uids /\ InView(G) /\ Steps(G, f, f2) /\ \A v \in Uids \ {u} : f2[v] = f[v]
      /\ r2 \in G
  BY DEF Alters, Steps
<1>2. ShownOf(u, f[u]) = {} /\ ShownOf(u, r2) = ItemsOf(u, r2) /\ r2 \in Tidy
  BY <1>1, ShownForms DEF InView
<1>3. A!Of(u) = {}
  BY <1>1, <1>2, OfSeries
<1>4. A!Replace({}, ItemsOf(u, r2))
  BY <1>1, <1>2, ReplaceStep
<1>5. PICK start \in Starts, title \in Titles, rule \in InitialRules \cup RuleEdits \cup {NoRule},
           allDay \in AllDays : r2 = NewResource(start, title, rule, allDay)
  BY DEF Created
<1>6. r2.overrides = {} /\ r2.title = title
  BY <1>5 DEF NewResource
<1> HIDE DEF r2
<1>7. ASSUME NEW i \in ItemsOf(u, r2) PROVE i = A!Plain(u, i.slot, title)
  <2>1. PICK t \in Kept(r2) : i = ItemAt(u, r2, t)
    BY DEF ItemsOf
  <2>2. OccurrenceAt(r2, t) = [slot |-> t, time |-> t, title |-> title, custom |-> FALSE]
    BY <1>2, <1>6, TidyParts, OccurrenceForm
  <2>3. i = [series |-> u, slot |-> t, time |-> t, title |-> title, custom |-> FALSE]
    BY <2>1, <2>2, ItemForm
  <2>4. i.slot = t
    BY <2>3
  <2> QED BY <2>3, <2>4, PlainForm
<1>8. A!Create(u, title)
  BY <1>3, <1>4, <1>7 DEF A!Create, A!Replace
<1> QED BY <1>1, <1>8 DEF A!Next

LEMMA RemoveSeriesStep ==
  ASSUME NEW G, NEW f, NEW f2, NEW u, Alters(G, f, f2, u), f2[u] = NoResource
  PROVE  Shown' # Shown => A!Next
<1>1. u \in Uids /\ InView(G) /\ Steps(G, f, f2) /\ \A v \in Uids \ {u} : f2[v] = f[v]
  BY DEF Alters, Steps
<1>2. ShownOf(u, f2[u]) = {}
  BY <1>1, ShownForms
<1>3. A!Replace(ShownOf(u, f[u]), {})
  BY <1>1, <1>2, ReplaceStep
<1>4. A!RemoveSeries(u)
  BY <1>1, <1>3, OfSeries DEF A!RemoveSeries
<1> QED BY <1>1, <1>4 DEF A!Next


(* A change of one series of the calendar, from r to r2.                   *)
Rewritten(G, f, f2, u, r, r2) ==
  Alters(G, f, f2, u) /\ f[u] = r /\ f2[u] = r2 /\ r \in G /\ r2 \in G

LEMMA SeriesView ==
  ASSUME NEW G, NEW f, NEW f2, NEW u, NEW r, NEW r2, Rewritten(G, f, f2, u, r, r2)
  PROVE  /\ u \in Uids /\ Steps(G, f, f2) /\ \A v \in Uids \ {u} : f2[v] = f[v]
         /\ r \in Tidy /\ SlotsOf(r) \subseteq Horizon
         /\ ShownOf(u, f[u]) = ItemsOf(u, r) /\ A!Of(u) = ItemsOf(u, r)
         /\ ItemsOf(u, r) \subseteq Shown
         /\ r2 \in Tidy /\ ShownOf(u, f2[u]) = ItemsOf(u, r2)
<1>1. /\ u \in Uids /\ Steps(G, f, f2) /\ \A v \in Uids \ {u} : f2[v] = f[v]
      /\ f[u] = r /\ f2[u] = r2 /\ r \in G /\ r2 \in G
  BY DEF Alters, Rewritten
<1>2. /\ r \in Tidy /\ SlotsOf(r) \subseteq Horizon /\ r2 \in Tidy /\ InView(G)
  BY <1>1 DEF Steps, InView
<1>3. ShownOf(u, r) = ItemsOf(u, r) /\ ShownOf(u, r2) = ItemsOf(u, r2)
  BY <1>1, <1>2, ShownForms
<1>4. A!Of(u) = ItemsOf(u, r) /\ ItemsOf(u, r) \subseteq Shown
  BY <1>1, <1>3, OfSeries
<1> QED BY <1>1, <1>2, <1>3, <1>4

(* The pivot of an edit, and how far it moves what it moves.               *)
LEMMA PivotView ==
  ASSUME NEW u, NEW r, NEW pivot \in Kept(r)
  PROVE  /\ ItemAt(u, r, pivot) \in ItemsOf(u, r)
         /\ pivot \in SlotsOf(r) /\ pivot \in Int
<1>1. pivot \in SlotsOf(r) /\ pivot \in Int
  BY DEF Kept, SlotsOf
<1> QED BY <1>1 DEF ItemsOf

LEMMA DeltaView ==
  ASSUME NEW t \in Times, NEW pivot \in Horizon
  PROVE  t - pivot \in {a - b : a \in Times, b \in Horizon} /\ t - pivot \in Int
<1>1. t \in Int /\ pivot \in Int
  BY EditorAssumption
<1>2. t - pivot \in Int
  BY <1>1
<1>3. t - pivot \in {a - b : a \in Times, b \in Horizon}
  OBVIOUS
<1> QED BY <1>2, <1>3

LEMMA PlainItem ==
  ASSUME NEW u, NEW r, NEW t, OnePerSlot(r.overrides), \A o \in r.overrides : o.rid # t
  PROVE  ItemAt(u, r, t) = A!Plain(u, t, r.title)
<1>1. OccurrenceAt(r, t) = [slot |-> t, time |-> t, title |-> r.title, custom |-> FALSE]
  BY OccurrenceForm
<1>2. ItemAt(u, r, t)
        = [series |-> u, slot |-> t, time |-> t, title |-> r.title, custom |-> FALSE]
  BY <1>1, ItemForm
<1> QED BY <1>2, PlainForm

LEMMA PlainStep ==
  ASSUME NEW G, NEW f, NEW f2, NEW u, NEW r, NEW r2, Rewritten(G, f, f2, u, r, r2),
         EditedPlain(r, r2)
  PROVE  Shown' # Shown => A!Next
<1>1. /\ u \in Uids /\ Steps(G, f, f2) /\ \A v \in Uids \ {u} : f2[v] = f[v]
      /\ ShownOf(u, f[u]) = ItemsOf(u, r) /\ ShownOf(u, f2[u]) = ItemsOf(u, r2)
  BY SeriesView
<1>2. PICK e \in Gesture : e.start \in Times /\ r2 = EditPlain(r, e) /\ r.rule = NoRule
  BY DEF EditedPlain
<1>3. r \in Tidy /\ r2 \in Tidy /\ SlotsOf(r) \subseteq Horizon /\ A!Of(u) = ItemsOf(u, r)
  BY SeriesView
<1>4. /\ SlotsOf(r2) = {e.start} /\ SlotsOf(r) = {r.start}
      /\ r2.title = e.title /\ r2.exdates = {} /\ r2.overrides = {}
      /\ r.exdates = {} /\ r.overrides = {} /\ r.start \in Int
  BY <1>2, <1>3, EditPlainSlots, TidyParts DEF Tidy
<1> DEFINE delta == e.start - r.start
           i == ItemAt(u, r, r.start)
<1>5. delta \in {a - b : a \in Times, b \in Horizon}
  BY <1>2, <1>3, <1>4, DeltaView
<1>6. e \in SeriesEdit /\ e.start \in Int /\ e.title \in Titles /\ e.reset \in SUBSET Fields
  BY DEF Gesture, SeriesEdit
<1>7. Kept(r) = {r.start} /\ Kept(r2) = {e.start}
  BY <1>4 DEF Kept
<1>8. ItemsOf(u, r) = {i} /\ ItemsOf(u, r2) = {ItemAt(u, r2, e.start)}
  BY <1>7 DEF ItemsOf
<1>9. i.custom = FALSE /\ i.slot = r.start
  <2>1. OccurrenceAt(r, r.start).custom = FALSE
    BY <1>3, <1>4, OccurrenceForm, TidyParts
  <2> QED BY <2>1 DEF ItemAt
<1>10. ItemAt(u, r2, e.start) = A!Plain(u, e.start, e.title)
  <2>0. OnePerSlot(r2.overrides) /\ r2.title = e.title /\ \A o \in r2.overrides : o.rid # e.start
    BY <1>3, <1>4, TidyParts
  <2>1. ItemAt(u, r2, e.start) = A!Plain(u, e.start, r2.title)
    BY <2>0, PlainItem
  <2> QED BY <2>0, <2>1
<1>11. e.start = Later(r.start, delta)
  BY <1>4, <1>6 DEF Later
<1> HIDE DEF i, delta
<1>12. A!Moved(i, u, delta, e.title, e.reset) = A!Plain(u, e.start, e.title)
  <2>1. A!Moved(i, u, delta, e.title, e.reset) = A!Plain(u, Later(i.slot, delta), e.title)
    BY <1>9, MovedPlain
  <2>2. Later(i.slot, delta) = e.start
    BY <1>9, <1>11
  <2> QED BY <2>1, <2>2
<1>13. ItemsOf(u, r2) = {A!Moved(j, u, delta, e.title, e.reset) : j \in ItemsOf(u, r)}
  BY <1>8, <1>10, <1>12
<1>14. A!Replace(ItemsOf(u, r), ItemsOf(u, r2))
  BY <1>1, <1>3, ReplaceStep
<1>15. A!EditSeries(u, delta, e.title, e.reset)
  BY <1>3, <1>13, <1>14 DEF A!EditSeries
<1>16. e.reset \in SUBSET A!Fields
  BY <1>6 DEF Fields, A!Fields
<1> QED BY <1>1, <1>5, <1>6, <1>15, <1>16 DEF A!Next, delta

LEMMA AllStep ==
  ASSUME NEW G, NEW f, NEW f2, NEW u, NEW r, NEW r2, Rewritten(G, f, f2, u, r, r2),
         r.rule # NoRule, NEW pivot \in Kept(r), NEW e \in Gesture, e.start \in Times,
         r2 = EditAll(r, e, pivot)
  PROVE  Shown' # Shown => A!Next
<1> DEFINE delta == e.start - pivot
           Move(j) == A!Moved(j, u, delta, e.title, e.reset)
<1>1. /\ u \in Uids /\ Steps(G, f, f2) /\ \A v \in Uids \ {u} : f2[v] = f[v]
      /\ ShownOf(u, f[u]) = ItemsOf(u, r) /\ ShownOf(u, f2[u]) = ItemsOf(u, r2)
      /\ r \in Tidy /\ r2 \in Tidy /\ SlotsOf(r) \subseteq Horizon /\ A!Of(u) = ItemsOf(u, r)
  BY SeriesView
<1>2. /\ pivot \in SlotsOf(r) /\ pivot \in Int
      /\ delta \in {a - b : a \in Times, b \in Horizon} /\ delta \in Int
  BY <1>1, PivotView, DeltaView
<1>3. e \in SeriesEdit /\ e.start \in Int /\ e.title \in Titles /\ e.reset \in SUBSET Fields
  BY DEF Gesture, SeriesEdit
<1>4. Carries(r, r2, SlotsOf(r), r.overrides, delta, e)
  BY <1>1, <1>2, <1>3, EditAllSlots
<1> HIDE DEF delta
<1>6. /\ ItemsOf(u, r2) = {ItemAt(u, r2, Later(t, delta)) : t \in Kept(r)}
      /\ \A t \in Kept(r) : ItemAt(u, r2, Later(t, delta)) = Move(ItemAt(u, r, t))
  BY <1>1, <1>2, <1>4, MovedItems DEF Kept
<1> HIDE DEF Move
<1>7. ItemsOf(u, r2) = {Move(j) : j \in ItemsOf(u, r)}
  BY <1>6 DEF ItemsOf
<1>8. A!Replace(ItemsOf(u, r), ItemsOf(u, r2))
  BY <1>1, <1>2, ReplaceStep
<1>9. A!EditSeries(u, delta, e.title, e.reset)
  BY <1>1, <1>7, <1>8 DEF A!EditSeries, Move
<1>10. e.reset \in SUBSET A!Fields
  BY <1>3 DEF Fields, A!Fields
<1> QED BY <1>1, <1>2, <1>3, <1>9, <1>10 DEF A!Next

(* Resources that agree on a slot show the same of it.                     *)
LEMMA SameItem ==
  ASSUME NEW u, NEW r \in Tidy, NEW r2 \in Tidy, r2.title = r.title, NEW t,
         \A o : o.rid = t => (o \in r2.overrides <=> o \in r.overrides)
  PROVE  ItemAt(u, r2, t) = ItemAt(u, r, t)
<1>1. OnePerSlot(r.overrides) /\ OnePerSlot(r2.overrides)
  BY TidyParts
<1>2. CASE \E o \in r.overrides : o.rid = t
  <2>1. PICK o \in r.overrides : o.rid = t
    BY <1>2
  <2>2. o \in r2.overrides
    BY <2>1
  <2>3. OccurrenceAt(r2, t) = OccurrenceAt(r, t)
    BY <1>1, <2>1, <2>2, OccurrenceForm
  <2> QED BY <2>3 DEF ItemAt
<1>3. CASE \A o \in r.overrides : o.rid # t
  <2>1. OccurrenceAt(r2, t) = OccurrenceAt(r, t)
    BY <1>1, <1>3, OccurrenceForm
  <2> QED BY <2>1 DEF ItemAt
<1> QED BY <1>2, <1>3

Retold(i, y, z, w) == [i EXCEPT !.time = y, !.title = z, !.custom = w]

LEMMA RetoldForm ==
  ASSUME NEW i, i = Remake(i), NEW y, NEW z, NEW w
  PROVE  Retold(i, y, z, w)
           = [series |-> i.series, slot |-> i.slot, time |-> y, title |-> z, custom |-> w]
<1>1. ASSUME NEW a, NEW b, NEW c, NEW d, NEW f
      PROVE  Retold([series |-> a, slot |-> b, time |-> c, title |-> d, custom |-> f], y, z, w)
               = [series |-> a, slot |-> b, time |-> y, title |-> z, custom |-> w]
  <2> DEFINE i0 == [series |-> a, slot |-> b, time |-> c, title |-> d, custom |-> f]
             i1 == [i0 EXCEPT !.time = y]
             i2 == [i1 EXCEPT !.title = z]
             i3 == [i2 EXCEPT !.custom = w]
  <2>1. Retold(i0, y, z, w) = i3
    BY DEF Retold
  <2>2. i1 = [series |-> a, slot |-> b, time |-> y, title |-> d, custom |-> f]
    OBVIOUS
  <2> HIDE DEF i1
  <2>3. i2 = [series |-> a, slot |-> b, time |-> y, title |-> z, custom |-> f]
    BY <2>2
  <2> HIDE DEF i2
  <2>4. i3 = [series |-> a, slot |-> b, time |-> y, title |-> z, custom |-> w]
    BY <2>3
  <2> HIDE DEF i3
  <2> QED BY <2>1, <2>4
<1>2. Retold(Remake(i), y, z, w)
        = [series |-> i.series, slot |-> i.slot, time |-> y, title |-> z, custom |-> w]
  BY <1>1 DEF Remake
<1> QED BY <1>2

LEMMA ThisStep ==
  ASSUME NEW G, NEW f, NEW f2, NEW u, NEW r, NEW r2, Rewritten(G, f, f2, u, r, r2),
         r.rule # NoRule, NEW pivot \in Kept(r), NEW e \in Gesture, e.start \in Times,
         r2 = EditThis(r, e, pivot)
  PROVE  Shown' # Shown => A!Next
<1> DEFINE i == ItemAt(u, r, pivot)
           j == ItemAt(u, r2, pivot)
<1>1. /\ u \in Uids /\ Steps(G, f, f2) /\ \A v \in Uids \ {u} : f2[v] = f[v]
      /\ ShownOf(u, f[u]) = ItemsOf(u, r) /\ ShownOf(u, f2[u]) = ItemsOf(u, r2)
      /\ r \in Tidy /\ r2 \in Tidy /\ ItemsOf(u, r) \subseteq Shown
  BY SeriesView
<1>2. pivot \in SlotsOf(r) /\ i \in Shown /\ i \in ItemsOf(u, r)
  BY <1>1, PivotView
<1>3. e \in SeriesEdit /\ e.title \in Titles
  BY DEF Gesture, SeriesEdit
<1>4. /\ SlotsOf(r2) = SlotsOf(r) /\ r2.title = r.title /\ r2.exdates = r.exdates
      /\ r2.overrides = UpsertOverride(r.overrides, pivot, e.start, e.title)
  BY <1>1, <1>2, <1>3, EditThisSlots
<1> HIDE DEF i, j
<1>5. Kept(r2) = Kept(r) /\ pivot \in Kept(r)
  BY <1>4 DEF Kept
<1>6. \A t \in Kept(r) \ {pivot} : ItemAt(u, r2, t) = ItemAt(u, r, t)
  <2> SUFFICES ASSUME NEW t \in Kept(r) \ {pivot} PROVE ItemAt(u, r2, t) = ItemAt(u, r, t)
    OBVIOUS
  <2>1. \A o : o.rid = t => (o \in r2.overrides <=> o \in r.overrides)
    BY <1>4 DEF UpsertOverride
  <2> QED BY <1>1, <1>4, <2>1, SameItem
<1>7. \A t : ItemAt(u, r, t).slot = t /\ ItemAt(u, r2, t).slot = t
  BY DEF ItemAt
<1>8. ItemsOf(u, r2) = (ItemsOf(u, r) \ {i}) \cup {j}
  BY <1>5, <1>6, <1>7 DEF ItemsOf, i, j
<1>9. j = Retold(i, e.start, e.title, TRUE)
  <2> DEFINE o == [rid |-> pivot, time |-> e.start, title |-> e.title]
  <2>1. o \in r2.overrides
    BY <1>4 DEF UpsertOverride
  <2>2. OnePerSlot(r2.overrides)
    BY <1>1, TidyParts
  <2>3. o.rid = pivot /\ o.time = e.start /\ o.title = e.title
    OBVIOUS
  <2> HIDE DEF o
  <2>4. OccurrenceAt(r2, pivot) =
          [slot |-> pivot, time |-> e.start, title |-> e.title, custom |-> TRUE]
    BY <2>1, <2>2, <2>3, OccurrenceForm
  <2>5. j = [series |-> u, slot |-> pivot, time |-> e.start, title |-> e.title, custom |-> TRUE]
    BY <2>4, ItemForm DEF j
  <2>6. i = Remake(i) /\ i.series = u /\ i.slot = pivot
    BY DEF i, ItemAt, Remake
  <2>7. Retold(i, e.start, e.title, TRUE)
          = [series |-> i.series, slot |-> i.slot, time |-> e.start, title |-> e.title,
             custom |-> TRUE]
    BY <2>6, RetoldForm
  <2> QED BY <2>5, <2>6, <2>7
<1>10. A!Replace({i}, {j})
  BY <1>1, <1>2, <1>8, ReplaceStep
<1>11. A!EditOne(i, e.start, e.title)
  BY <1>9, <1>10 DEF A!EditOne, Retold
<1> QED BY <1>2, <1>3, <1>11 DEF A!Next


-----------------------------------------------------------------------------
(* The occurrences from a slot on.                                         *)

Onward(r, pivot) == {t \in SlotsOf(r) : t >= pivot}

OnwardItems(u, r, pivot) == {ItemAt(u, r, t) : t \in Onward(r, pivot) \ r.exdates}

LEMMA OnwardOf ==
  ASSUME NEW u \in Uids, NEW r, NEW pivot, A!Of(u) = ItemsOf(u, r)
  PROVE  LET i == ItemAt(u, r, pivot)
         IN  {j \in A!Of(i.series) : j.slot >= i.slot} = OnwardItems(u, r, pivot)
<1> DEFINE i == ItemAt(u, r, pivot)
<1>1. i.series = u /\ i.slot = pivot
  BY DEF ItemAt
<1>2. \A t : ItemAt(u, r, t).slot = t
  BY DEF ItemAt
<1>3. \A t \in Kept(r) : t >= pivot <=> t \in Onward(r, pivot) \ r.exdates
  BY DEF Kept, Onward
<1>4. \A t \in Onward(r, pivot) \ r.exdates : t \in Kept(r)
  BY DEF Kept, Onward
<1> HIDE DEF i
<1>5. {j \in ItemsOf(u, r) : j.slot >= pivot} = OnwardItems(u, r, pivot)
  BY <1>2, <1>3, <1>4 DEF ItemsOf, OnwardItems
<1> QED BY <1>1, <1>5 DEF i

(* An edit of `this and future' whose series went to u2.                   *)
LEMMA FutureStep ==
  ASSUME NEW u \in Uids, NEW u2 \in Uids, NEW r \in Tidy, NEW r2 \in Tidy,
         NEW delta \in Int, NEW e, NEW pivot \in Kept(r), NEW ovs \in SUBSET r.overrides,
         A!Of(u) = ItemsOf(u, r),
         Carries(r, r2, Onward(r, pivot), ovs, delta, e),
         \A o \in r.overrides : o \in ovs <=> o.rid \in Onward(r, pivot) /\ o.rid # pivot,
         u2 # u => A!Of(u2) = {},
         u2 = u => Onward(r, pivot) = SlotsOf(r),
         A!Replace(OnwardItems(u, r, pivot), ItemsOf(u2, r2))
  PROVE  A!EditFuture(ItemAt(u, r, pivot), u2, delta, e.title, e.reset)
<1> DEFINE i == ItemAt(u, r, pivot)
           future == {j \in A!Of(i.series) : j.slot >= i.slot}
<1>1. future = OnwardItems(u, r, pivot)
  BY OnwardOf
<1>2. i.series = u /\ i.slot = pivot
  BY DEF ItemAt
<1>3. pivot \in Onward(r, pivot) \ r.exdates
  BY DEF Kept, Onward, SlotsOf
<1>4. Onward(r, pivot) \in SUBSET SlotsOf(r)
  BY DEF Onward
<1>5. ItemsOf(u2, r2) = FutureOf(u, u2, r, pivot, Onward(r, pivot), delta, e)
  BY <1>3, <1>4, FutureItems
<1>6. u2 = i.series => future = A!Of(i.series)
  BY <1>1, <1>2 DEF OnwardItems, ItemsOf, Kept
<1>7. u2 # i.series => A!Of(u2) = {}
  BY <1>2
<1>8. ItemsOf(u2, r2) =
        {A!Plain(u2, i.slot + delta, e.title)}
          \cup {A!Moved(j, u2, delta, e.title, e.reset) : j \in future \ {i}}
  <2>1. Later(pivot, delta) = i.slot + delta
    BY <1>2 DEF Later
  <2>2. future = {ItemAt(u, r, t) : t \in Onward(r, pivot) \ r.exdates}
    BY <1>1 DEF OnwardItems
  <2> HIDE DEF future
  <2> QED BY <1>5, <2>1, <2>2 DEF FutureOf
<1>9. A!Replace(future, ItemsOf(u2, r2))
  BY <1>1
<1> QED BY <1>6, <1>7, <1>8, <1>9 DEF A!EditFuture

LEMMA FirstStep ==
  ASSUME NEW G, NEW f, NEW f2, NEW u, NEW r, NEW r2, Rewritten(G, f, f2, u, r, r2),
         r.rule # NoRule, r.start \in Kept(r), NEW e \in Gesture, e.start \in Times,
         r2 = RewriteFirst(r, e, r.start)
  PROVE  Shown' # Shown => A!Next
<1> DEFINE delta == e.start - r.start
           ovs == {o \in r.overrides : o.rid # r.start}
<1>1. /\ u \in Uids /\ Steps(G, f, f2) /\ \A v \in Uids \ {u} : f2[v] = f[v]
      /\ ShownOf(u, f[u]) = ItemsOf(u, r) /\ ShownOf(u, f2[u]) = ItemsOf(u, r2)
      /\ r \in Tidy /\ r2 \in Tidy /\ SlotsOf(r) \subseteq Horizon /\ A!Of(u) = ItemsOf(u, r)
      /\ ItemsOf(u, r) \subseteq Shown
  BY SeriesView
<1>2. /\ r.start \in SlotsOf(r) /\ r.start \in Int
      /\ ItemAt(u, r, r.start) \in ItemsOf(u, r)
      /\ delta \in {a - b : a \in Times, b \in Horizon} /\ delta \in Int
  <2>1. /\ r.start \in SlotsOf(r) /\ r.start \in Int
        /\ ItemAt(u, r, r.start) \in ItemsOf(u, r)
    BY PivotView
  <2>2. r.start \in Horizon
    BY <1>1, <2>1
  <2>3. delta \in {a - b : a \in Times, b \in Horizon}
    BY <2>2, DeltaView
  <2>4. delta \in Int
    BY <2>2, DeltaView
  <2> QED BY <2>1, <2>3, <2>4
<1>3. e \in SeriesEdit /\ e.title \in Titles /\ e.reset \in SUBSET A!Fields
  BY DEF Gesture, SeriesEdit, Fields, A!Fields
<1>4. Onward(r, r.start) = SlotsOf(r)
  BY <1>1, TidyStart DEF Onward
<1>5. Carries(r, r2, Onward(r, r.start), ovs, delta, e)
  BY <1>1, <1>2, <1>4, RewriteFirstSlots
<1>6. \A o \in r.overrides : o.rid \in SlotsOf(r)
  BY <1>1 DEF Tidy
<1>7. \A o \in r.overrides : o \in ovs <=> o.rid \in Onward(r, r.start) /\ o.rid # r.start
  BY <1>4, <1>6
<1>8. OnwardItems(u, r, r.start) = ItemsOf(u, r)
  BY <1>4 DEF OnwardItems, ItemsOf, Kept
<1>9. A!Replace(OnwardItems(u, r, r.start), ItemsOf(u, r2))
  BY <1>1, <1>8, ReplaceStep
<1>10. ovs \in SUBSET r.overrides
  OBVIOUS
<1> HIDE DEF delta, ovs
<1>11. A!EditFuture(ItemAt(u, r, r.start), u, delta, e.title, e.reset)
  BY <1>1, <1>2, <1>4, <1>5, <1>7, <1>9, <1>10, FutureStep
<1> QED BY <1>1, <1>2, <1>3, <1>11 DEF A!Next

LEMMA RemoveStep ==
  ASSUME NEW G, NEW f, NEW f2, NEW u, NEW r, NEW r2, Rewritten(G, f, f2, u, r, r2),
         r.rule # NoRule, NEW pivot \in Kept(r), r2 = DeleteThis(r, pivot)
  PROVE  Shown' # Shown => A!Next
<1> DEFINE i == ItemAt(u, r, pivot)
<1>1. /\ u \in Uids /\ Steps(G, f, f2) /\ \A v \in Uids \ {u} : f2[v] = f[v]
      /\ ShownOf(u, f[u]) = ItemsOf(u, r) /\ ShownOf(u, f2[u]) = ItemsOf(u, r2)
      /\ r \in Tidy /\ r2 \in Tidy /\ ItemsOf(u, r) \subseteq Shown
  BY SeriesView
<1>2. pivot \in SlotsOf(r) /\ i \in Shown /\ i \in ItemsOf(u, r)
  BY <1>1, PivotView
<1>3. /\ SlotsOf(r2) = SlotsOf(r) /\ r2.title = r.title
      /\ r2.exdates = r.exdates \cup {pivot} /\ r2.overrides = r.overrides
  BY <1>1, <1>2, DeleteThisSlots
<1>4. Kept(r2) = Kept(r) \ {pivot}
  BY <1>3 DEF Kept
<1>5. \A t : ItemAt(u, r2, t) = ItemAt(u, r, t)
  BY <1>1, <1>3, SameItem
<1>6. \A t : ItemAt(u, r, t).slot = t
  BY DEF ItemAt
<1>7. ItemsOf(u, r2) = ItemsOf(u, r) \ {i}
  BY <1>4, <1>5, <1>6 DEF ItemsOf
<1> HIDE DEF i
<1>8. A!Replace({i}, {})
  BY <1>1, <1>2, <1>7, ReplaceStep
<1> QED BY <1>2, <1>8 DEF A!Next, A!Remove

LEMMA CutItems ==
  ASSUME NEW u, NEW r \in Tidy, NEW r2 \in Tidy, NEW pivot \in Int, CutAt(r, r2, pivot)
  PROVE  /\ ItemsOf(u, r2) = ItemsOf(u, r) \ OnwardItems(u, r, pivot)
         /\ OnwardItems(u, r, pivot) \subseteq ItemsOf(u, r)
<1>1. \A t \in Int : t < pivot <=> ~(t >= pivot)
  OBVIOUS
<1>2. \A t : t \in Kept(r2) <=> t \in Kept(r) /\ t \notin Onward(r, pivot)
  BY <1>1 DEF CutAt, Kept, Onward, SlotsOf
<1>3. ASSUME NEW t \in Kept(r2) PROVE ItemAt(u, r2, t) = ItemAt(u, r, t)
  <2>1. t < pivot
    BY <1>3 DEF CutAt, Kept
  <2>2. \A o : o.rid = t => (o \in r2.overrides <=> o \in r.overrides)
    BY <2>1 DEF CutAt
  <2>3. r2.title = r.title
    BY DEF CutAt
  <2> QED BY <2>2, <2>3, SameItem
<1>4. \A t : ItemAt(u, r, t).slot = t
  BY DEF ItemAt
<1>5. \A t \in Onward(r, pivot) \ r.exdates : t \in Kept(r)
  BY DEF Kept, Onward
<1>6. \A t \in Kept(r) : t \in Onward(r, pivot) => t \in Onward(r, pivot) \ r.exdates
  BY DEF Kept
<1>7. OnwardItems(u, r, pivot) \subseteq ItemsOf(u, r)
  BY <1>5 DEF OnwardItems, ItemsOf
<1>8. ItemsOf(u, r2) = {ItemAt(u, r, t) : t \in Kept(r2)}
  BY <1>3 DEF ItemsOf
<1>9. {ItemAt(u, r, t) : t \in Kept(r2)} = ItemsOf(u, r) \ OnwardItems(u, r, pivot)
  BY <1>2, <1>4, <1>5, <1>6 DEF ItemsOf, OnwardItems
<1> QED BY <1>7, <1>8, <1>9

(* What comes from a slot on is cut off: by a delete, or by the first of   *)
(* the two calls of a split.                                               *)
LEMMA CutStep ==
  ASSUME NEW G, NEW f, NEW f2, NEW u, NEW r, NEW r2, Rewritten(G, f, f2, u, r, r2),
         NEW pivot \in Kept(r), CutAt(r, r2, pivot)
  PROVE  Shown' # Shown => A!Next
<1> DEFINE i == ItemAt(u, r, pivot)
           old == OnwardItems(u, r, pivot)
<1>1. /\ u \in Uids /\ Steps(G, f, f2) /\ \A v \in Uids \ {u} : f2[v] = f[v]
      /\ ShownOf(u, f[u]) = ItemsOf(u, r) /\ ShownOf(u, f2[u]) = ItemsOf(u, r2)
      /\ r \in Tidy /\ r2 \in Tidy /\ ItemsOf(u, r) \subseteq Shown /\ A!Of(u) = ItemsOf(u, r)
  BY SeriesView
<1>2. pivot \in Int /\ i \in Shown
  BY <1>1, PivotView
<1>3. ItemsOf(u, r2) = ItemsOf(u, r) \ old /\ old \subseteq ItemsOf(u, r)
  BY <1>1, <1>2, CutItems
<1>4. {j \in A!Of(i.series) : j.slot >= i.slot} = old
  BY <1>1, OnwardOf
<1> HIDE DEF i, old
<1>5. A!Replace(old, {})
  BY <1>1, <1>3, ReplaceStep
<1>6. A!RemoveFuture(i)
  BY <1>4, <1>5 DEF A!RemoveFuture
<1> QED BY <1>2, <1>6 DEF A!Next

(* The step from f to f2 splits the series of u at an edited occurrence    *)
(* and gives the rest to u2.                                               *)
LEMMA SplitStep ==
  ASSUME Unshadowed, NEW G, NEW f, NEW f2, Steps(G, f, f2), NEW u \in Uids, NEW u2 \in Uids \ {u},
         \A v \in Uids \ {u, u2} : f2[v] = f[v], f[u2] = NoResource,
         f[u] \in G, f2[u] \in G, f2[u2] \in G, Splits(f[u], f2[u], f2[u2])
  PROVE  Shown' # Shown => A!Next
<1>1. PICK r \in G, old \in G, rest \in G :
        f[u] = r /\ f2[u] = old /\ f2[u2] = rest /\ Splits(r, old, rest)
  OBVIOUS
<1>2. PICK pivot \in Kept(r), e \in Gesture :
        /\ e.start \in Times /\ pivot > r.start
        /\ old = SplitOld(r, pivot) /\ rest = SplitNew(r, e, pivot)
  BY <1>1, EditSlotsAre DEF Splits
<1> DEFINE delta == e.start - pivot
           ovs == {o \in r.overrides : o.rid > pivot}
<1>3. InView(G) /\ r.rule # NoRule
  BY <1>1 DEF Steps, Splits
<1>4. r \in Tidy /\ SlotsOf(r) \subseteq Horizon /\ old \in Tidy /\ rest \in Tidy
  BY <1>3 DEF InView
<1>5. /\ ShownOf(u, r) = ItemsOf(u, r) /\ ShownOf(u, old) = ItemsOf(u, old)
      /\ ShownOf(u2, rest) = ItemsOf(u2, rest) /\ ShownOf(u2, NoResource) = {}
  BY <1>3, ShownForms
<1>6. A!Of(u) = ItemsOf(u, r) /\ ItemsOf(u, r) \subseteq Shown /\ A!Of(u2) = {}
  BY <1>1, <1>5, OfSeries
<1>7. /\ pivot \in SlotsOf(r) /\ pivot \in Int /\ ItemAt(u, r, pivot) \in ItemsOf(u, r)
      /\ delta \in {a - b : a \in Times, b \in Horizon} /\ delta \in Int
  <2>1. pivot \in SlotsOf(r) /\ pivot \in Int /\ ItemAt(u, r, pivot) \in ItemsOf(u, r)
    BY PivotView
  <2>2. pivot \in Horizon
    BY <1>4, <2>1
  <2>3. delta \in {a - b : a \in Times, b \in Horizon} /\ delta \in Int
    BY <1>2, <2>2, DeltaView
  <2> QED BY <2>1, <2>3
<1>8. e \in SeriesEdit /\ e.title \in Titles /\ e.reset \in SUBSET A!Fields
  BY DEF Gesture, SeriesEdit, Fields, A!Fields
<1>9. Carries(r, rest, Onward(r, pivot), ovs, delta, e)
  <2>1. Carries(r, SplitNew(r, e, pivot), {t \in SlotsOf(r) : t >= pivot},
                {o \in r.overrides : o.rid > pivot}, e.start - pivot, e)
    <3>1. pivot \in SlotsOf(r) /\ r \in Tidy /\ r.rule # NoRule
      BY <1>3, <1>4, <1>7
    <3> HIDE DEF delta, ovs
    <3> QED BY <3>1, SplitNewSlots
  <2> QED BY <1>2, <2>1 DEF Onward
<1>10. CutAt(r, old, pivot)
  BY <1>2, <1>3, <1>4, <1>7, CutSlots
<1>11. \A o \in r.overrides : o.rid \in SlotsOf(r) /\ o.rid \in Int
  BY <1>4, TidyParts DEF Tidy
<1>12. \A o \in r.overrides : o \in ovs <=> o.rid \in Onward(r, pivot) /\ o.rid # pivot
  BY <1>7, <1>11 DEF Onward
<1>13. ItemsOf(u, old) = ItemsOf(u, r) \ OnwardItems(u, r, pivot)
       /\ OnwardItems(u, r, pivot) \subseteq ItemsOf(u, r)
  BY <1>4, <1>7, <1>10, CutItems
<1>14. A!Replace(OnwardItems(u, r, pivot), ItemsOf(u2, rest))
  BY <1>1, <1>5, <1>13, ReplaceTwo
<1>15. ovs \in SUBSET r.overrides
  OBVIOUS
<1> HIDE DEF delta, ovs
<1>16. A!EditFuture(ItemAt(u, r, pivot), u2, delta, e.title, e.reset)
  BY <1>4, <1>6, <1>7, <1>9, <1>12, <1>14, <1>15, FutureStep
<1> QED BY <1>6, <1>7, <1>8, <1>16 DEF A!Next

(* Any rewriting of one series is a step of the agenda.                    *)
LEMMA RewriteStep ==
  ASSUME Unshadowed, NEW G, NEW f, NEW f2, NEW u, Alters(G, f, f2, u), Rewrites(f[u], f2[u])
  PROVE  Shown' # Shown => A!Next
<1>1. u \in Uids /\ f[u] \in G \cup {NoResource} /\ f2[u] \in G \cup {NoResource}
      /\ InView(G)
  BY DEF Alters, Steps
<1>2. CASE f2[u] = NoResource
  BY <1>2, RemoveSeriesStep
<1>3. CASE f[u] = NoResource /\ f2[u] # NoResource
  <2>1. Created(f2[u])
    BY <1>3 DEF Rewrites
  <2> QED BY <1>3, <2>1, CreateStep
<1>4. CASE f[u] # NoResource /\ f2[u] # NoResource
  <2>1. PICK r \in G, r2 \in G : f[u] = r /\ f2[u] = r2
    BY <1>1, <1>4
  <2>2. Rewritten(G, f, f2, u, r, r2)
    BY <2>1 DEF Rewritten
  <2>3. EditedPlain(r, r2) \/ EditedSeries(r, r2) \/ DeletedFrom(r, r2)
    BY <1>4, <2>1 DEF Rewrites
  <2>4. CASE EditedPlain(r, r2)
    BY <2>2, <2>4, PlainStep
  <2>5. CASE EditedSeries(r, r2)
    <3>1. PICK pivot \in Kept(r), e \in Gesture :
            /\ e.start \in Times /\ r.rule # NoRule
            /\ \/ r2 = EditAll(r, e, pivot)
               \/ r2 = EditThis(r, e, pivot)
               \/ pivot = r.start /\ r2 = RewriteFirst(r, e, pivot)
      BY <2>5, EditSlotsAre DEF EditedSeries
    <3>2. CASE r2 = EditAll(r, e, pivot)
      BY <2>2, <3>1, <3>2, AllStep
    <3>3. CASE r2 = EditThis(r, e, pivot)
      BY <2>2, <3>1, <3>3, ThisStep
    <3>4. CASE pivot = r.start /\ r2 = RewriteFirst(r, e, pivot)
      <4>1. r.start \in Kept(r) /\ r2 = RewriteFirst(r, e, r.start)
        BY <3>4
      <4> QED BY <2>2, <3>1, <4>1, FirstStep
    <3> QED BY <3>1, <3>2, <3>3, <3>4
  <2>6. CASE DeletedFrom(r, r2)
    <3>1. PICK pivot \in Kept(r) :
            r.rule # NoRule /\ (r2 = DeleteThis(r, pivot) \/ (pivot > r.start /\ r2 = DeleteFuture(r, pivot)))
      BY <2>6 DEF DeletedFrom
    <3>2. CASE r2 = DeleteThis(r, pivot)
      BY <2>2, <3>1, <3>2, RemoveStep
    <3>3. CASE pivot > r.start /\ r2 = DeleteFuture(r, pivot)
      <4>1. r \in Tidy /\ pivot \in SlotsOf(r)
        BY <1>1, <2>1, PivotView DEF InView
      <4>2. CutAt(r, r2, pivot)
        BY <3>1, <3>3, <4>1, CutSlots
      <4> QED BY <2>2, <4>2, CutStep
    <3> QED BY <3>1, <3>2, <3>3
  <2> QED BY <2>3, <2>4, <2>5, <2>6
<1> QED BY <1>1, <1>2, <1>3, <1>4


-----------------------------------------------------------------------------
(* What the calendar shows between the calls of a handler.                 *)

ShownIn(st, wr) ==
  (UNION {ShownOf(u, st[u]) : u \in Uids})
    \cup (UNION {ShownOf(w.uid, w.res) :
                   w \in {Head(wr[c]) : c \in {d \in Clients :
                            wr[d] # <<>> /\ Head(wr[d]).follows}}})

(* The client is not in the middle of a split.                             *)
Calm(wr, c) == wr[c] = <<>> \/ ~Head(wr[c]).follows

LEMMA CalmView ==
  ASSUME OneClient, NEW c \in Clients, NEW st, NEW wr, Calm(wr, c)
  PROVE  ShownIn(st, wr) = ShowAll(st)
<1>1. {d \in Clients : wr[d] # <<>> /\ Head(wr[d]).follows} = {}
  BY DEF OneClient, Calm
<1>2. UNION {ShownOf(w.uid, w.res) :
               w \in {Head(wr[d]) : d \in {}}} = {}
  OBVIOUS
<1> QED BY <1>1, <1>2 DEF ShownIn, ShowAll

(* The client has still to store the rest of a split.                      *)
Halfway(wr, c, new, rest) == wr[c] # <<>> /\ Head(wr[c]) = Put2(new, rest)

LEMMA PendingView ==
  ASSUME OneClient, NEW c \in Clients, NEW st, NEW wr, NEW f,
         NEW new \in Uids, NEW rest, Halfway(wr, c, new, rest),
         st[new] = NoResource, f[new] = rest, \A u \in Uids \ {new} : f[u] = st[u]
  PROVE  ShownIn(st, wr) = ShowAll(f)
<1> DEFINE head == Head(wr[c])
<1>1. head.uid = new /\ head.res = rest /\ head.follows /\ wr[c] # <<>>
  BY DEF Put2, Halfway
<1>2. {Head(wr[d]) : d \in {d \in Clients : wr[d] # <<>> /\ Head(wr[d]).follows}} = {head}
  BY <1>1 DEF OneClient
<1>3. \A u \in Uids : f[u] = IF u = new THEN rest ELSE st[u]
  OBVIOUS
<1>4. ShownOf(new, st[new]) = {}
  BY DEF ShownOf
<1> HIDE DEF head
<1>5. ShownIn(st, wr) = ShowAll(st) \cup ShownOf(new, rest)
  BY <1>1, <1>2 DEF ShownIn, ShowAll
<1>6. ShowAll(f) = ShowAll(st) \cup ShownOf(new, rest)
  <2>1. ShowAll(f) \subseteq ShowAll(st) \cup ShownOf(new, rest)
    BY <1>3 DEF ShowAll
  <2>2. ShownOf(new, rest) \subseteq ShowAll(f)
    BY <1>3 DEF ShowAll
  <2>3. ShowAll(st) \subseteq ShowAll(f)
    <3> SUFFICES ASSUME NEW u \in Uids, NEW i \in ShownOf(u, st[u]) PROVE i \in ShowAll(f)
      BY DEF ShowAll
    <3>1. u # new
      BY <1>4
    <3>2. f[u] = st[u]
      BY <1>3, <3>1
    <3> QED BY <3>2 DEF ShowAll
  <2> QED BY <2>1, <2>2, <2>3
<1> QED BY <1>5, <1>6

LEMMA CalmStep ==
  ASSUME OneClient, NEW c \in Clients, Calm(writes, c), Calm(writes', c), store' = store
  PROVE  Shown' = Shown
<1>1. Shown = ShownIn(store, writes) /\ Shown' = ShownIn(store', writes')
  BY DEF Shown, ShownIn
<1>2. ShownIn(store, writes) = ShowAll(store)
  BY CalmView
<1>3. ShownIn(store', writes') = ShowAll(store')
  BY CalmView
<1> QED BY <1>1, <1>2, <1>3

(* Requests, and what the handler makes of them, leave the calendar alone. *)
LEMMA SentUnseen ==
  ASSUME IInv, NEW G, DragInv(G), OneClient, NEW c \in Clients,
         Drag(c) \/ Save(c) \/ Delete(c) \/ Create(c)
  PROVE  Shown' = Shown
<1>1. UNCHANGED <<store, writes>> /\ Idle(c)
  BY DEF Drag, Save, Delete, Create, SendEdit, Send
<1>2. Calm(writes, c) /\ Calm(writes', c)
  BY <1>1 DEF Calm, Idle
<1> QED BY <1>1, <1>2, CalmStep

LEMMA HandledUnseen ==
  ASSUME IInv, NEW G, DragInv(G), OneClient, NEW c \in Clients, Handle(c)
  PROVE  Shown' = Shown
<1>1. request[c] # NoRequest
  BY DEF Handle, NotFound, CreateEvent, UpdatePlain, UpdateAll, UpdateThis, UpdateFirst,
         UpdateFirstRaises, UpdateSplit, DeleteResource, DeleteOccurrence, DeleteTail,
         FindsScoped, Finds, Asks
<1>2. writes[c] = <<>>
  BY <1>1 DEF DragInv, Fresh
<1>3. \/ \E answer : Fail(c, answer)
      \/ \E uid, r2 : Plan(c, <<Put1(uid, r2)>>)
      \/ \E uid, old, w : Plan(c, <<Put1(uid, old), w>>)
  <2>1. CASE NotFound(c) \/ UpdateFirstRaises(c)
    BY <2>1 DEF NotFound, UpdateFirstRaises
  <2>2. CASE CreateEvent(c)
    BY <2>2 DEF CreateEvent
  <2>3. CASE UpdatePlain(c) \/ UpdateAll(c) \/ UpdateThis(c) \/ UpdateFirst(c)
    BY <2>3 DEF UpdatePlain, UpdateAll, UpdateThis, UpdateFirst
  <2>4. CASE UpdateSplit(c)
    BY <2>4 DEF UpdateSplit
  <2>5. CASE DeleteResource(c) \/ DeleteOccurrence(c) \/ DeleteTail(c)
    BY <2>5 DEF DeleteResource, DeleteOccurrence, DeleteTail
  <2> QED BY <2>1, <2>2, <2>3, <2>4, <2>5 DEF Handle
<1>4. store' = store
  BY <1>3 DEF Fail, Plan
<1>5. Calm(writes', c)
  <2>1. CASE \E answer : Fail(c, answer)
    BY <2>1 DEF Fail, IInv, Calm
  <2>2. CASE \E uid, r2 : Plan(c, <<Put1(uid, r2)>>)
    <3>1. PICK uid, r2 : Plan(c, <<Put1(uid, r2)>>)
      BY <2>2
    <3>2. writes'[c] = <<Put1(uid, r2)>>
      BY <3>1 DEF Plan, IInv
    <3>3. Head(writes'[c]) = Put1(uid, r2)
      BY <3>2
    <3> QED BY <3>3 DEF Calm, Put1
  <2>3. CASE \E uid, old, w : Plan(c, <<Put1(uid, old), w>>)
    <3>1. PICK uid, old, w : Plan(c, <<Put1(uid, old), w>>)
      BY <2>3
    <3>2. writes'[c] = <<Put1(uid, old), w>>
      BY <3>1 DEF Plan, IInv
    <3>3. Head(writes'[c]) = Put1(uid, old)
      BY <3>2
    <3> QED BY <3>3 DEF Calm, Put1
  <2> QED BY <1>3, <2>1, <2>2, <2>3
<1>6. Calm(writes, c)
  BY <1>2 DEF Calm
<1> QED BY <1>4, <1>5, <1>6, CalmStep

LEMMA StoreIn ==
  ASSUME IInv, NEW G, DragInv(G)
  PROVE  store \in [Uids -> G \cup {NoResource}] /\ minted \subseteq Uids
BY DEF IInv, DragInv

LEMMA StoreView ==
  ASSUME IInv, NEW G, DragInv(G), OneClient, NEW c \in Clients
  PROVE  /\ Calm(writes, c) => Shown = ShowAll(store)
         /\ Calm(writes', c) => Shown' = ShowAll(store')
<1>1. Shown = ShownIn(store, writes) /\ Shown' = ShownIn(store', writes')
  BY DEF Shown, ShownIn
<1> QED BY <1>1, CalmView

(* A call that rewrites one resource.                                      *)
LEMMA RewriteSeen ==
  ASSUME IInv, NEW G, Closed(G), InView(G), DragInv(G), OneClient, NEW c \in Clients,
         NEW uid \in minted, NEW r2 \in G \cup {NoResource},
         Calm(writes, c), Calm(writes', c), store' = [store EXCEPT ![uid] = r2]
  PROVE  Alters(G, store, store', uid)
<1>1. store \in [Uids -> G \cup {NoResource}] /\ uid \in Uids
  BY StoreIn
<1>2. store' \in [Uids -> G \cup {NoResource}] /\ \A v \in Uids \ {uid} : store'[v] = store[v]
  BY <1>1
<1>3. Shown = ShowAll(store) /\ Shown' = ShowAll(store')
  BY StoreView
<1> QED BY <1>1, <1>2, <1>3 DEF Alters, Steps

LEMMA HalfwaySeen ==
  ASSUME OneClient, NEW c \in Clients, NEW f, NEW new \in Uids, NEW rest,
         Halfway(writes', c, new, rest), store'[new] = NoResource,
         f[new] = rest, \A u \in Uids \ {new} : f[u] = store'[u]
  PROVE  Shown' = ShowAll(f)
<1>1. Shown' = ShownIn(store', writes')
  BY DEF Shown, ShownIn
<1>2. ShownIn(store', writes') = ShowAll(f)
  BY PendingView
<1> QED BY <1>1, <1>2

LEMMA FirstCallSeen ==
  ASSUME Unshadowed, IInv, NEW G, Closed(G), InView(G), DragInv(G), OneClient, NEW c \in Clients,
         NEW uid \in minted, NEW new \in minted, NEW old \in G, NEW rest \in G,
         store[new] = NoResource, new # uid, Splits(store[uid], old, rest),
         Calm(writes, c), store' = [store EXCEPT ![uid] = old],
         \/ writes'[c] = <<>>
         \/ writes'[c] = <<Put2(new, rest)>>
  PROVE  Shown' # Shown => A!Next
<1>1. store \in [Uids -> G \cup {NoResource}] /\ uid \in Uids /\ new \in Uids
  BY StoreIn
<1>2. store' \in [Uids -> G \cup {NoResource}] /\ store'[new] = NoResource
      /\ store'[uid] = old /\ \A v \in Uids \ {uid} : store'[v] = store[v]
  BY <1>1
<1>3. store[uid] \in G
  BY <1>1 DEF Splits
<1>4. CASE writes'[c] = <<>>
  <2>1. Calm(writes', c)
    BY <1>4 DEF Calm
  <2>2. Rewritten(G, store, store', uid, store[uid], old)
    BY <1>2, <1>3, <2>1, RewriteSeen DEF Rewritten
  <2>3. PICK pivot \in Kept(store[uid]) :
          pivot > store[uid].start /\ old = SplitOld(store[uid], pivot) /\ store[uid].rule # NoRule
    BY EditSlotsAre DEF Splits
  <2>4. store[uid] \in Tidy /\ pivot \in SlotsOf(store[uid])
    BY <1>3, PivotView DEF InView
  <2>5. CutAt(store[uid], old, pivot)
    BY <2>3, <2>4, CutSlots
  <2> QED BY <2>2, <2>5, CutStep
<1>5. CASE writes'[c] = <<Put2(new, rest)>>
  <2> DEFINE f2 == [store' EXCEPT ![new] = rest]
  <2>1. Halfway(writes', c, new, rest)
    BY <1>5 DEF Halfway
  <2>4. Shown = ShowAll(store)
    BY StoreView
  <2>5. /\ f2 \in [Uids -> G \cup {NoResource}] /\ f2[new] = rest /\ f2[uid] = old
        /\ \A v \in Uids \ {uid, new} : f2[v] = store[v]
    BY <1>1, <1>2
  <2> HIDE DEF f2
  <2>3. Shown' = ShowAll(f2)
    <3>1. f2[new] = rest /\ \A v \in Uids \ {new} : f2[v] = store'[v]
      BY <1>2, <2>5
    <3> QED BY <1>1, <1>2, <2>1, <3>1, HalfwaySeen
  <2>6. Steps(G, store, f2)
    BY <1>1, <2>3, <2>4, <2>5 DEF Steps
  <2>7. Splits(store[uid], f2[uid], f2[new])
    BY <2>5
  <2> QED BY <1>1, <1>3, <2>5, <2>6, <2>7, SplitStep
<1> QED BY <1>4, <1>5

LEMMA CallSeen ==
  ASSUME DragsOnly, Unshadowed, IInv, NEW G, Closed(G), InView(G), DragInv(G), NEW c \in Clients,
         Put(c) \/ AnswerLost(c)
  PROVE  Shown' # Shown => A!Next
<1>0. OneClient
  BY DEF DragsOnly
<1>1. /\ writes[c] # <<>> /\ Apply(Head(writes[c]))
      /\ writes'[c] = Tail(writes[c]) \/ writes'[c] = <<>>
  BY DEF Put, AnswerLost, IInv
<1>2. store \in [Uids -> G \cup {NoResource}] /\ minted \subseteq Uids
  BY StoreIn
<1>4. CASE \E uid \in minted, r2 \in G \cup {NoResource} :
              /\ Head(writes[c]) = Put1(uid, r2) /\ Tail(writes[c]) = <<>>
              /\ Rewrites(store[uid], r2)
  <2>1. PICK uid \in minted, r2 \in G \cup {NoResource} :
          /\ Head(writes[c]) = Put1(uid, r2) /\ Tail(writes[c]) = <<>>
          /\ Rewrites(store[uid], r2)
    BY <1>4
  <2>2. Head(writes[c]).uid = uid /\ Head(writes[c]).res = r2 /\ ~Head(writes[c]).follows
    BY <2>1 DEF Put1
  <2>3. store' = [store EXCEPT ![uid] = r2] /\ store'[uid] = r2
    BY <1>1, <1>2, <2>2 DEF Apply
  <2>4. Calm(writes, c) /\ Calm(writes', c)
    BY <1>1, <2>1, <2>2 DEF Calm
  <2>5. Alters(G, store, store', uid)
    BY <1>0, <2>3, <2>4, RewriteSeen
  <2> QED BY <2>1, <2>3, <2>5, RewriteStep
<1>5. CASE \E uid \in minted, new \in minted, old \in G, rest \in G :
             /\ Head(writes[c]) = Put1(uid, old) /\ Tail(writes[c]) = <<Put2(new, rest)>>
             /\ store[new] = NoResource /\ new # uid /\ Splits(store[uid], old, rest)
  <2>1. PICK uid \in minted, new \in minted, old \in G, rest \in G :
          /\ Head(writes[c]) = Put1(uid, old) /\ Tail(writes[c]) = <<Put2(new, rest)>>
          /\ store[new] = NoResource /\ new # uid /\ Splits(store[uid], old, rest)
    BY <1>5
  <2>2. Head(writes[c]).uid = uid /\ Head(writes[c]).res = old /\ ~Head(writes[c]).follows
    BY <2>1 DEF Put1
  <2>3. store' = [store EXCEPT ![uid] = old]
    BY <1>1, <2>2 DEF Apply
  <2>4. Calm(writes, c)
    BY <2>2 DEF Calm
  <2>5. writes'[c] = <<>> \/ writes'[c] = <<Put2(new, rest)>>
    BY <1>1, <2>1
  <2> QED BY <1>0, <2>1, <2>3, <2>4, <2>5, FirstCallSeen
<1>6. CASE \E new \in minted, rest \in G :
             /\ Head(writes[c]) = Put2(new, rest) /\ Tail(writes[c]) = <<>>
             /\ store[new] = NoResource
  <2>1. PICK new \in minted, rest \in G :
          /\ Head(writes[c]) = Put2(new, rest) /\ Tail(writes[c]) = <<>>
          /\ store[new] = NoResource
    BY <1>6
  <2>2. Head(writes[c]).uid = new /\ Head(writes[c]).res = rest
    BY <2>1 DEF Put2
  <2>3. store' = [store EXCEPT ![new] = rest]
    BY <1>1, <2>2 DEF Apply
  <2>4. Calm(writes', c)
    BY <1>1, <2>1 DEF Calm
  <2>5. Shown' = ShowAll(store')
    BY <1>0, <2>4, StoreView
  <2>6. new \in Uids
    BY <1>2
  <2>7. ShownIn(store, writes) = ShowAll(store')
    <3>1. store'[new] = rest /\ \A v \in Uids \ {new} : store'[v] = store[v]
      BY <1>2, <2>3, <2>6
    <3>2. Halfway(writes, c, new, rest) /\ store[new] = NoResource
      BY <1>1, <2>1 DEF Halfway
    <3> QED BY <1>0, <2>6, <3>1, <3>2, PendingView
  <2>8. Shown = ShownIn(store, writes)
    BY DEF Shown, ShownIn
  <2> QED BY <2>5, <2>7, <2>8
<1> QED BY <1>1, <1>4, <1>5, <1>6, Calls

(* A call that fails before the second PUT of a split takes away what that *)
(* PUT would have stored.                                                  *)
LEMMA FailureSeen ==
  ASSUME DragsOnly, IInv, NEW G, Closed(G), InView(G), DragInv(G), NEW c \in Clients,
         CallFails(c)
  PROVE  Shown' # Shown => A!Next
<1>0. OneClient
  BY DEF DragsOnly
<1>1. store' = store /\ writes'[c] = <<>>
  BY DEF CallFails, Fail, IInv
<1>2. Calm(writes', c)
  BY <1>1 DEF Calm
<1>3. CASE Calm(writes, c)
  BY <1>0, <1>1, <1>2, <1>3, CalmStep
<1>4. CASE ~Calm(writes, c)
  <2>1. writes[c] # <<>> /\ Head(writes[c]).follows
    BY <1>4 DEF Calm
  <2>2. \A uid, res : ~Put1(uid, res).follows
    BY DEF Put1
  <2>3. PICK new \in minted, rest \in G :
          Head(writes[c]) = Put2(new, rest) /\ store[new] = NoResource
    BY <2>1, <2>2, Calls
  <2> DEFINE f == [store EXCEPT ![new] = rest]
  <2>4. store \in [Uids -> G \cup {NoResource}] /\ new \in Uids
    BY StoreIn
  <2>5. Shown = ShownIn(store, writes)
    BY DEF Shown, ShownIn
  <2>7. Shown' = ShowAll(store)
    BY <1>0, <1>1, <1>2, StoreView
  <2>8. /\ f \in [Uids -> G \cup {NoResource}]
        /\ \A v \in Uids \ {new} : store[v] = f[v]
        /\ f[new] = rest
    BY <2>4
  <2> HIDE DEF f
  <2>6. ShownIn(store, writes) = ShowAll(f)
    <3>1. Halfway(writes, c, new, rest)
      BY <2>1, <2>3 DEF Halfway
    <3> QED BY <1>0, <2>3, <2>4, <2>8, <3>1, PendingView
  <2>9. Alters(G, f, store, new)
    BY <2>4, <2>5, <2>6, <2>7, <2>8 DEF Alters, Steps
  <2> QED BY <2>3, <2>9, RemoveSeriesStep
<1> QED BY <1>3, <1>4

LEMMA NextSeen ==
  ASSUME DragsOnly, Unshadowed, IInv, NEW G, Closed(G), InView(G), DragInv(G), [Next]_vars
  PROVE  [A!Next]_Shown
<1>0. OneClient
  BY DEF DragsOnly
<1>1. CASE UNCHANGED vars
  BY <1>1 DEF vars, Shown
<1>2. ASSUME NEW c \in Clients, Drag(c) \/ Save(c) \/ Delete(c) \/ Create(c) \/ Server(c)
      PROVE  Shown' # Shown => A!Next
  <2>1. CASE Drag(c) \/ Save(c) \/ Delete(c) \/ Create(c)
    BY <1>0, <2>1, SentUnseen
  <2>2. CASE Handle(c)
    BY <1>0, <2>2, HandledUnseen
  <2>3. CASE CallFails(c)
    BY <2>3, FailureSeen
  <2>4. CASE Put(c) \/ AnswerLost(c)
    BY <2>4, CallSeen
  <2> QED BY <1>2, <2>1, <2>2, <2>3, <2>4 DEF Server
<1> QED BY <1>1, <1>2 DEF Next

(* A calendar that starts with one event.                                  *)
LEMMA InitSeen ==
  ASSUME DragsOnly, NEW G, Closed(G), InView(G), Init
  PROVE  A!Init
<1>1. PICK u \in Uids, start \in Starts, title \in Titles, rule \in InitialRules, allDay \in AllDays :
        store = [v \in Uids |-> IF v = u THEN NewResource(start, title, rule, allDay)
                                ELSE NoResource]
  BY DEF Init
<1> DEFINE r == NewResource(start, title, rule, allDay)
<1>2. Shown = ShownIn(store, writes)
  BY DEF Shown, ShownIn
<1>3. \A d \in Clients : writes[d] = <<>>
  BY DEF Init
<1>4. {d \in Clients : writes[d] # <<>> /\ Head(writes[d]).follows} = {}
  BY <1>3
<1>5. ShownIn(store, writes) = ShowAll(store)
  BY <1>4 DEF ShownIn, ShowAll
<1>6. Created(r)
  BY DEF Created
<1>7. r \in G /\ r \in Tidy
  BY <1>6 DEF Closed, InView
<1>8. r.overrides = {} /\ r.title = title
  BY DEF NewResource
<1> HIDE DEF r
<1>9. store[u] = r /\ \A v \in Uids : v # u => store[v] = NoResource
  BY <1>1 DEF r
<1>10. ShownOf(u, r) = ItemsOf(u, r) /\ \A v \in Uids : ShownOf(v, NoResource) = {}
  BY <1>7, ShownForms
<1>11. ShowAll(store) = ItemsOf(u, r)
  <2>1. \A v \in Uids : v # u => ShownOf(v, store[v]) = {}
    BY <1>9, <1>10
  <2>2. ShownOf(u, store[u]) = ItemsOf(u, r)
    BY <1>9, <1>10
  <2> QED BY <2>1, <2>2 DEF ShowAll
<1>12. ASSUME NEW i \in ItemsOf(u, r)
       PROVE  i \in A!Item /\ ~i.custom /\ i.time = i.slot
  <2>1. PICK t \in Kept(r) : i = ItemAt(u, r, t)
    BY DEF ItemsOf
  <2>2. i \in A!Item
    BY <1>7, <2>1, ItemTypes
  <2>3. OnePerSlot(r.overrides) /\ \A o \in r.overrides : o.rid # t
    BY <1>7, <1>8, TidyParts
  <2>4. i = [series |-> u, slot |-> t, time |-> t, title |-> r.title, custom |-> FALSE]
    BY <2>1, <2>3, PlainItem, PlainForm
  <2> QED BY <2>2, <2>4
<1> QED BY <1>2, <1>5, <1>11, <1>12 DEF A!Init

(* The scoped edits do what the agenda says: whatever one client drags,    *)
(* deletes and creates, and whichever calls fail, each change of what the  *)
(* calendar shows is one operation on the plain list of its occurrences    *)
(* (update_event, delete_event and their helpers).                         *)
THEOREM ImplementsTheAgenda ==
  ASSUME DragsOnly, Unshadowed, WideWindow
  PROVE  Spec => ImplementsAgenda
<1>1. PICK G : Closed(G) /\ \A r \in G : SlotsOf(r) \subseteq Horizon
  BY WindowShowsAll
<1>2. InView(G)
  BY <1>1 DEF InView, Closed
<1> DEFINE Inv == DragInv(G)
<1>3. Init => Inv
  BY <1>1, InitDrags
<1>4. IInv /\ Inv /\ [Next]_vars => Inv'
  BY <1>1, NextDrags
<1>5. Init => A!Init
  BY <1>1, <1>2, InitSeen
<1>6. IInv /\ Inv /\ [Next]_vars => [A!Next]_Shown
  BY <1>1, <1>2, NextSeen
<1> HIDE DEF Inv
<1> QED BY <1>3, <1>4, <1>5, <1>6, Invariance, PTL DEF Spec, A!Spec, ImplementsAgenda
=============================================================================
