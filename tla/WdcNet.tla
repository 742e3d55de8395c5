------------------------------- MODULE WdcNet -------------------------------
(***************************************************************************)
(* The network mediator (wdc_net.c) over the event queue: it keeps the     *)
(* link state a driver reports, posts an event when the connection comes   *)
(* or goes, and takes a guest's MQTT and HTTP requests, which it checks,   *)
(* numbers and records; sending them is left to a driver that is not in    *)
(* the repository.  A request reaches it through wdc_host_call_dispatch,   *)
(* authorized.  Its counters and the status it shows are left out.         *)
(***************************************************************************)
EXTENDS WdcEvents, Sequences, FiniteSets, Checks

CONSTANTS
    Resource,       \* the profile's network resources
    Policy,         \* Policy[r]: [op, max]: the operation r has a prefix for
    Text,           \* topics and URLs that begin with the prefix and fit
    Allowed,        \* the HTTP methods of the profile
    NetPayloadMax,  \* WDC_NET_PAYLOAD_MAX_BYTES
    RequestModulus, \* 2^32
    MaxRequests     \* bound on the requests taken

LinkKinds == {"net_connected", "net_disconnected"}
Requests == {"publish", "subscribe", "http"}

ASSUME NetAssumption ==
    /\ LinkKinds \subseteq Kind
    /\ Policy \in [Resource -> [op : Requests, max : Nat]]
    /\ NetPayloadMax \in Nat /\ MaxRequests \in Nat
    /\ RequestModulus \in Nat /\ RequestModulus > 2

VARIABLES
    net_state,         \* s_status.state; connected is derived from it
    next_request_id, last_request_id,
    record,            \* last_publish, last_subscribe, last_http_request
    told,              \* history: the link event drained last
    link_lost,         \* history: has a link event been dropped
    taken,             \* history: the requests taken, per operation the last
    ids                \* history: the ids given out

mediator == <<net_state, next_request_id, last_request_id, record>>
history == <<told, link_lost, taken, ids>>
netVars == <<vars, mediator, history>>

NoRecord == [id |-> 0, text |-> "", method |-> ""]

\* wdc_net_init
NetInit ==
    /\ Init
    /\ net_state = "disconnected"
    /\ next_request_id = 1 /\ last_request_id = 0
    /\ record = [op \in Requests |-> NoRecord]
    /\ told = "net_disconnected" /\ link_lost = FALSE
    /\ taken = record /\ ids = <<>>

Connected == net_state = "connected"

-----------------------------------------------------------------------------

\* wdc_net_set_state, called by the driver: only a change of the connection
\* is posted.
LinkChanges_m1(s) == s # net_state   \* mutant: every change of state
LinkChanges(s) == Connected # (s = "connected")

SetState(s) ==
    /\ boot = "up"
    /\ net_state' = s
    /\ IF LinkChanges(s)
       THEN /\ Push(IF s = "connected" THEN "net_connected" ELSE "net_disconnected")
            /\ link_lost' = (link_lost \/ dropped' # dropped)
       ELSE UNCHANGED <<queue, link_lost>>
    /\ UNCHANGED <<boot, self_test, next_request_id, last_request_id, record,
                   told, taken, ids>>

\* next_request_id
RequestId_m1 == next_request_id   \* mutant: 0 is given out
RequestId == IF next_request_id = 0 THEN 1 ELSE next_request_id

\* A request's map: resource, topic or URL, method, QoS (None of them if
\* "missing"), and the length of its payload; at most one of them is wrong.
AnyRequest ==
    [op : Requests, res : Resource \cup {"missing", "other"},
     text : Text \cup {"missing", "foreign", "long"},
     method : Allowed \cup {"", "missing", "other"},
     size : 0..NetPayloadMax + 1, qos : {0, 3}]

Defects(r) ==
    {f \in {"res", "text", "method", "size", "qos"} :
        CASE f = "res" -> r.res \notin Resource \/ Policy[r.res].op # r.op
          [] f = "text" -> r.text \notin Text
          [] f = "method" -> r.method \in {"missing", "other"}
          [] f = "size" -> \/ r.size > NetPayloadMax
                           \/ r.res \in Resource /\ r.size > Policy[r.res].max
          [] f = "qos" -> r.qos # 0}

Request ==
    {r \in AnyRequest :
        /\ r.op # "http" <=> r.method = ""
        /\ r.op # "publish" => r.qos = 0
        /\ r.op = "subscribe" => r.size = 0
        /\ Cardinality(Defects(r)) <= 1}

\* mqtt_publish, mqtt_subscribe and http_request, up to the copy into the
\* record; the last two checks only ever fail for a publish.
Verdict(r) ==
    LET net == r.res \in Resource
    IN  FirstError(<<
            Check(r.res # "missing", "BAD_ENCODING"),
            Check(net, "INVALID_RESOURCE"),
            Check(Connected, "NOT_SYNCHRONIZED"),
            Check(r.method # "missing" /\ r.text # "missing", "BAD_ENCODING"),
            Check(r.size <= NetPayloadMax, "BAD_LENGTH"),
            Check(net /\ Policy[r.res].op = r.op /\ r.text # "foreign"
                      /\ r.method # "other", "CAPABILITY_DENIED"),
            Check(net /\ r.size <= Policy[r.res].max, "BAD_LENGTH"),
            Check(r.qos <= 2, "BAD_ENCODING") >>)

Reject(r) ==
    /\ boot = "up"
    /\ Verdict(r) # "OK"
    /\ UNCHANGED netVars

\* copy_text refuses a text that is too long, when an HTTP request's method is
\* in the record already.
CopyFails_m1(r) ==   \* mutant: the resource and its id are stored first
    record' = [record EXCEPT ![r.op].method = r.method, ![r.op].id = RequestId]
CopyFails(r) == record' = [record EXCEPT ![r.op].method = r.method]

RejectLong(r) ==
    /\ boot = "up"
    /\ Verdict(r) = "OK" /\ r.text = "long"
    /\ CopyFails(r)
    /\ UNCHANGED <<vars, net_state, next_request_id, last_request_id, history>>

\* The request is recorded and numbered; its response may still not fit.
Take(r) ==
    LET rec == [id |-> RequestId, text |-> r.text, method |-> r.method]
    IN  /\ boot = "up" /\ Len(ids) < MaxRequests
        /\ Verdict(r) = "OK" /\ r.text # "long"
        /\ record' = [record EXCEPT ![r.op] = rec]
        /\ last_request_id' = RequestId
        /\ next_request_id' = (RequestId + 1) % RequestModulus
        /\ taken' = [taken EXCEPT ![r.op] = rec]
        /\ ids' = Append(ids, RequestId)
        /\ UNCHANGED <<vars, net_state, told, link_lost>>

-----------------------------------------------------------------------------

\* The queue's other users: the safety supervisor posts its changes of state,
\* the shell logs what it drains.
NetDrain ==
    /\ DrainOne
    /\ told' = IF items[head].kind \in LinkKinds THEN items[head].kind ELSE told
    /\ UNCHANGED <<mediator, link_lost, taken, ids>>

OtherEvents ==
    /\ SafetyPosts \/ SelfTest \/ Post("safety_state_changed")
    /\ UNCHANGED <<mediator, history>>

NetNext ==
    \/ \E s \in {"disconnected", "connected", "degraded"} : SetState(s)
    \/ \E r \in Request : Reject(r) \/ RejectLong(r) \/ Take(r)
    \/ NetDrain \/ OtherEvents

NetSpec == NetInit /\ [][NetNext]_netVars

-----------------------------------------------------------------------------
(***************************************************************************)
(* Properties                                                              *)
(***************************************************************************)

\* The link events a consumer has drained last, at 0, and will still drain.
LinkAt(k) == IF k = 0 THEN told ELSE items[(head + k - 1) % Capacity].kind
LinkStory == {k \in 0..count : LinkAt(k) \in LinkKinds}

\* Unless a link event was dropped by a full queue, the events tell the
\* connection's story: they alternate, and the last says what the connection
\* is now, whatever the driver does between connected and degraded.
LinkIsTold ==
    ~link_lost =>
        /\ \A k \in LinkStory :
              (\A j \in LinkStory : j <= k)
                => LinkAt(k) = IF Connected THEN "net_connected" ELSE "net_disconnected"
        /\ \A j, k \in LinkStory :
              j < k /\ (\A i \in LinkStory : i <= j \/ k <= i)
                => LinkAt(j) # LinkAt(k)

\* No request is numbered 0, and any RequestModulus - 1 requests in a row, of
\* whatever operations, have different numbers, also when the counter wraps.
RequestIdsDistinct ==
    \A k \in DOMAIN ids :
        /\ ids[k] # 0
        /\ \A l \in k + 1..Len(ids) :
              l < k + RequestModulus - 1 => ids[k] # ids[l]

\* The mediator's record of an operation is of the last request taken for it,
\* id and text together, over any mix of rejected requests; the method of the
\* HTTP record alone may be a rejected request's.
RecordsTellTaken ==
    \A op \in Requests :
        /\ record[op].id = taken[op].id /\ record[op].text = taken[op].text
        /\ op # "http" => record[op] = taken[op]

=============================================================================
