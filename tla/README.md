# modapp in TLA+

modapp (`src/modapp/`) is a Python framework for request/response and
server-streaming APIs that are independent of the transport and of the
encoding. An application registers endpoints, a `Modapp` starts transports, each
transport hands raw requests to one common request path, and client channels do
the reverse. This directory models the framework, model-checks it with TLC and
proves theorems about most of its parts with TLAPS.

All concurrency is asyncio: one thread, tasks that interleave at `await`, a
loop that is driven by `Modapp.run`. What can go wrong is therefore found where
a task is suspended, fails half way or is left behind, and where state of one
run, router or transport is used by another.

## The system and its inventory

| Component | State | Operations | Talks to | Hard parts | Correct when |
|---|---|---|---|---|---|
| Request path: `base_transport.py`, `Route.get_request_handler`, `dependencies.py` | exit stack, dependency generators, outcome of each request | `got_request`, its nested stream generator | converter, user dependencies and handlers, transports | failures between entering and leaving dependencies, exits that raise, cancellation, a stream that outlives the call | every dependency entered is left once, in reverse order; one outcome; errors are mapped |
| Server lifecycle: `server.py` | which transports are starting, up, kept | `run`, `run_async`, `stop` | transports, asyncio | gather fails while others start; SIGINT anywhere; a second run | what serves is what this run started; stop releases everything |
| Registration: `routing.py`, `Modapp.include_router` | routes of a router, child routers, dictionaries handed to transports | `endpoint`, `add_route`, `include_router`, `routes` | transports | links against copies, precedence in a tree, circles, registration while starting | nothing registered is lost; transports agree |
| gRPC: `transports/grpc.py`, `channels/grpc.py` | the grpclib server, a connection | `start`, `stop`, `handle`, `send_unary_unary`, `send_unary_stream` | grpclib, request path | errors between messages, lost peers, swallowed exceptions | errors keep their class; streams are whole |
| HTTP: `transports/web_socketify.py`, `channels/httpx.py`, `channels/aiohttp.py` | the socketify app, responses | `start`, `stop`, `route_handler`, `on_error`, `send_unary_unary` | socketify, httpx, aiohttp, request path | answering and raising, a status the channels never read | one response; the status tells the outcome |
| In-memory: `transports/inmemory.py`, `channels/inmemory.py` | routes while started | `start`, `stop`, `handle_request`, `send_unary_unary`, `send_unary_stream` | request path, in the caller's own task | stop during a call; a cancellation that crosses from the caller into the server; an iterator nobody closes | a call that is over holds nothing; models come only from a fitting route |
| Models: `models/dataclass.py`, `models/pydantic.py` | none | `to_dict`, `validate_and_construct_from_dict` | converters | nesting, user data among attributes | names change, data does not |
| Converters: `converters/json.py`, `converters/protobuf.py` | none | `raw_to_model`, `model_to_raw`, `error_to_raw` | models | oneof fields, maps, unset fields, timestamps, errors without a body | round trips; whatever arrives can be read; a fault of the server has a body |
| Background tasks: `background/` | list of tasks | `add_task`, `__call__` | user functions, worker threads of anyio | a list that grows while it is executed, failure half way, a second call, a thread that outlives its call | one after the other, none left out, late ones included |
| Rest: `client.py`, `params.py`, `param_functions.py`, `types.py`, configuration, `communication_utils.py` | none | declarations; `run_request_handler` has no caller | | | |

`PROJECT.json` lists the components with what is modelled of each, and the
hazards with the line where each bites and the property that watches it.

## Modules

* `Rpc` is the abstract promise of the server: a call is pending, may become a
  stream, gets one final outcome, and delivers messages only while it is a
  stream.
* `GotRequest` is the request path in detail. It implements `Rpc`.
* `GrpcCall` and `HttpCall` put `Rpc` (through `INSTANCE`) between a transport
  and a channel and follow a call end to end. What a caller of the gRPC channel
  sees is again a call of `Rpc`. `HttpCall` includes the `error_to_raw` of both
  converters, for `on_error` depends on which errors they have a body for, and
  a converter of the application, of which nothing is known.
* `InMemoryCall` puts the whole of `GotRequest` between the two ends, because
  nothing else separates them: caller and handler are one task. What the caller
  sees is a call of `Rpc` here as well.
* `Modapp` is the life of a server, `Routing` the registration of endpoints and
  the dictionaries that reach the transports.
* `ModelKeys` is the renaming of keys between a model and the wire, and
  `ProtobufMessage` the way of a model through a dictionary into a protobuf
  message and back: pure algorithms checked against reference definitions. Both
  walk through trees of data, which `Values` has the means for: the nodes of a
  value, and `Walk`, a recursive conversion made of its step. `CamelCase` says
  what the models are like that `ModelKeys` is given, and what it promises of
  them; it has `ModelKeys` as an instance.
* `BackgroundTasks` is the list of tasks that runs after a request.
* `*Proofs` modules hold the theorems of the module they are named after,
  `ConversionProofs` those of `ProtobufMessage` and `CamelCase`, whose lemmas on
  values are the same. `MC*` modules give the constants values.

Correspondence of state and code:

| Module | Variables |
|---|---|
| `GotRequest` | `pc`: where the coroutine is; `stack`: the `AsyncExitStack`, as indices of dependencies; `gen`: the generator of each dependency; `unwinding`: the exception `aclose` carries; `result`: value or exception of the try block, then the outcome; `messages`, `calls`: counters |
| `Modapp` | `task`: the `start()` coroutines of each run; `object`: the grpclib `Server`, socketify `App` or routes each of them made; `ref`: `self.server`, `self.app`, `self.routes`; `toStop`: rest of the loop in `stop()`; `phase`, `busy`: who has the main thread; `interrupted`, `dirty`, `torn`: history (SIGINT came; a run began over the remains of another; the transports whose server was closed but not yet `None` when it came) |
| `Routing` | `own`: `_routes`; `children`: `child_routers`; `argument`: dictionaries of `start()` coroutines that have not run; `table`: what a transport serves |
| `GrpcCall` | `call`, `delivered`: `got_request` as in `Rpc`; `handle`: the coroutine of `HandlerStorage`; `sent`, `status`: what grpclib was given; `client`, `received`: the channel |
| `HttpCall` | `converter`; `call`; `handler`, `error`: `route_handler` and what it raised; `status`, `body`, `ends`: the response; `client`: the channel |
| `InMemoryCall` | all variables of `GotRequest`; `started`: `self.routes` is set; `method`, `call`, `received`: the channel |
| `ModelKeys`, `CamelCase` | `instance`, `wire`, `arguments`: an instance, its dictionary, the arguments of the constructor |
| `ProtobufMessage` | `model`, `proto`, `received`: an instance, the message (or the exception in its place), the dictionary `raw_to_model` makes of it. Descriptors, and what is in `protos`, are constants |
| `BackgroundTasks` | `tasks`: the list; `anyio`: the import succeeded; for each call `status`, `next` (the iterator of its loop), `executing` (a task in the loop or in a thread), `ran` |

One action is the code between two points where another task, the peer or a
signal can come in. Several failures of one stretch are one action with a choice
of outcome (`ReplyOutcomes` is the assertion, `model_to_raw` and the debug line
of one reply). User code, models and converters are a choice of what they
return or raise. `Errors` are the modapp errors, any other `Exception`, and
`CancelledError`, which no `except Exception` takes. The modapp errors are the
three with a status of their own and `PersistanceError`, which has none; for
`GotRequest` that one is any other `Exception`, as it is for `got_request`.

What is not in `src/` is modelled from how the code uses it and marked external
in the map: `AsyncExitStack` and `contextmanager` (an exit with an exception in
flight throws it into the generator), asyncio (a first-in-first-out ready queue,
`gather` raising at the first failure and leaving the rest alone), grpclib (one
status behind the messages; `UNKNOWN` for an exception or a unary call without a
reply; `close()` of a server that never started raises, and a second one of a
server that did may), socketify (an exception
of a handler goes to `on_error`, a failure there is answered with a text; the
first status written counts), humps, the protobuf runtime (a field takes a value
of its type, `None` leaves it unset, an optional field is a oneof of its own with
an underscore before its name, an unset field reads as its default, a float of 32
bits is rounded), `datetime` (years 1 to 9999), anyio (a
thread is not cancelled with the task that awaits it).

## Runs

| Run | Shows | Bounds and why they are enough |
|---|---|---|
| `got_request` | dependencies are left, last first, once; errors are mapped; a reply means a complete call; the exits never see the handler's error; `Rpc` is implemented | one task, since tasks share no state here; five routes that take every branch, up to three dependencies (first, middle and last differ), two messages |
| `modapp` | while a server runs everything it has is of this run; stop releases everything; only a run over remains orphans a listener; what `stop()` can meet, also when it is called again after SIGINT came at any point of it; a start-up settles | one transport of each class, two runs: the second meets what every kind of end of the first leaves |
| `modapp_interrupt`, `modapp_stop` (violations) | SIGINT in a handler does not end serving; stopping a gRPC server that never started, after a failed bind, raises where stop() only warns of a missing one | one run |
| `routing` | flattening equals the reference definition; paths are kept; transports agree | three routers, two paths, two handlers, four changes: every tree and circle of three routers with a conflict in it. Paths, handlers and transports are symmetric |
| `grpc_call` | modapp errors arrive as what their status says; a completed stream is whole but for a swallowed exception; callers are told; a caller sees an `Rpc` call | one unary and one streaming call, two messages: an error before, between and after them |
| `http_call` | one response; status and outcome agree; a fault of the server has a body; who waits is answered | two requests to a unary, a stream or a duplex route each, with either converter of modapp or one of the application |
| `model_keys` | what `to_dict` writes and a receiver reads back, with unknown keys added | 1323 models: places in attributes, optional attributes, lists and lists of lists, with places in them; lists of two; dicts of up to two keys; two orders of attributes, for the order decides which of two equal keys is last; a class whose two names humps makes one, and one whose name has a digit; a class that inherits attributes. `Depth` is the least these models allow. Without any one of the conditions of the two properties the run fails |
| `model_keys_user_data` (violation) | a dict attribute is stored under a key of the user's data | same |
| `in_memory_call` | a call that is over holds no dependency; models come only from a fitting route; cancellations are masked; a caller sees an `Rpc` call; every call returns | one call of either method to a unary route, one with metadata, a stream and a duplex route, two dependencies, two messages; the transport starts and stops at any time. Calls share `started` only |
| `protobuf_message` | plain models come back; whatever arrives can be read but for maps of bytes and Timestamps of no year of a datetime; which datetimes keep their instant | 179 models and 29 messages of others over eleven message types: nested, repeated and mapped messages, oneofs with a bool next to an int and a float of 32 bits next to one of 64, optional fields, enums, datetimes before and after 1970, floats that 32 bits hold or round, a model that lacks an attribute; Timestamps at both ends of the years and beyond, in every place one can have. `Depth` bounds how deep a value nests, here a list of places with a Timestamp in each |
| `background_tasks` | what was executed is a beginning of the list, one after the other; late tasks are run | two calls, two tasks to begin with (one in a thread), two added; with and without anyio |

`PROJECT.json` names for every property a mutant of the modelled code that
breaks it (operators with a suffix, such as `Top_Fifo`, next to what they
mutate).

Points a reader may wonder about:

* `TeardownNeverSeesHandlerError` is not praise. `aclose()` passes no exception,
  so a dependency that commits after its `yield` commits although the handler
  failed. The property says exactly when an exit does see an error.
* `NoDependencyOutlivesGotRequest` holds before a stream's first message: the
  handler of a streaming route runs when its dependencies are already closed.
* `CompletedStreamIsWhole` names the one way to lose the end of a stream
  silently: `handle` swallows an exception that is no modapp error.
* `NoDependencyOutlivesGotRequest` also says that an exit that raises half way
  leaves no dependency behind, which is why there is no property on whether a
  request ends at all: a `got_request` that stopped there would raise.
* `StartedServerCanStop` lets `stop()` meet a closed server in one case. A SIGINT
  between `close()` and the assignment of `None` leaves it kept (`torn`), and the
  next `stop()` closes it again.
* `ModappErrorsArrive` tells the errors with a status of their own from the rest:
  a `PersistanceError` arrives as a `ServerError`, and so would any modapp error
  that is added without a status.
* No property says that what an HTTP channel returns is the reply. It does not
  look at the status, so an error becomes a reply whenever the reply class takes
  its body. Which bodies can be taken is in `ReadAsReply`: with protobuf even the
  text "Internal Error", which parses as a message of unknown fields.
* `ServerErrorsHaveABody` says "500 only": for a `NotFoundError`, and where the
  converter fails on an `InvalidArgumentError`, the text of socketify is sent
  behind the status already written. It is about the converters of modapp; that
  of an application may raise for any error.
* `AnswersFitTheRoute` has its condition on metadata because no transport passes
  any: gRPC, HTTP and in-memory all call `got_request` with an empty dictionary.
* `CancellationIsMasked` is no praise either. Over the in-memory transport the
  caller's own cancellation reaches `except BaseException` of the server and
  comes back as a `ServerError`, so a timeout around the call does not time out.
* `MessagesCanBeRead` names what cannot be: `__proto_value_to_py_value` has no
  branch for bytes, and `datetime.fromtimestamp` raises for a year before 1 or
  after 9999, which a Timestamp of another program may have. In a oneof, a list
  or a map a Timestamp is read as a message, so there any year can be read.
* `PlainModelsRoundTrip` leaves out what is known not to come back: optional
  fields (the runtime puts each into a oneof with an underscore, so the key comes
  back with it and a message raises), enums and Timestamps in lists, maps and
  oneofs, bytes in maps, floats that 32 bits do not hold in a field of that type
  (the tests compare those with a tolerance), a oneof in which an earlier field
  takes the value for another or raises for it, and a model that lacks an
  attribute for a field that is always read, for its receiver gets one more.
  `TimestampsKeepInstant` is an equivalence for the same reason; it is about
  single Timestamps, for a list of datetimes is refused.
* `AttributesAreRenamed` and `KeysComeBack` name the limits of the two loops.
  `_camelize_model_dict` meets models that are attributes or items of a list that
  is one (`ModelsInReach`), and puts a dict with keys elsewhere
  (`HasDictAttribute`, a finding). `_decamelize_model_dict` goes by the annotation
  alone (`ModelsAreAnnotated`): `Optional[Place]` and `list[Place]` are no
  classes, so those places keep the names of the wire, and the constructor gets
  them as they are. A dataclass looks at `cls.__annotations__` only, so the
  attributes it inherits go to the wire and are dropped on the way back
  (`AttributesAreOwn`). What humps does to the names is a condition as well
  (`NamesStayApart`, `NamesComeBack`): `street_1` becomes `street1` and stays so.
* `RunsAPrefix` counts for one call. The list is never cleared, so a second call
  executes all tasks again, which the model allows and no property forbids.
* `NoOrphanListener` and `StopReleasesAll` exclude runs over the remains of
  another (`dirty`): there grpc's `start()` does replace a listening server.
* `send_unary_stream` opens its stream with `timeout=0`. When that deadline
  fires is up to grpclib, so `GiveUp` may come at any moment.
* Nothing compares a reply with the reply type of its route, and an endpoint
  that is registered again below an included router is logged as replaced
  without being routed to. No document promises otherwise.

## Fairness

* `Modapp`: the ready queue of asyncio is first in, first out, so a task in it
  gets its turn however often handlers run in between; hence strong fairness of
  the `start()` steps and of `run_async`. `stop()` is sequential code and a bind
  is answered: weak fairness. `run()`, `stop()` by the caller, SIGINT and
  requests need not happen.
* `InMemoryCall`: weak fairness of what a pending call waits for, `Serve`: a
  coroutine that can go on is resumed by the loop. It includes that handlers and
  dependencies end. The caller of a stream need not iterate it.
* `BackgroundTasks`: weak fairness of the end of a task: tasks return or raise.
* `GrpcCall`, `HttpCall`: weak fairness of the server's coroutine, and of the
  channel in `GrpcCall`. Losses and cancellation need not happen, and messages
  of a stream need not come.

## Proofs

All theorems hold for every value of the constants that satisfies the
assumptions of the module, which only give the constants their types (but for
`ProtobufMessage` and `CamelCase`, see below); TLC evaluates them in the run of
the module. None of the safety invariants below is inductive, so the modules have
an inductive one, checked with TLC before it was proved, that says what the
variables owe each other.

What flattens a tree of routers or walks through a value is recursive. Such a
recursion is written as a function over a bound (of the depth of a tree, of the
nodes of a value), and `Routing`, `ProtobufMessage` and `ModelKeys` have no
recursive operators. A proof about one has three parts. `Induction` is induction over the
natural numbers for a set of them in the place of a predicate, from the library's
theorem that the least element of a non-empty set exists. With it the recursion
is shown to have a solution, and one only, which gives the equation the code is
written as (`RoutesRecur`, `ToProtoUnfold`, `CamelizeUnfold`, `ReadAsUnfold`). What
the result is like then follows by `Induction` over the depth or a length.

* `GotRequestProofs`. That no dependency is left at its yield needs to know that
  the exit stack holds exactly the suspended ones (`StackInv`), in the order they
  were entered, which also gives the order of teardown. That a reply was served
  by a handler holding all its dependencies needs what each place in the code
  says of the stack and of the handler calls (`PlaceInv`); what an exit can see,
  where the exception in flight came from (`UnwindInv`); what leaves
  `got_request`, what the try block can have left for the finally clause
  (`OutcomeInv`). The step lemma goes through the actions once per part; a
  request that does not move keeps all of them. Proved: the types, all five
  safety invariants, `TeardownIsLifo`, and that `GotRequest` implements `Rpc`.
* `ModappProofs`. The heart is `Queue`: the ready queue is first in, first out
  over all runs, so when a coroutine of the latest run takes its first step no
  coroutine of an earlier one can still replace what it keeps. `KeptByLatest`,
  `Listeners` and `Clean` say what each transport keeps, what can listen at one
  time, and that runs over nothing left behind stay so. A lemma reduces the six
  steps of the three `start()` to one shape (`Advances`), another those of the
  main thread (`ThreadStep`). SIGINT between `close()` and the assignment of
  `None` is a step of its own (`InterruptClose`), after which the transport is
  `torn`: it keeps a closed server. Proved: all five safety invariants.
* `RoutingProofs`, for any number of routers, paths and changes. For
  `TransportsAgree`, all dictionaries of a run come from one (`Agree`), waiting
  or served. `RoutesFollowPrecedence` compares the nested updates of the code
  with the list of all routers of the tree (`Preorder`): updating with the
  dictionaries of a sequence in turn leaves for each key that of the last one
  having it, so a child that is flattened first may stand for its part of the
  list (`FlatIsPrec`). `PathsAreKept` needs that flattening only grows with the
  dictionaries and the lists of children (`FlatGrows`), at every depth, and that
  what is copied into the app is added. Two facts about the bound on the depth
  show that it hides nothing: `Circular` holds exactly for the routers above a
  circle of inclusions (`OnlyCirclesFail`: a path longer than there are routers
  meets one twice), and elsewhere `Routes` satisfies the unbounded equation
  (`RoutesAreRecursive`).
* `ConversionProofs`, first part: `ProtobufMessage`, for any descriptors, models
  and messages. `Inv` says
  that the message is what `ToProto` makes of the model or comes from a peer, and
  the dictionary what `ToDict` makes of it; the rest is about these two walks.
  Data, messages and plain models are conditions on each of the nodes
  (`NodeByNode`), and what holds of a value goes by induction over how deep it
  nests.
  `EveryMessageIsRead`: what `model_to_raw` makes of any model, if it does not
  raise, is a message of its type, field by field (`ToProtoIsMessage`), so what
  peers send and what the converter sends is read by one argument (`CanBeRead`):
  each branch of `__proto_obj_to_dict` takes what its field may hold, but for
  what `Refused` says.
  `InstantsOfUtc`: the attribute is the only one for its field, so what is read
  is the Timestamp made of it, and `seconds` cut towards zero with `nanos`
  counted upwards give the instant back exactly when the time is not negative or
  is a whole second (`StampReadBack`); a datetime is in the years of a datetime,
  and the second that may be lost keeps it there.
  `PlainModelsArrive`: the plain attributes go one to one to fields
  (`PlainChoiceIsChosen` for the oneofs: the first match is the right one when
  no earlier field takes the value for another), what a field keeps of a number it
  keeps as it is (`KeptIs`), none is refused by the runtime, and the keys
  read are those of the model (`NodeRoundTrips`, `CollectionRoundTrips`).
* `ConversionProofs`, second part: `CamelCase`, for any classes, names, models and
  unknown keys that `ModelAssumption` allows. Both loops assign to a dictionary key by key
  (`Written`). Where no key comes twice the dictionary has all of them in order
  (`WrittenAll`); keys that are skipped make no difference, and neither do their
  values (`WrittenSame`); and whatever happens, nothing is in it that was not
  assigned (`WrittenIs`), so a dictionary nests no deeper than the model
  (`KeepsWithin`).
  `AttributesRenamed`: where the names stay apart, a node is renamed when its
  items are (`ModelIsRenamed`, `ListIsRenamed`), and data without models needs
  none of it (`BareSame`).
  `NamesReturn`: where each class annotates all its attributes
  (`AttributesAreOwn`), annotated models are in reach and names that come back stay apart
  (`AnnotatedInReach`, `ComingBackApart`), so what is read is the renamed model,
  and its names and values are those of the model again (`ModelComesBack`).
  `KeysInv` connects the two ends: a message with keys added is read as it was
  before (`UnknownSkipped`), for a new key is skipped, and an assignment to an
  unknown key that is there changes a value that is skipped.
* `GrpcCallProofs`. The invariant follows the two ends: what `handle` may have
  sent for the state of the call, and what the channel has taken of it.
  Messages are counted along the way, delivered, sent, received, and the status
  is a function of how the call ended. Proved: `ModappErrorsArrive`,
  `CompletedStreamIsWhole`, and that the caller sees a call of `Rpc`.
* `HttpCallProofs`. The invariant ties the place in `route_handler` and
  `on_error` to the number of responses and to what the status may be. Proved:
  all three safety invariants.
* `InMemoryCallProofs` reuses `GotRequestProofs` through `INSTANCE`: every step
  of a call is a step of `got_request` or leaves it alone, so its invariant
  holds here. On top of it `CallInv` says where `got_request` is for each state
  of the call, `RouteInv` who gets past the lookup of metadata, and `AnswerInv`
  what the caller may have got. Proved: all three safety invariants and
  `CallersSeeRpc`.
* `BackgroundTasksProofs`. `RunsAPrefix` needs the position of the iterator:
  it is one ahead of what has been executed while a task is under way.

Only model-checked: liveness (`StartupSettles`, `EveryCallerIsTold`,
`RequestIsAnswered`, `EveryCallReturns`, `LateTasksRun`), which is out of reach of the prover. Every safety invariant and
every action property the passing runs check is proved.

The assumptions on data of `ProtobufMessage` say more than types: a field of a
oneof is single, a oneof is not named like a field, an enum or scalar field has
no message type, a Timestamp has its two fields (all of it what protoc and the
runtime guarantee); a model has at most one attribute for a oneof, which it would
otherwise store twice under one name; and a peer's message holds only what its
runtime lets it hold. `Rounding` is any function whose values are held, 0 and 1
are held, and the years of a datetime reach from some time up to 1970 to at least
a second after it. A model of n levels makes a message of at most one more, for
a datetime becomes a message with two fields, hence the bound below `Depth`.
That of `CamelCase` says that no class is named like a kind of data, that humps
turns names into names, that a model or dictionary has each key once, and that
the unknown keys are read as no attribute. What a class annotates need not be
what its models have. A model nests less than `Depth`, which is any number from 1 on.

## Not modelled

CORS headers, OPTIONS, `/connect`, static files and the unknown-path handler of
web_socketify answer without touching shared state. Its static index handlers
share a loop variable, and two paths that differ only in case are one over HTTP;
both are in the hazards, with no property, for it would repeat the expression.
The websocket side is a stub, so a UNARY_STREAM post always ends with 400 or 404
and the code behind that is out of reach. `update_config` writes a dictionary
nobody reads. `run_in_better_loop`, configuration defaults, parameter markers
and abstract base classes keep no state. What orjson and pydantic do to values
is theirs.

`ProtobufMessage` leaves out a repeated field whose message type is named like
the entry of a map, rounding of datetimes so far away that a float has no
microseconds left (from about the year 2242 on), numbers too large for a float
of 32 bits, and the width of integers, which the runtime checks.

## Plan

What is left, most important first.

1. A composition of `Modapp` and `Routing`: which routes a request can meet in a
   second run over the remains of a first.
2. `GrpcCall` and `HttpCall` with `GotRequest` inside, as in `InMemoryCall`:
   dependencies that are held while a peer is gone.
