# A verification of mdnsd in TLA+

The modules here model the programs of this repository: the mDNS server (service
registry, response builders, query parser, main loop, configuration loader), the
browser and the query client, and the three of them on a link. TLC checks them
on small instances; TLAPS proves, for every value of the constants, the safety
properties that TLC checks.

Paths below are relative to the repository (`src/` in `PROJECT.json`).

## Inventory of the system

| Part | State | Operations | What is hard | What makes it correct |
|---|---|---|---|---|
| Service registry, `shared/src/hostdb.c` | `services[]`, `service_count`, `service_capacity`; each service owns up to six kinds of blocks | register, update, unregister, find by name, find by type, list, cleanup | allocations that fail half-way; names built with `snprintf` in 512 bytes and compared with `strcasecmp` | one service per name, exact ownership of memory, stable pointers and order |
| Response builders, `shared/src/mdns.c` | the output buffer, `offset`, `answer_count` | `mdns_build_response` (A, AAAA), `mdns_build_service_response` (SRV, TXT) | a buffer that ends anywhere; a length filled in after the data | no write out of bounds, whole records only, records that agree with the counts |
| Query parser, `shared/src/mdns.c` | none | `mdns_parse_query` | malformed packets | refuses or returns the name that was asked |
| Server, `server/src/mdns_server.c`, `socket.c` | `g_running`, the socket, the host record | start, `select` loop, signal handler, shutdown | signals at any point; datagrams queued by the kernel | replies sound and complete; stops when asked and frees everything |
| Configuration loader, `server/src/config.c` | `g_pending_line`, the section being read | `config_load_services`, `parse_service_section` | a line read by one loop and meant for the other; partial sections | registers what the file says |
| Browser, `client/src/mdns_browse.c` | two sockets, a deadline, a count | send PTR queries, receive, `decode_name`, print | compression pointers, wall clock, late and malformed packets | terminates at its deadline; shows what it received and counts the records of whole packets |
| Client, `client/src/mdns_client.c` | one socket | one query, one wait | late, foreign or missing answers | ends; it takes whatever comes first, which its documentation does not say |
| Arguments, `args.c` (both); logging, `log.c` | a struct; a level | parse; print | nothing concurrent | - |

Everything is single-threaded; the only asynchronous actors are the signal
handlers and the network. Interactions: `main` calls the loader, which calls
`mdns_register_service`; the loop calls the parser, the registry's lookups and a
builder, and hands the result to `sendto`. Clients, browsers and servers meet in
datagrams only: a question is sent to every host's port 5353, an answer to the
address the question came from. The client asks for SRV, A or AAAA, which the
server answers; the browser asks for PTR, which this server does not answer (it
is for the other responders of a link), from port 5353 itself. The hazards are
listed in `PROJECT.json` under `hazards`, each at its line.

## Modules

| Module | Models | State | Actions |
|---|---|---|---|
| `Names` | C strings that hold names: `strcasecmp`, `strlen`, `snprintf` of a full name, `parse_qname` and `encode_qname` as functions; the labels of the wire, which may hold dots and NULs | - | - |
| `Lookups` | the registry's two lookups, as functions of the services registered | - | - |
| `HostDb` | the registry | `services` (a sequence), `service_capacity`, `heap` (blocks per struct) | `Register`, `RegisterOutOfMemory`, `Update`, `UpdateOutOfMemory`, `Unregister`, `Cleanup` |
| `Directory` | what a registry promises: names, each standing for one struct | `entries` | `Add`, `Remove`, `Clear` |
| `Answers` | which records a response holds, as a function of question, services and size | - | - |
| `ResponseBuilder` | the builders, one step per check and write | program counter, locals, the buffer with the field each byte was written for | `Start` ... `Finish`; `EncodeLabel`, `EncodeFails`, `EncodeEnds` are `encode_qname`, with `enc.site` as its return address |
| `Questions` | what the server makes of a datagram, from the parser to the builder, as functions; uses `Answers` and `Lookups` | - | - |
| `Responder` | the server process; uses `HostDb` and `Questions` | registry, `pc`, socket, handlers, receive queue, the datagram at hand, replies | one action per statement of `main` that matters, `Arrive` and `Signal` for the environment |
| `ConfigLoader` | the loader; uses `HostDb` | the file, `line_num`, `g_pending_line`, the section | `TakePending`, `TakeNext`, `EndOfFile`; `ReadKey`, `SkipLine`, `SectionEnds`, `Validate`, `RegisterFails`, `RegisterSucceeds` |
| `NameReaders` | `parse_qname` and `decode_name`, byte by byte | packet, `pos`, the text, `jumps`, `local_next`, how far packet and buffer were touched | `Label`, `Pointer`, `Root`, `Fail` |
| `Browse` | the browser; uses `Names` | sockets, wall clock, deadline, `select`'s timeout, receive queues, the packet and record at hand, count, screen | `BuildName`, `OpenSucceeds`/`OpenFails`, `SendSucceeds`/`SendFails`, `StartTimer`, the loop (`CheckDeadline`, which reads the clock, `CallSelect`, ... `BothRead`), `PrintRecord`, `PrintEnds`, `Report`; `Tick`, `SetClock` and `Arrive` for the environment |
| `Network` | the link, the clients and, in one step per datagram, the servers; uses `Questions` | servers that run, each client's place, port and question, the datagrams under way | `Server*`, `Client*`, `BrowserAsks`, `OutsiderAsks`; `Undelivered` and `Lose` for the link |
| `QuestionsProofs` | lemmas about the functions of `Names`, `Lookups`, `Answers` and `Questions` | | |
| `HostDbProofs`, `ResponseBuilderProofs`, `ResponderProofs`, `ConfigLoaderProofs`, `NameReadersProofs`, `BrowseProofs`, `NetworkProofs` | the theorems about each of these modules | | |
| `MC*` | values of the constants for TLC | | |

Abstractions. A string is a sequence of tokens, a dot or a label; of a label the
model keeps its lower-case form, its length and whether it starts with an
underscore, which is all the code looks at. On the wire a label is a sequence of
such runs, dots and NULs (`WireLabel`), since the wire allows any byte in it:
`Spelled` is the text `parse_qname` makes of labels, `CText` what a C string keeps
of it, and `TextToWire` splits it again at its dots. `Responder` receives, and
`Browse` prints, such names; the questions of `Network` are those its programs ask,
without dots in labels. `Cut`, which is `snprintf` into 256 bytes, cuts between
tokens.
`priority`, `weight` and `port`, always copied together, are one field. Memory is
counted in blocks per service, so a leak or a double free is a wrong count. Null
and empty strings are one value, because `validate_service` refuses both. A
packet that the browser receives is a sequence of records, each broken (it runs
out of the packet), opaque (nothing of it can be shown) or plain; how bytes
become names is `NameReaders`' matter. `Network` lets a server handle a datagram
in one step, since its registry does not change in the loop and it shares
nothing; `Responder` has the steps. Logging is left out.

Undefined behaviour is a choice: freeing the literal `"local"` in `config.c`
either aborts or is not noticed; `full_name` of the client, used after its block
has ended, holds the name or whatever `LeftOver` allows. Signals follow the
System V semantics that `signal()` has under the Makefile's
`-std=c99 -D_POSIX_C_SOURCE=200809L`.

Definitions called mutants (each with a comment that starts with "Mutant of")
are plausible mistakes in the definition that follows them; nothing in the
specifications uses them. Each property is run against one of them, to see that
it can fail.

## What TLC checks

| Run | Question | Bounds, and why they are enough |
|---|---|---|
| `host_db` | `TypeOK`, `UniqueFqdn`, `HeapExact`, `CapacityCovers`, `StoredServicesAreValid`, `IdentityAndOrderKept`, `ImplementsDirectory` | three structs, seven services: two that differ in case, two that split one name differently, one too long for the buffer, two that are refused. The initial capacity is 2, so that three services grow the array. Structs are symmetric |
| `response_builder` | `WritesInBounds`, `CommittedBytesStable`, `RecordsAsSpecified`, `LengthMeansAnswers`, `Returns` | lists of up to two services of six kinds, with every buffer size from 12 to 82 and two larger: each field of the first service is cut at each byte. Labels have one byte, so that field sizes, not label sizes, make the cases |
| `responder` | `RepliesSound`, `AnswersComplete`, `AtMostOneLate`, `ExitReleasesAll` | three structs and room for two services in a lookup, so that a type may have more services than are looked for; four services, one of a type of one label; a response buffer that holds two of them or not, depending on which; fourteen datagrams, two with a dot and two with a NUL in a label; any number of arrivals; two signals, so that a second one comes during shutdown. A queue of one is enough for a datagram to arrive while another is handled |
| `responder_liveness` | `ShutsDown`, `QueueServed` | two structs, two services, two datagrams that arrive for ever, a queue of two, which fills and overflows, two signals; `recvfrom` may fail each time |
| `config_loader` | `LoadedAsDeclared`, `CountIsExact`, `LoadEnds` | two or three sections out of seven bodies, with three separators; ports 65536 and 65537, which wrap; every allocation may fail |
| `name_readers` | `StaysInBounds`, `NameIsMeaning`, `NextOffsetIsEnd`, `EchoFaithful`, `Returns` | every packet of up to five bytes out of six (root label, lengths 1 and 2, a dot, a reserved length, a pointer), two offsets, three buffers. Five bytes hold a label, a pointer and its target; circles of one and two pointers and chains as long as the packet; the buffers are too small for anything, for a label, and not quite large enough for two |
| `browse` | `ScreenAsReceived`, `CountExact`, `DeadlineKept`, `BothServed`, `Ends` | five forms of the argument, one or two sockets, four packets of which two arrive, names with a dot and with a NUL in a label, a timeout of two ticks, one setting of the clock either way. Two packets make both sockets ready at once, or one packet wake `select` early and a second arrive later; from `StartTimer` on (no clock is read before) time passes between any two steps, in particular between the reading of the clock and the call of `select`, and three ticks take the clock past a deadline it was set back from |
| `network` | `AnswersAreWanted`, `NobodyForgotten`, `ComesToRest` | two hosts with a service of one type each, two clients of one host that has one ephemeral port, one question from port 5353 (a browser's or one of two of another program), one repetition, one stop of a server, any number of losses. One port makes the second client take over the first one's, with answers to the first on their way; both servers answer the first client, so that one answer comes late. One of the outside questions can be answered where its answer goes, so that servers answer each other's responses in the run, where `ComesToRest` claims nothing |

The runs of `Network` say `CHECK_DEADLOCK FALSE`: clients end, the last datagram is
handled, and nothing more happens. `NobodyForgotten` is about every host that can
answer the question in full, as `Answerable` says, and excepts the hosts in `missed`,
which were stopped or lost a datagram: nothing is ever sent again.
`AnswersAreWanted` is about the responses under way and not about who takes them:
it names the question by address and content, and a client that has the port of an
earlier one does take the answer to that one's question (see below).
That the question concerns the host it is from is stated of labels (its name, a
type it has), and not of what the server computes. `ComesToRest` has a proviso,
that no response is taken for a question: where one is, two servers go on for ever
(`OnlyQueriesAnswered`, below), and nothing is claimed of it.

`RepliesSound` judges a response by the question it repeats. For labels without a
dot or NUL that is the question received; for others the code takes the name for
what its text spells, and the response says so (see below).
`CommittedBytesStable` excepts one byte, `LowByteBehind`: of a record whose RDATA is
one byte (a TXT record without strings) the low byte of RDLENGTH lies behind the
record, and the next record's name writes over it.

The remaining runs each state what a document or comment of the repository says
and end in a counterexample; the findings in `PROJECT.json` quote the lines:

| Run | What the code does |
|---|---|
| `targeted_query` | a question for a registered instance by name is never answered: the parsed name ends in a dot, the registry's does not |
| `second_signal` | a second signal during shutdown kills the server |
| `rdlength` | RDLENGTH is written over the first bytes of RDATA |
| `reflection` | a question from port 5353 for a service that its own host has as well is answered by the other server; the answer reaches the first host's server, which answers it as if it were a question, and so on |

Seen in the models and the subject of no property, since none of it can hold and
the text it contradicts is quoted here:

- The client takes the first datagram that reaches its port, whatever it holds
  (`mdns_client.c:229`, `ClientReceives`): in the run it takes the answer to the
  client that had the port before. `doc/mdns/a-record-exchange.md:433` and `:439`
  say that it checks "QR = 1 (response)" and "Question matches sent question", and
  `doc/ARCHITECTURE.md:172` "**IPv6-only**: Ignores A responses".
- A label with a dot in it, such as `_http._tcp`, is answered like two labels, and
  the response repeats the question with two (`mdns.c:58`, `Repeated`), where
  `doc/mdns/message-types.md:139` has "Echo of the original question(s)".
- A section without a required key has its `domain` freed, which is the literal
  `"local"` unless the section gave one (`config.c:124`, and `:143` for one that is
  not registered): undefined, and an abort with glibc (`Reject`). `README.md:307`
  says "Validates required fields (instance, type, port, target)".
- A name that cannot be encoded ends the loop over the services with room left,
  where the comment at `mdns.c:325` speaks of space.
- The browser may print "No responses" and exit with 1 below records it has
  printed, when each packet was malformed behind them (`mdns_browse.c:834`).

### Fairness

`ResponseBuilder`, `ConfigLoader` and `NameReaders` are sequential code without
blocking calls, so `WF_vars(Next)` says that the processor runs them. `Responder`
has weak fairness of `Main`, the steps of the process itself: it is scheduled,
and `select` returns, after one second at the latest. Nothing is assumed of the
network, which may send for ever or not at all, or of signals, and a `recvfrom`
or `select` that fails may or may not happen. `Browse` has weak
fairness of `Main` and of `Tick`: the browser is scheduled and time passes, on
the wall clock and in `select`, also between the reading of the clock and the call; failures, settings of the clock and arrivals may
or may not happen. `Network` has weak fairness of `Progress`: some datagram that
is not lost is delivered or some client takes its step, in which the second a
client waits for may always be over before an answer comes. It is not asked of
each datagram or client. The registry is a library: it has no liveness of its
own.

## What TLAPS proves

The assumptions are those of the modules: `NamesAssumption`, `HostDbAssumption`,
`AnswersAssumption`, `BuilderAssumption`, `QuestionsAssumption`,
`ResponderAssumption`, `RegistryAssumption`, `ConfigAssumption`,
`ReadersAssumption`, `BrowseAssumption`, `NetworkAssumption`. They give the
constants their types; of names they say that folding case twice changes nothing
and leaves dots alone, that a label has at least one byte, and, where names are
taken apart (`IsText`, which `Browse` asks of the argument of `-s`), that two
labels have a dot between them, since two in a row would be one. TLC evaluates
each of them in a run. A leaf that takes a prover a good part of its default time
names the prover and a longer one.

**Names and answers** (`QuestionsProofs`, lemmas). What the functions compute is
defined by recursion over names, labels, lists and TXT strings. The provers cannot use an
induction theorem that takes a predicate, but a set is a value: `LeastNumber` is
proved from the well-ordering of the naturals, `Induction` and
`SequenceInduction` say that a set with the first element and closed under the
step holds all, and `CountedRecursion` and `SequenceRecursion` that a function
with given equations exists. From them come the equations of `StrLen`,
`TextToWire`, `Folded`, `Spelled`, `WireToText` and `TxtBytes`, then what DNS knows of them:
text and labels are inverse to each other (`TextToWireOfWire`,
`WireToTextOfText`), what is spelled of labels without dot and NUL is their text
(`SpelledOfBare`), comparing text is comparing the labels it stands for
(`LookupIsDnsName`, `TypeIsDnsType`, for any text), a name of a service is split at its dots as it was joined
(`QuestionInParts`, `TypeInFqdn`), `Found` returns services of the type asked for
and no other (`FoundIsSound`), and all of them (`FoundIsWanted`), and a question
that is `Answerable` gets its whole answer (`AnswerableIsAnswered`). The same
principles give the loader, the browser and the readers of names the equations of
their references.

**The registry** (`HostDbProofs`). Inductive invariant `IInv`: types, distinct
structs, unique names, exact heap, capacity, validity. The parts need each other:
`HeapExact` is inductive only when list entries have structs of their own, since
removing one entry must leave the blocks of the others; and `free_service` frees
the right number only because `txt_kv_count` is that of the array
(`StoredServicesAreValid`). There is one lemma per action. From `IInv`:
`TypeCorrect`, `NamesUnique`, `MemoryExact`, `ListInBounds`, `ServicesValid`;
`LookupExact` (a lookup by name returns that service, not merely the first that
fits) and the action property `PointersKeepMeaning`. `Refinement`: `HostDb`
implements `Directory` under the mapping `DirectoryOf`, each action being an
`Add`, a `Remove`, a `Clear` or a stutter.

**The builders** (`ResponseBuilderProofs`). The first inductive invariant, `IInv`,
adds to the types what each program point knows: how far `offset`, `committed`,
`rdlength_pos` and `enc.written` are from the end of the buffer and from each
other. The point is RDLENGTH, which is written behind the check that made room
for it: `BufferSafe` holds because ten bytes were asked for at a place from which
the offset moved eight. `TypeCorrect` follows.
The second, `HoldsInv`, relates the loop to `Answers`. `After(k)` is what `Answers`
has written after `k` services; at the head of the loop `offset` and the counted
records are `After(i - 1)`, and inside, the offset is the end of each field in
turn. In the middle of a name, `Encodes` splits its length into what is written
and what `EncodedLen` says of the rest, and says that the rest decides whether
the name is accepted; `LabelByLabel` is why a label keeps it. In the middle of a
TXT record, the offset is a partial sum of `TxtBytes` (`TxtAddsUp`). Whatever
check fails is then one that `Answers` fails too (`ToFinish`). From it
`RecordsFit` (`RecordsAsSpecified`) and `LengthIsHonest` (`LengthMeansAnswers`).
`RecordsStable` (`CommittedBytesStable`) is about bytes by their owner, the record
each was last written for, and not by their place: RDLENGTH's low byte may lie
behind its record. `RdataInv` says that RDATA starts at RDLENGTH and has a byte when
the record is finished; with it `MarkInv`, that behind the counted records nothing
is theirs but that one byte, and `OwnedKept`, that a step writes over no other.

**The loader** (`ConfigLoaderProofs`). `LoaderInv` says that a section that is
read is always one the registry can be given: its port is in range and its TXT
list is a list. So `DrivesTheRegistry`: a load is a behaviour of `HostDb`'s
specification, and `RegistrySound`: everything proved of the registry holds
during a load. `TypeCorrect`, and `CountExact` (`CountIsExact`).
`LoadsWhatIsDeclared` (`LoadedAsDeclared`) says that the registry ends with what
the file declares, read as a document. `Loading` relates the two at every line.
`ReadUpTo` is the last line the loader has finished with: one less than
`line_num` while a header is pending. At the top of the loop the registry holds
`DeclaredUpTo` that line; in a section, `DeclaredUpTo` the line before its header,
and `svc` is `ServiceUpTo` the line read, `has` the required keys so far
(`Reads`). Where the section ends is then `EndOf` its header, and whether it
registers is the same question of the registry and of the declared services,
since duplicates are found by fields that registering keeps (`HeldDuplicates`).
It is an invariant as long as no allocation has failed.

**The server** (`ResponderProofs`). `UsesTheRegistry` and `RegistrySound` as for
the loader. `LateInv` is why at most one datagram is received after a stop
request (`StopsInTime`): the test of `g_running` stands before `select`.
`ReleaseInv` with the registry's `HeapExact` gives `ExitReleases`. `AnswerInv`
follows the datagram from `recv` to `sendto`: while a reply is built the datagram
at hand was accepted, and what the lookup found is registered and of the type or
name that its text stands for; with the lemmas on lookups, and `SpelledOfBare` for
labels without dot and NUL, that is `AnswersSound` (`RepliesSound`), for any
datagrams. `DueInv` says
that a reply about to be sent is the function `Due` of the datagram and the
registry, and `AnswerableIsAnswered` then gives `NothingLeftOut`
(`AnswersComplete`). `TxtInv` keeps what the registry holds fit for the builder;
`ControlInv` completes `TypeCorrect`.

**The link** (`NetworkProofs`). `ClientInv`: two sockets of one host are not bound
to one port, and a client that waits has asked from its own.
`TrafficInv` says of every datagram under way where it comes from: from or to a
port other than 5353 it carries a question that was asked from that port, and an
answer is from a host that gives it. From these `TypeCorrect` and
`ResponsesAnswer` (`AnswersAreWanted`), with `AnsweringConcerns`: no record without a service, no address without the name.
`NoneForgotten` (`NobodyForgotten`) holds since a datagram to a server becomes the
answer it gives, and a host that can answer in full answers (`KnowingIsAnswered`).

**The readers of names** (`NameReadersProofs`). `ReadersSafe`: nothing is read
beyond the packet and nothing written beyond the buffer, NUL included, for packets
of any length. The invariant adds that there is room for a NUL as long as the loop
runs, and where `local_next` is before and after the first jump; from it
`CallerAdvances`, by which the browser's loop over the records always moves on and
stays in the packet. `TypeCorrect` bounds `jumps` by the length of the packet.

What is read is a matter of `Meaning`, the name by the rules of DNS: `NameIn` gives
the names that are read within so many labels and pointers, and none for pointers
in a circle. `Reading` says of the loop that the meaning is the labels read so far,
whose text is `out`, followed by the name ahead at `pos` (`Behind`), and that
`local_next` is its end once a pointer was followed. This carries a label or a
pointer forward only if the name ahead does not depend on how many steps are left,
and that is `NameInRests`: `packet_len + 1` steps are enough. Names only grow with
the steps allowed, at most one at a place (`NameInGrows`, `NameAtOne`); the places
that have a name form a growing chain of subsets of the packet's positions, which
by their cardinality comes to rest after `packet_len` steps (`ChainRests`).
`Reading` also counts steps against jumps: a name ahead is one that can still be
read in `packet_len + 1 - jumps` steps, so that `jumps++ > packet_len` refuses none.
From it `NamesAreMeant` (`NameIsMeaning`) and `CallerGoesOnBehind`
(`NextOffsetIsEnd`). `QuestionIsRepeated` (`EchoFaithful`) is then about functions:
what `encode_qname` writes of the text of labels without dot and NUL is those
labels (`NameIsWritten`), and `parse_qname`, which follows no pointer, has read
just these bytes.

**The browser** (`BrowseProofs`). `ListensUntilDeadline`, for any timeout and
settings of the clock. The invariant `TimeInv` says that the deadline is ahead of
the wall clock by what is left of the timeout, corrected by the settings; without it
neither half of `DeadlineKept` is inductive, since `elapsed` and `now` are
unrelated. How long
`delay` may be is not bounded: it is up to the scheduler. `ReadyInv` says that a socket `select` has named still has its datagram,
and gives `SocketsServed` and `TypeCorrect`.
`ScreenIsReceived` (`ScreenAsReceived`) and `RecordsCounted` (`CountExact`) follow
from `ScreenInv`: between packets the screen is `Lines` of the packets handled; in
the middle of one it is `Lines` of the others and what the records before `i` have
shown, of which `printed` is the number, and none of them was broken. The text
that the code compares and the labels that the property compares agree because the
loop is reached only with a name that could be encoded, which is text in shape:
`QualifiedIsShaped` and `AskedIsGiven` say what adding `.local`, or not adding it,
does to the labels, and `PrintableIsToBeSeen` that for labels without dot and NUL
`strcasecmp` then decides what DNS would. For others `SameName`, and so the
property, can only say what the text reads like.

Only model-checked: all liveness (the provers have no fairness), that is that a
builder, a reader, the loader and the browser end, that the server stops and gets
to what is in its queue, and that the link comes to rest when no response is taken
for a question. The counterexamples are TLC's.

## Not modelled

Every component but the arguments and the log is modelled, and every safety
property of a passing run is a theorem.

Left out for good:

- `log.c` and the two `args.c`: sequential, output or one struct; the models take
  the arguments as given.
- Socket options: `socket.c` and the sockets of the browser are actions that
  succeed or fail. What SO_REUSEADDR does is in `Network`: a question goes to all
  sockets of port 5353, an answer to one of them.
- In `config.c`: the memory it never frees (the strings it made of a registered
  section, config.c:79-115, and values of repeated keys), `priority` and `weight`,
  numbers below zero, and lines of 1024 bytes or more, of which `fgets` makes
  several. `ExitReleasesAll` is about the registry's blocks.
- In the browser, the wording of its lines, names that `snprintf` has cut
  (`ScreenAsReceived` and `CountExact` except them), and a `gettimeofday` that
  fails.
- In `Network`, datagrams that none of its programs sends; the contents of an answer beyond the question it repeats
  (`Questions` and `Answers` have them), and what a browser makes of answers
  (`Browse` has it).
