# SimpleInferServiceDemo in TLA+

TLA+ models of the inference service in this repository: an HTTP server on
Boost.Asio that takes images in a multipart request, runs two neural networks on
each, saves the result in Redis and sends it back as JSON; and the client that
talks to it. TLC checks the models on small instances. The safety properties of
the event loop, the parser, the request handler with its storage, the decoding
of paths and images, the pipeline and the client, and that the event loop and
the handler implement their abstract specifications, are also proved with TLAPS,
for every instance.

## The system

| Part | State | Operations | Talks to |
|---|---|---|---|
| `server`, `main` (`source/server/server/server.cpp`, `source/server/main.cpp`) | the acceptor, the signal set, `new_connection_` | `start_accept`, `handle_accept`, `handle_stop`, `run` | starts connections through the manager; Asio calls its handlers |
| `connection`, `connection_manager` | `connections_`; per connection its socket, buffer, request, parser, reply | `start`, `stop`, `stop_all`, `handle_read`, `handle_write` | calls the parser and the request handler, is called back by Asio |
| `request_parser` | `state_`, `expectedContentLength`, `contentCtr`, and the request it fills | `parse`, `consume` | called by `handle_read` for each chunk |
| `request_handler` | none of its own | `handle_request` (`/predict`, `/history`), `url_decode`, `retrieveImages` | the pipeline, base64, the history storage |
| `PersonPipeline` | two networks, their infer requests, the detections | `init`, `run` | OpenCV, OpenVINO and its threads |
| `base64`, `reply`, `mime_types` | none | `base64_encode`, `base64_decode`, `stock_reply`, `to_buffers`, `extension_to_type` | called by the client, the request handler and `handle_read` |
| `HistoryStorage` | the counter `m_ctr`; the hash `history` in Redis | `generateHandle`, `save`, `getAll` | Redis, another process |
| `Client` and its `main` | none between calls | `formRequest`, `sendRequest` | the file system; the server, over one TCP connection per request |

One thread runs all of the server. Handlers therefore never overlap, and the
hard part is what happens between them: an operation that has finished, with its
handler still queued, when another handler closes its socket; a process that is
killed between the save and the reply; TCP cutting a request anywhere; one image
out of a batch failing. Two more things run by themselves: the threads of the
inference engine, and the client process.

What makes each part correct:

- Event loop and connections: every connection the manager holds has exactly one
  operation in flight, so that it is neither stuck nor handled twice; a stop
  reaches everything that waits, so `run()` returns; an accept is outstanding
  until then; a reply is not touched while it is written.
- Parser: it frames the body by the length the headers declare, never looks at
  the last header of an empty list, and gives the same request however TCP cut it.
- Request handler: a client gets the results of its own files and of nobody
  else's, one for every file name, or none at all; a request that fails halfway
  leaves nothing behind; what the reply says under a name comes from the bytes of
  the last file with that name.
- Storage: what a client was given is saved, and stays.
- Pipeline: an output is read after its inference and belongs to the person at
  hand; nothing of one image shows in the next, its size included.
- Client: it sends all of the files or nothing, and takes the whole reply.

## The modules

| Module | Models | State and actions against the code |
|---|---|---|
| `Server` | `server.cpp`, `connection.cpp`, `connection_manager.cpp`, `main.cpp` | One action per handler and per path through it: `accept_connection`, `accept_again` and `accept_after_stop` are `handle_accept`; `handle_stop`, `handle_read`, `handle_write`, `run_returns`. `manager_start`, `manager_stop`, `stop_all` are the manager's. `ops` holds the asynchronous operations: `pending`, then with a result until the handler runs. The actions of `Outside` are the peers, the signal and Asio. |
| `ConnectionService` | what the event loop promises, without Asio | Four states per connection and a phase; `Server` implements it (see below). |
| `RequestParser` | `request_parser.cpp` | The switch of `consume` is a table of rows (state, characters, next state), `store` what a row does to the request, `completes` the two places that return true. |
| `RequestFraming` | the client's bytes, the network, `connection::buffer_`, `request_parser::parse` | Extends `RequestParser` with a peer that writes any number of bytes at a time and a server that reads any number; or with a peer that sends any character at any time (`parse_anything`). |
| `Base64` | `base64.cpp` | `base64_encode` is an operator, `decode` a loop of one step per four characters, with the null character that ends a `std::string`. |
| `RequestForm` | the text of a request in `Client::Impl::sendRequest` | Operators: a part per file, the body, the header with the boundary. |
| `UrlDecode` | `request_handler::url_decode` | One action per kind of character; characters are codes. |
| `RequestText` | the parsing half of `handle_request`: path, boundary, `retrieveImages` | Extends `UrlDecode` and `RequestForm`; one action per loop turn. Text is a sequence of tokens, one for each string the code searches for. |
| `Reply` | `reply.cpp`, `mime_types.cpp` | Operators: stock replies, the two headers, the text of a reply as tokens. |
| `ReplyText` | all of `handle_request` as text | Extends `RequestText` and `Reply` with the loop over the images (`next_image`, `decode_image`, `run_image`), `combineJsonResults` and the replies. |
| `Images` | the map `retrieveImages` fills | `ImagesOf` is the map, the input of `RequestHandler`. `Lasting` and `Tells` say of a reply what it has to tell, from the files alone: under every name, of the last file with that name. |
| `Maps` | `operator[]` of a `std::unordered_map` | `Assign`, for the images, the results and the history. |
| `Subsequences` | a loop that copies some of the elements of a list | `ChosenAmong` is what the loop has copied after each turn, as a recursive function; used by `PersonPipeline` and `Base64`. |
| `HistoryStorage` | `historyStorage.cpp` | The counter, and the hash in Redis that outlives it. |
| `RequestHandler` | the serving half of `handle_request`, with storage, process and clients | `start_predict`, `predict_image` (one turn of the loop), `save_and_reply`, `tell_history`, `refuse`; `crash` and `restart` between any two steps. |
| `InferenceService` | what the service promises its clients, without the steps of `handle_request` | A request is answered and recorded in one step; a server that goes down cuts everybody off and leaves at most one record nobody was told of. `RequestHandler` implements it (see below). |
| `PersonPipeline` | `PersonPipeline.cpp`, `matU8ToBlob` | `init` with the checks of `read`, then the steps of `run` between two points where the engine's threads can act: `start` (enqueue), `submit_detection`, `wait`, `fetchResults`, `next_result`, `attributes`, `return`. `infer` is the engine. Boxes are fractions of a frame, cut to pixels as the code does. |
| `Client` | `client.cpp`, `source/client/main.cpp` | `formRequest`, `check_file`, `connect`, `open_file`, `write`, `read`; the server as its end of the connection; files that change; a server that is killed. |

`ServerProofs`, `RequestParserProofs`, `RequestFramingProofs`,
`RequestHandlerProofs`, `PersonPipelineProofs`, `ReplyTextProofs` and
`ClientProofs` hold the proofs about the module each is named after, `SubsequencesProofs` the lemmas about
`Subsequences` and about concatenation. `MCRequestFraming`,
`MCRequestHandler`, `MCReplyText`, `MCPersonPipeline` and `MCClient` give TLC its
instances; `Server` needs no more than its `Server.cfg`.

How they fit together: `Server` sees the parser and the handler through their
results (more, a reply, an exception), `RequestParser` and `RequestFraming` say
when the parser has which result, `ReplyText` and `RequestHandler` what becomes
of a complete request: the one follows the text of a single request from the files
of the client to its reply, the other the steps of many requests through crashes
and restarts, with the text abstracted to what `ReplyText` shows of it (the map of
the files, and when the handler throws). Both see `PersonPipeline::run` through
the fact that `PersonPipeline` checks: the answer to an image depends on that
image (and on the models being there) alone. `Client` sees the server as a
process that reads a whole request, replies and closes: `ParsedAsSent` and
`Answered` are why it may.

## The runs

| Run | Instance | Shows |
|---|---|---|
| `server` | 3 connection objects, 1 unread chunk; 117 000 states | All safety, refinement and liveness properties of the event loop. |
| `parser` | 15 characters, 2 headers, 4 characters of body, lengths up to 30, for a peer that sends anything; the requests of the client with bodies of up to two lines, buffer of 3; 417 000 states | `HeaderOpen`, `LengthAsDeclared`, `BodyFramed`, `LinesPaired` for every sequence of characters. A request of the client, cut anywhere, is parsed as it was sent, with nothing left unread (`ParsedAsSent`), and is answered (`Answered`). |
| `handler` | 3 clients, 7 kinds of request, 1 restart, every fault; 368 000 states | `AnswerIsOwn`, `RecordsWhole`, `AnsweredIsSaved`, `HistoryKept`, `HistoryTold`, `Settled`, and that the handler implements `InferenceService` (`ImplementsInference`). |
| `request_text` | up to 3 files; contents with each bit alone, none and all, of up to 3 bytes, in both alphabets; every single loss or doubling of a token; images cut anywhere or with a wrong character anywhere; every uri of up to 3 characters out of 11, which has every kind of escape, and longer ones with two; 69 000 states | The reply tells once of every file name, from the bytes of the last file with it, framed by its Content-Length (`RepliedAsSent`); decoding never reads past the end of its text (`InBounds`) and gives back the bytes that were encoded (`BytesAsEncoded`); no damage pairs a name with another's image (`Paired`); a uri is decoded to the path it stands for, or refused if it stands for none (`DecodedAsEncoded`); the loops end (`Decided`). |
| `pipeline` | 1 or 2 images out of 9 kinds and 2 sizes, 13 shapes of model files, failing loads and inferences; 36 000 states | `RunIsFunction`, `OutputsAreCurrent`, `AllRun`. |
| `client` | 2 paths, 6 calls, 3 transfers each way, files changing, a killed server | `AllFilesSent`, `ResponseWhole`, `ClientEnds`. |

Why the bounds are enough to meet the interesting cases:

- `Connections` has three objects because one is always reserved for the next
  accept; the two others let a handler of one connection interleave with
  everything another one does. A second unread chunk would only repeat a read.
- In `RequestParser` two headers are enough for a repeated `Content-Length`, for a
  header before and after it, and for continued lines; two digits reach past the
  four characters of body, and a minus sign past every length. `SizeMax` is 30 so
  that `3` followed by another digit does not fit, as in `std::stoul`.
- A buffer of three bytes cuts within a CR LF, a name and a value, and makes every
  request need several reads.
- Three clients: one whose request is in progress, one that has been answered, one
  that waits or asks for the history. `HandleRange` is three, the number of
  requests, so the counter reaches its end without wrapping within a run.
- One damaged token in a message of two or three parts is enough to remove or
  double any delimiter. Four tokens or more would have to change together to make
  a part look like another one.
- Base64 works on three bytes and four characters at a time and combines
  neighbours only: three bytes of all values with a single bit cover every shift
  and mask, four and five bytes the step to the next group.
- The model files of the `pipeline` run differ from those of the repository in one
  of the things `read`, `matU8ToBlob` and `GetPersonAttributes` look at; a
  detector with room for two proposals cuts a list of detections short. Two sizes
  of frames make the size of the one before a wrong one, and boxes that do not end
  on a pixel show which way they are cut.
- Two images: what the first leaves behind in the members of the pipeline is there
  for the second; a third sees nothing that the second does not.

Deadlock is not checked where the program stops: a parser that has given its
result, a function that has returned, a client that has ended. In `Server` and
`RequestHandler` the end is an explicit stuttering action (`Ended`, `Quiet`) and
deadlock is checked.

### Runs in which the code disagrees with its documents

- `image_without_person` (`SurvivesRequests`): `PersonPipeline::run` returns an
  empty string for an image without a person, `combineJsonResults` calls
  `substr(2, ...)` on it, and the exception ends the server with every
  connection. README.md:29 promises a JSON reply.
- `unique_handles` (`HandleUnique`): the counter restarts at 0 with the process and
  the hash in Redis does not, so after a restart the first job replaces an old
  record. historyStorage.hpp:43 promises unique handles. The properties about
  records therefore speak of the first life of the process (`restarts = 0`).
- `multipart_standard` (`StandardAccepted`): the boundary is cut at the first of
  `/`, `r`, space and `;`, and that character is kept. A boundary with an `r`, or
  one that a parameter follows, is then not found in the body.
- `json_batch` (`ReplyIsJson`): `combineJsonResults` cuts the braces off each result
  and puts the rest one after the other without a comma, so the reply to two
  images, and the record of it, is no JSON.
- `client_invalid` (`InvalidIsFalse`): the request for a path that is no image file
  (nothing there, or a directory) has no implementation object, and `operator
  bool` dereferences it. client.hpp:92-93 says it gives
  false.
- `client_killed` (`EmptyUnlessSuccess`): a connection that is reset makes
  `sendRequest` throw a `boost::system::error_code`, which its
  `catch (std::exception&)` does not catch. client.hpp:106 says the result is
  empty. A server killed halfway through a reply is the other way to break the
  sentence: the client takes the part it has for a success.

Seen on the way, and not runs of their own:

- Files of one name: `out[filename] = base64image` (request_handler.cpp:237) keeps
  the last of them, and nothing is said of the others, where README.md:5 speaks of
  every incoming image. The client makes such requests of files in different
  directories, because it sends the file name alone. `AnswerIsOwn` and
  `RepliedAsSent` are therefore about file names, and say so; the instances of both
  have requests with two files of one name.
- Loose escapes: request_handler.hpp:40-41 says that `url_decode` returns false if
  the encoding was invalid, and it takes `%2g`, `%+2` and `%-1`, because `std::hex`
  does, swallowing the two characters after the percent sign. `DecodedAsEncoded`
  says what is made of them.
- What `sendRequest` returns is all of the reply, status line and headers included,
  and not the JSON alone.
- Base64 on several lines is cut at its first CR LF by
  `retrieveImageFromMultiPartMessage`, so that the removal of line feeds in `decode`
  never has anything to remove (the parser lets no line feed into a body without a
  carriage return, `LinesPaired`).
- `PersonDetection::read` looks at the third and fourth dimension of its output
  before it makes sure that there are four.

### The two abstract specifications

`Server` implements `ConnectionService`: a connection is mapped to the kind of its
operation in flight. `RequestHandler` implements `InferenceService` with `reply`,
`history`, `sent` and `got` as they are, `up` as `process = "up"` and `first` as
`restarts = 0`. The steps of the loop over the images are stutters;
`save_and_reply` is where a request happens. `GoDown` has a second alternative
because HSET may fail after it wrote its record. After a restart a record may
replace another (see `unique_handles`), so the abstract `Record` only promises new
handles while `first` holds.

## Fairness

- `Server`: io_context runs every handler that is queued, as long as handlers
  return, so each handler is weakly fair. Of the operations only those of a peer
  that has gone are: the code sets no timeouts, and a silent peer can hold a
  read or a write for ever. `StopEndsRun` holds nevertheless, because
  `handle_stop` cancels them. Nothing is assumed of peers, accepts or the signal.
- `RequestFraming`: the client's blocking write goes on while there is something
  to write, and the server reads and parses what has arrived.
- `RequestHandler`: the single thread goes on with a request it has begun, takes
  the next one, and writes what it has answered. Faults are never fair.
- `ReplyText`, `PersonPipeline`: a loop on one thread goes on; the inference
  engine finishes, or fails, what was started.
- `Client`: both processes go on while they can. Neither the kill nor changes of
  files are fair.

## What is proved

Each proof module states an inductive invariant, `IInv`, of which the properties
below follow; none of these is inductive alone, and what is said of `IInv` is what
they need besides.

**The event loop** (`ServerProofs`), for every set of connection objects and every
bound on unread chunks: `TypeOK`, `OneInFlight`, `NothingWaitsUnmanaged`,
`AcceptOutstanding`, `ReplyEndsReading`, `ReplyStable`, `NoStartAfterStop`, and that
it implements `ConnectionService` (`Implementation`). `OneInFlight` for instance
needs to know that closing a socket and leaving `connections_` go together
(`ManagedOpen`), that an operation which ends with `operation_aborted`, and is
then ignored by its handler, belongs to a connection already released
(`AbortedReleased`), and that the object in `new_connection_` is used by nobody
(`NextUnused`). `IInv` is the conjunction of all of these with what links the
acceptor, the accept and the signal (`Accepting`, `AcceptedOpen`, `Stopped`). Its
proof has one step per handler and per action of the outside; `StopCancels`,
`StopKeeps` and `StopKeepsOne` say once what `connection::stop` does to the
operations of a set of connections. The refinement maps a connection to the kind
of its operation in flight; `SessionBecomes` reduces each step to the one
connection it changes.

**The parser** (`RequestParserProofs`), for every alphabet, width of `size_t` and
sequence of characters, and likewise for every client, buffer and cut of
`RequestFraming`: `TypeOK`, `HeaderOpen`, `LengthAsDeclared`, `BodyFramed`,
`LinesPaired`. The invariant says in which states there are headers
(`HeadersBegin`), that `expectedContentLength` follows the last Content-Length
header one line behind and stays behind when `stoul` throws (`LengthFollows`), that
`contentCtr` counts the body and no line end of it was at or after the length
(`BodyCounted`), and which state the last character of the body left (`LineEnds`).
`TableRows` groups the rows of the table by what they do to the headers, and each
part of the invariant goes through these groups.

`RequestFramingProofs` adds `ParsedAsSent`: what the parser makes of a request of
the client is what was sent, and nothing of it is left unread, for any number of
headers, every body and buffer, wherever TCP cuts. What is in the buffer, in the
network and not yet written is one text, `Pending`; sending and reading leave it as
it is (`Moved`), and a turn of `parse` takes its first character (`Advance`). The
invariant (`Follows`) gives for each state of the parser the place in the request it
stands for: what the parser holds is what comes before that place, `Pending` what
comes after it (`InName`, `InValue`, `InBody`, ...). The table has exactly one row
for the character there (`OnlyRow`), so that nothing is refused, and the body ends
the request no sooner than its last character, because by then all headers that
declare a length have declared its own (`LengthKnown`). That the recursive function
`headersFrom` has a value is an induction on the number of headers
(`HeadersFromIs`). `RequestsAssumption` says what the requests of a client are, as
`sendRequest` writes them: a path without blanks, names and values of the grammar,
a Content-Length that is the length of the body, and CR LF at the ends of lines and
nowhere else, which a file name with a line end in it would break.

**The request handler with the storage** (`RequestHandlerProofs`), for every set of
jobs, kinds of request and faults, through any number of restarts: `TypeOK`,
`AnswerIsOwn`, `RecordsWhole`. `AnswerIsOwn` speaks of the files of a request, not of
the map the code makes of them; `WholeTells` is the step from the one to the other.
The invariant ties `images` and `results` to the
request in progress (`InProgress`), replies to what was sent (`RepliesOwn`), what a
client got to its reply (`GotOwn`), and gives every record an owner of its own that
has its end (`RecordsOwned`, an injection from the records to the jobs). With
`HandlesSuffice`, that there are no more jobs than handles: `AnsweredIsSaved`,
`HistoryKept`, `HistoryTold`, and that the handler implements `InferenceService`
(`Implementation`). These need a second invariant, `SInv`, for the first life of the
process: each prediction has a record of its own, and `m_ctr` is the number of
predictions, so that `save` never replaces a record. `m_ctr` is a `uint32_t`:
`HandlesSuffice` says that a process answers at most 2^32 predictions, which a
server that takes them one at a time does not exceed in a lifetime. Without it the
counter would come round and the four would be false: what happens then is in no
property.

**The pipeline** (`PersonPipelineProofs`), for every batch of images, all
detections in them, every pair of networks, and whatever may fail: `TypeOK`,
`OutputsAreCurrent`, `RunIsFunction`. The invariant says which request may be
running (`Engine`), that its input is the frame or the person at hand and its output
that of its input (`Current`), what `start` has set for the rest of the run
(`Frames`, `Fresh`), and that the ROIs at each turn of the loop are those of the
persons before `next`, each of whom the second network could tell of (`Loop`).
`RunIsFunction` compares the loop with the reference `Expected`, which looks at all
the persons of an image at once; the proof that they agree goes by the position in
the list and rests on `ChosenAmongIs`.

**Decoding the images** (`ReplyTextProofs`), for every request whatever its tokens:
`InBounds`, base64 never reads past the null character that ends its text. It
needs that this character is none of the alphabet (`EndThrows`), and that what
`retrieveImages` cuts out of a body is a text (`PartIs`).

`BytesAsEncoded`, for contents of any length, in either alphabet: no turn of
`base64_decode` throws on the text that `base64_encode` makes of them, and when it is
through the bytes are theirs. The invariant (`RoundTrip`) says that after g turns the
first 3g bytes are there, or all of them. It needs the text, a concatenation of groups
of four (`EncodedIs`, by `FlattenFours`), that a character is at one place of its
alphabet and at the same in the other (`CharsDiffer`), so that `pos_of_char` gives
back the six bits it was taken for (`CharIs`), and that four times six bits are three
bytes (`SixBits`); `GroupDecodes` puts these together for one turn, with one, two or
three bytes.

**The path in the uri** (`ReplyTextProofs`): `DecodedAsEncoded`, for every uri and
the path it stands for. Between two turns `url_decode` is at the place of
a character of the path, and has decoded those before it (`UriInv`, `DecodedUpTo`);
a turn takes what that character is written as (`WrittenTurn`, `DigitsAre`, `HexIs`),
or fails on a percent sign after which nothing is written (`NoNumberTurn`, `NoHexIs`).
`UrisAssumption` says what a uri and its path have to do with each other: each
character is written at its place, as itself, as a plus sign or as an escape
(`Stands`), up to the end, or, in a uri that is refused, up to an escape that is cut
off or begins with no number (`Written`). An escape is two hexadecimal digits, or,
looser, one digit and anything that is none, or a sign and a digit; `0x` and `0X` are
no number. `EveryUriRead` shows that every text of the characters a request line may
carry has such a reading, so that the assumption leaves no uri out.

**The client** (`ClientProofs`), for every set of paths, every call and any number
of transfers: `AllFilesSent` and `ResponseWhole`. The invariant says that each
side's transfers follow the other's (`Progress`), that the body is the prefix of
the files looked at (`Collected`), and that only a server that has replied or died
closes (`Orderly`).

The proofs assume what the modules state about their constants: numbers that are
positive (`MaxUnreadAssumption`, `BoundsAssumption`, `WordAssumption`,
`HandleAssumption`), an alphabet that has the characters `consume` names
(`AlphabetAssumption`), and inputs of their types (`ClientAssumption`, `FormsAssumption`,
`BatchesAssumption`, `TokensAssumption`, `RequestsAssumption`, `UrisAssumption`). TLC
evaluates them on the instances of the runs.

What a recursive definition gives for every input needs an induction, and the
induction theorems of the library take an operator, which no prover here can
instantiate. `SubsequencesProofs` therefore has an induction of its own over a
set (`InductionBySet`: a set with 0 that is closed under successor has all of
`Nat`), enough for `ChosenAmong` and its prefixes (`PrefixExists`), for `FlattenSeq`
(`FlattenIs`) and for `headersFrom`.

Only model-checked:

- Every liveness property (`StopEndsRun`, `Answered`, `Settled`, `Decided`, `AllRun`,
  `ClientEnds`, ...): they depend on fairness and on when an action is enabled.
- `RepliedAsSent`, `Paired`: both are about the body as `Body` writes it, whole or
  with one piece missing or doubled, which only the instances of the run define; the
  constants of the module allow any body, for which they do not hold.

## What is not modelled

- Method and version of a request, which nothing reads; the wording of pages and
  status lines; the JSON text within the member of one image.
- The PEM and MIME variants of base64, which nothing calls.
- The colors of a person, which are only logged; `setRoiBlob` and
  `printPerformanceCounts`, which nothing calls; the logging and command line
  headers of the OpenVINO samples, and what of `common.hpp` and `ocv_common.hpp`
  is not `matU8ToBlob`.
- Clients that count otherwise than the client of this repository: one that declares
  a longer body than it sends waits for ever, because nothing has a timeout.
- What `generateHandle` does after 2^32 predictions of one process.
- The command line of the client: `Asked` holds what `formRequest` may be called
  with.
- The mutex in `generateHandle`: one thread calls it.
- Timeouts and the time an inference takes: there are none in the code, and the
  models have no clock.
- `source/common/common.cpp`, which nothing calls; the build files, the install
  script and the models.

## Plan

Done: event loop, connections and their refinement, parser and framing, request
handler and storage with their refinement, text of requests and replies with
base64, pipeline, client; the proofs above.

Next, most important first:

1. The server and the client in one model: connections of `Server` with the
   client's transfers, so that `Client`'s view of the server becomes a refinement.
2. A theorem that the reply to a whole request tells of every file name (`RepliedAsSent`),
   from the body as `Body` writes it: the searches of `retrieveImages` find the parts.
