------------------------------ MODULE ModelServers ------------------------------
(***************************************************************************)
(* How the server talks to its language models: the Ollama and the hosted  *)
(* adapter (adapters/llm/ollama.py, hosted.py, built by factory.py), the   *)
(* functions of ollama.py, and the route that lists the models.            *)
(*                                                                         *)
(* An endpoint answers or does not, and that may change between the probe  *)
(* that finds it and the request.  What a stream carries is a sequence of  *)
(* kinds of lines; a word is known by the place of its line.  The server's *)
(* calls share nothing, so one is followed at a time.                      *)
(***************************************************************************)
EXTENDS Values, FiniteSets

CONSTANTS
  LlmSettings,        \* how an adapter may be set up: [kind, base, model]
  LlmModels,          \* the names of models
  Embedders,          \* those whose name holds one of the keywords
  Installations,      \* what may be installed: functions of the endpoints to sequences
  Reachables,         \* the sets of endpoints that may answer at the start
  MaxStreamLines,     \* bound on the lines of a stream,
  MaxLlmCalls,        \* on the calls, where all but the last list models,
  MaxFlips            \* and on how often an endpoint comes or goes

VARIABLES
  llmSetting, installed, answering, flips, llmCalls,
  offered,            \* the last answer of GET /models: [models, active]
  request,            \* the call under way
  steady              \* history: the endpoints that answered since the call began, up to its stream

llmVars == <<llmSetting, installed, answering, flips, llmCalls, offered, request, steady>>

DefaultUrls == <<"docker", "localhost", "loopback">>
Endpoints == Elements(DefaultUrls) \cup {"openai", "set"}

ASSUME LlmAssumption ==
  /\ {MaxStreamLines, MaxLlmCalls, MaxFlips} \subseteq Nat
  /\ Embedders \subseteq LlmModels /\ None \notin LlmModels \cup Endpoints
  /\ Installations \subseteq [Endpoints -> Seq(LlmModels)]
  /\ \A s \in LlmSettings :
       s.kind \in {"ollama", "hosted"} /\ s.base \in Endpoints \cup {None} /\ s.model # None

Given(value, other) == IF value = None THEN other ELSE value

\* The URL of the settings is probed first, and no URL twice.
get_candidate_ollama_urls ==
  (IF llmSetting.base = None THEN <<>> ELSE <<llmSetting.base>>)
     \o Only(DefaultUrls, Endpoints \ {llmSetting.base})

\* The URL that is used without a probe, None for none.
get_llm_adapter ==
  IF llmSetting.kind = "hosted" THEN Given(llmSetting.base, "openai") ELSE llmSetting.base
BaseUrl(through) == IF through = "adapter" THEN get_llm_adapter ELSE None

\* The Ollama adapter requests no embedding model, its default instead.
resolve_model(through, asked) ==
  LET chosen == Given(asked, llmSetting.model) IN
  IF through = "adapter" /\ llmSetting.kind = "ollama" /\ chosen \in Embedders
  THEN llmSetting.model ELSE chosen

list_models(through, models) ==
  LET generative == Only(models, LlmModels \ Embedders) IN
  IF through = "adapter" /\ llmSetting.kind = "ollama" /\ generative # <<>>
  THEN generative ELSE models

active_model(models) ==
  IF llmSetting.model \in Elements(models) \/ models = <<>> THEN llmSetting.model ELSE Head(models)

------------------------------------------------------------------------------
(* The lines of a stream. *)

\* Empty, not to be parsed, without a word, with one; the last one may carry one.
LineKinds ==
  {"blank", "noise", "quiet", "word", "last"}
    \cup (IF llmSetting.kind = "hosted" THEN {} ELSE {"lastword"})
Streams == UNION {[1..n -> LineKinds] : n \in 0..MaxStreamLines}

Idle ==
  [pc |-> "idle", op |-> "list", through |-> "adapter", asked |-> None, model |-> None, tried |-> 0,
   url |-> None, lines |-> <<>>, read |-> 0, got |-> <<>>, cut |-> FALSE, listed |-> <<>>]

LlmInit ==
  /\ llmSetting \in LlmSettings /\ installed \in Installations
  /\ answering \in Reachables
  /\ flips = 0 /\ llmCalls = 0 /\ offered = [models |-> <<>>, active |-> None]
  /\ request = Idle /\ steady = {}

------------------------------------------------------------------------------

Keeps == UNCHANGED <<llmSetting, installed, flips, llmCalls, offered, answering, steady>>

\* An endpoint starts or stops answering.
Flip ==
  /\ flips < MaxFlips /\ request.pc \in {"probing", "requesting"}
  /\ \E url \in Endpoints :
       /\ answering' = IF url \in answering THEN answering \ {url} ELSE answering \cup {url}
       /\ steady' = steady \ {url}
  /\ flips' = flips + 1
  /\ UNCHANGED <<llmSetting, installed, llmCalls, offered, request>>

\* A caller lists the models, or has one complete or stream an answer.
StartCall ==
  /\ request.pc = "idle" /\ llmCalls < MaxLlmCalls
  /\ \E op \in {"list", "generate", "stream"}, through \in {"adapter", "functions"},
        asked \in {None} \cup LlmModels :
       /\ op = "list" => asked = None
       /\ op # "list" => llmCalls + 1 = MaxLlmCalls
       /\ through = "functions" => op # "generate" /\ llmSetting.kind = "ollama"
       /\ request' = [Idle EXCEPT
            !.op = op, !.through = through, !.asked = asked,
            !.model = resolve_model(through, asked), !.url = BaseUrl(through),
            !.pc = IF BaseUrl(through) = None THEN "probing" ELSE "requesting"]
  /\ llmCalls' = llmCalls + 1 /\ steady' = answering
  /\ UNCHANGED <<llmSetting, installed, answering, flips, offered>>

Found(url) == url \in answering

\* The next candidate is asked for its tags.  When none answered the adapter tries
\* 127.0.0.1 all the same, and the functions give up.
Probe ==
  /\ request.pc = "probing"
  /\ LET urls == get_candidate_ollama_urls
         url == urls[request.tried + 1] IN
     request' = [request EXCEPT
       !.tried = @ + 1,
       !.url = IF Found(url) THEN url ELSE IF request.tried + 1 = Len(urls) THEN "loopback" ELSE None,
       !.pc = CASE Found(url) -> "requesting"
                [] ~Found(url) /\ request.tried + 1 < Len(urls) -> "probing"
                [] OTHER -> IF request.through = "adapter" THEN "requesting" ELSE "ended"]
  /\ Keeps

\* The request does not get through, or is refused: only a listing hides that.
RequestFails ==
  /\ request.pc = "requesting"
  /\ request' = [request EXCEPT !.pc = IF request.op = "list" THEN "ended" ELSE "failed"]
  /\ Keeps

Refused ==
  /\ request.pc = "requesting" /\ request.url \in answering
  /\ request' = [request EXCEPT !.pc = "ended"]
  /\ Keeps

TagsListed ==
  /\ request.pc = "requesting" /\ request.url \in answering /\ request.op = "list"
  /\ request' = [request EXCEPT
       !.pc = "ended", !.listed = list_models(request.through, installed[request.url])]
  /\ Keeps

\* A completion answers a text, or none (a hosted server without choices).
generate ==
  /\ request.pc = "requesting" /\ request.url \in answering /\ request.op = "generate"
  /\ \E line \in {"quiet", "word"} :
       request' = [request EXCEPT
         !.pc = "ended", !.lines = <<line>>, !.read = 1, !.got = IF line = "word" THEN <<1>> ELSE <<>>]
  /\ Keeps

\* Where the stream comes from does not matter to how it is read.
stream_generate ==
  /\ request.pc = "requesting" /\ request.url \in answering /\ request.op = "stream"
  /\ \E lines \in Streams, cut \in BOOLEAN :
       request' = [Idle EXCEPT !.pc = "streaming", !.op = "stream", !.lines = lines, !.cut = cut]
  /\ steady' = {} /\ UNCHANGED <<llmSetting, installed, flips, llmCalls, offered, answering>>

Ends(line) == line \in {"last", "lastword"}
Carries(line) == line \in {"word", "lastword"}

ReadStreamLine ==
  /\ request.pc = "streaming" /\ request.read < Len(request.lines)
  /\ LET at == request.read + 1
         line == request.lines[at] IN
     request' = [request EXCEPT
       !.read = at, !.got = IF Carries(line) THEN Append(@, at) ELSE @,
       !.pc = IF Ends(line) THEN "ended" ELSE @]
  /\ Keeps

\* The server closes the stream, or the connection breaks.
StreamCloses ==
  /\ request.pc = "streaming" /\ request.read = Len(request.lines)
  /\ request' = [request EXCEPT !.pc = IF request.cut THEN "failed" ELSE "ended"]
  /\ Keeps

\* The caller has its answer.  The route offers what the adapter lists.
get_models ==
  /\ request.pc \in {"ended", "failed"}
  /\ offered' = IF request.op = "list" /\ request.through = "adapter"
                THEN [models |-> request.listed, active |-> active_model(request.listed)] ELSE offered
  /\ request' = Idle /\ steady' = {}
  /\ UNCHANGED <<llmSetting, installed, answering, flips, llmCalls>>

LlmNext ==
  \/ Flip \/ StartCall \/ Probe \/ RequestFails \/ Refused \/ TagsListed
  \/ generate \/ stream_generate \/ ReadStreamLine \/ StreamCloses \/ get_models

LlmSpec == LlmInit /\ [][LlmNext]_llmVars

------------------------------------------------------------------------------

\* A request always has a URL and a model, and a stream is read in the order of its
\* lines, no further than they go (OllamaAdapter.stream_generate).
LlmTypeOK ==
  /\ request.pc \in {"idle", "probing", "requesting", "streaming", "ended", "failed"}
  /\ request.pc = "requesting" => request.url \in Endpoints /\ request.model # None
  /\ request.read \in 0..Len(request.lines)
  /\ \A i \in DOMAIN request.got : i > 1 => request.got[i - 1] < request.got[i]
  /\ Elements(offered.models) \subseteq LlmModels /\ steady \subseteq answering

\* What a caller is given is every word up to the end of the answer, none left out by
\* blank or garbled lines, and nothing after the line that ends it (stream_generate).
StreamedWhole ==
  LET open(i) == \A j \in 1..(i - 1) : request.lines[j] \notin {"last", "lastword"}
      words == {i \in DOMAIN request.lines :
                  open(i) /\ request.lines[i] \in {"word", "lastword"}}
  IN  /\ Elements(request.got) = {i \in words : i <= request.read}
      /\ request.pc = "ended" => Elements(request.got) = words

\* An endpoint that answered all the time is not missed: the request goes to an
\* endpoint found no later, and never to one that was silent at its probe while
\* another could be had (_find_active_ollama_url, _resolve_base_url).
FirstAnsweringUsed ==
  request.pc = "requesting" /\ request.tried > 0 =>
    /\ \A i \in 1..(request.tried - 1) : get_candidate_ollama_urls[i] \notin steady
    /\ Elements(get_candidate_ollama_urls) \cap steady # {}
         => /\ request.url = get_candidate_ollama_urls[request.tried]
            /\ flips = 0 => request.url \in answering

\* With a default that is none, no embedding model is asked to write through the
\* Ollama adapter, whatever model the caller names (_resolve_generative_model).
NeverEmbedding ==
  request.pc # "idle" /\ request.through = "adapter" /\ llmSetting.kind = "ollama"
     /\ llmSetting.model \notin Embedders
    => request.model \notin Embedders

\* A model the route offers is the one a call that names it gets, as long as some
\* installed model can write; and so is the one it calls active (get_models).
OfferedIsUsed ==
  (\A url \in DOMAIN installed : Elements(installed[url]) \subseteq Embedders => installed[url] = <<>>)
    => /\ request.pc # "idle" /\ request.asked \in Elements(offered.models) => request.model = request.asked
       /\ offered.models # <<>> =>
            /\ offered.active \in Elements(offered.models)
            /\ llmSetting.kind = "ollama" => Elements(offered.models) \cap Embedders = {}
==============================================================================
