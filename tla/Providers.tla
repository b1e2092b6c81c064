----------------------------- MODULE Providers ------------------------------
(***************************************************************************)
(* The model backends (omniord/router/providers): what each method makes   *)
(* of the answer of its server.  An answer is abstracted to how far it can *)
(* be read; a method returns a value, raises ProviderError, or lets        *)
(* another exception escape: httpx errors are converted, the errors of     *)
(* decoding a body that is not what the API documents mostly are not.      *)
(***************************************************************************)
Replies == {"transport",      \* no answer: connection refused, httpx timeout, ...
            "status",         \* an HTTP status that is not a success
            "not_json",       \* a body that is not a JSON object
            "no_content",     \* an object without the field that is read
            "null_content",   \* one where that field is null
            "good"}

Results == {"value", "ProviderError", "escapes"}

\* client.post or raise_for_status raises httpx.HTTPError.
Rejected(reply) == reply \in {"transport", "status"}

OllamaGenerate(reply) ==
  CASE Rejected(reply) \/ reply \in {"no_content", "null_content"} -> "ProviderError"
    [] reply = "not_json" -> "escapes"
    [] OTHER -> "value"

\* Without content the text is empty; null is iterated.
AnthropicGenerate(reply) ==
  CASE Rejected(reply) -> "ProviderError"
    [] reply \in {"not_json", "null_content"} -> "escapes"
    [] OTHER -> "value"

\* A null content is refused by GenerationResult's validation.
OpenAIGenerate(reply) ==
  CASE Rejected(reply) \/ reply = "no_content" -> "ProviderError"
    [] reply \in {"not_json", "null_content"} -> "escapes"
    [] OTHER -> "value"

\* A null embedding is returned as it is.
OllamaEmbed(reply) ==
  CASE Rejected(reply) \/ reply = "no_content" -> "ProviderError"
    [] reply = "not_json" -> "escapes"
    [] OTHER -> "value"

AnthropicEmbed(reply) == "ProviderError"

OpenAIEmbed(reply) == OpenAIGenerate(reply)

\* One line of a stream; a line without text yields nothing and is no error.
OllamaPiece(reply) ==
  CASE Rejected(reply) -> "ProviderError" [] reply = "not_json" -> "escapes"
    [] OTHER -> "value"

AnthropicPiece(reply) == OllamaPiece(reply)

\* An event without choices is refused; a null content yields nothing.
OpenAIPiece(reply) ==
  CASE Rejected(reply) \/ reply = "no_content" -> "ProviderError"
    [] reply = "not_json" -> "escapes"
    [] OTHER -> "value"

\* make_cloud_provider: the provider selected, if it has a key.
Clouds == {"none", "anthropic", "openai"}

LocalResult(op, reply) ==
  CASE op = "generate" -> OllamaGenerate(reply)
    [] op = "embed"    -> OllamaEmbed(reply)
    [] op = "stream"   -> OllamaPiece(reply)

CloudResult(cloud, op, reply) ==
  CASE cloud = "anthropic" /\ op = "generate" -> AnthropicGenerate(reply)
    [] cloud = "anthropic" /\ op = "embed"    -> AnthropicEmbed(reply)
    [] cloud = "anthropic" /\ op = "stream"   -> AnthropicPiece(reply)
    [] cloud = "openai"    /\ op = "generate" -> OpenAIGenerate(reply)
    [] cloud = "openai"    /\ op = "embed"    -> OpenAIEmbed(reply)
    [] cloud = "openai"    /\ op = "stream"   -> OpenAIPiece(reply)
=============================================================================
