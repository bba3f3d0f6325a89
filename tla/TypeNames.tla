------------------------------ MODULE TypeNames ------------------------------
(***************************************************************************)
(* GetDemangledTypeName<T>(): the name of a signal's class, cut out of the *)
(* text by which the compiler names the function that asks for it.  A text *)
(* is a sequence of words, and sizes and positions count words.            *)
(***************************************************************************)
EXTENDS Integers, Sequences, FiniteSetsExt

CONSTANTS Before,            \* the compiler's text of TypeNameArray<T>() before T ...
          After,             \* ... and after it
          kPrefix, kSuffix,  \* the words the code looks for with this compiler
          npos               \* std::string_view::npos, the largest size_t

Places(text, word) == {i \in 0..(Len(text) - 1) : text[i + 1] = word}

find(text, word) == IF Places(text, word) = {} THEN npos ELSE Min(Places(text, word))

rfind(text, word) == IF Places(text, word) = {} THEN npos ELSE Max(Places(text, word))

kFunction(T) == Before \o T \o After

(* size_t: past npos it begins again with 0.                               *)
kStart(T) == (find(kFunction(T), kPrefix) + 1) % (npos + 1)

Mutant_kEnd(T) == find(kFunction(T), kSuffix)   \* ends at the first bracket

kEnd(T) == rfind(kFunction(T), kSuffix)

(* The static_assert of TypeNameArray().                                   *)
Compiles(T) == kStart(T) < kEnd(T)

SubstringAsArray(text, first, size) == SubSeq(text, first + 1, first + size) \o <<"NUL">>

TypeNameArray(T) == SubstringAsArray(kFunction(T), kStart(T), kEnd(T) - kStart(T))
=============================================================================
