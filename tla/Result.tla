------------------------------- MODULE Result -------------------------------
(***************************************************************************)
(* elf/errors.hpp: Result<T, Error> is a value or an error code; the text  *)
(* of the message is left out.                                             *)
(***************************************************************************)
ErrorCode == {"TruncatedFile", "BadMagic", "UnsupportedClass", "UnsupportedDataEncoding",
              "InconsistentHeaderSize", "OffsetOutOfBounds", "IndexOutOfBounds", "IoError",
              "AlreadyPatched", "Unsupported", "InvalidArgument", "RelocationFailed"}

Ok(v)     == [ok |-> TRUE, value |-> v]
Err(code) == [ok |-> FALSE, code |-> code]

\* if (!r.ok()) return r.error(); and go on with r.value().
AndThen(r, F(_)) == IF r.ok THEN F(r.value) ELSE r
=============================================================================
