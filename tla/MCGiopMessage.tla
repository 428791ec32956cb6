--------------------------- MODULE MCGiopMessage ---------------------------
EXTENDS GiopMessage

\* Arguments whose alignment differs, every kind of field, references and a nil
\* one in a message, and results like those of a system exception.
MCArguments ==
    { <<>>,
      << <<"octet", 7>>, <<"ulonglong", 8>>, <<"ushort", 9>>, <<"ulong", 10>> >>,
      << <<"string", 2>>, <<"float", 11>>, <<"octet", 7>>, <<"double", 12>> >>,
      << <<"octet", 7>>, <<"doubles", 2>>, <<"octet", 7>>, <<"floats", 1>> >>,
      << <<"doubles", 0>> >>,
      << <<"octet", 7>>, <<"floats", 0>>, <<"blob", 3>> >>,
      << <<"octet", 7>>, <<"object", 1>>, <<"object", 0>>, <<"object", 1>>, <<"doubles", 1>> >>,
      << <<"string", 4>>, <<"ulong", 13>>, <<"ulong", 1>> >> }
============================================================================
