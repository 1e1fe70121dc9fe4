----------------------------- MODULE StatusCodes -----------------------------
(***************************************************************************)
(* The status codes of smartStatusCode.h: the numbers the calls of the     *)
(* other modules return by name, and the text that is printed for one.  A  *)
(* text is its severity and the name after it, spelling left out.          *)
(***************************************************************************)
EXTENDS Naturals

\* enum StatusCode.
StatusCode ==
    [ SMART_OK |-> 0, SMART_NODATA |-> 1, SMART_CANCELLED |-> 2,
      SMART_UNSUBSCRIBED |-> 3, SMART_WRONGID |-> 4, SMART_UNKNOWNSTATE |-> 5,
      SMART_NOTACTIVATED |-> 6, SMART_ACTIVATED |-> 7, SMART_NOTALLOWED |-> 8,
      SMART_ACTIVE |-> 9, SMART_PASSIVE |-> 10, SMART_DISCONNECTED |-> 11,
      SMART_INCOMPATIBLESERVICE |-> 12, SMART_PORTALREADYUSED |-> 13,
      SMART_UNKNOWNPORT |-> 14, SMART_SERVICEUNAVAILABLE |-> 15,
      SMART_UNKNOWNCOMPONENT |-> 16, SMART_TIMEOUT |-> 17, SMART_STATUS |-> 256,
      SMART_ERROR |-> 512, SMART_ERROR_COMMUNICATION |-> 513,
      SMART_ERROR_UNKNOWN |-> 514, SMART_ERROR_FATAL |-> 515 ]

\* The names StatusCodeConversion() has a case for: not the two limits.
Printable == DOMAIN StatusCode \ {"SMART_STATUS", "SMART_ERROR"}

Severity(code) ==
    IF code <= StatusCode.SMART_STATUS THEN "STATUS"
    ELSE IF code >= StatusCode.SMART_ERROR THEN "ERROR"
    ELSE "unknown"

\* The case the switch takes for a code, or its default.
Name(code) ==
    IF \E name \in Printable : StatusCode[name] = code
    THEN CHOOSE name \in Printable : StatusCode[name] = code
    ELSE "unknown code"

StatusCodeConversion(code) == <<Severity(code), Name(code)>>

=============================================================================
