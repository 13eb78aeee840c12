------------------------------ MODULE Locales ------------------------------
(***************************************************************************)
(* Locales and regions (src/src/engines/mod.rs): their numbers, their codes *)
(* and the conversions between the two.  A client picks a locale by number  *)
(* or by code, and keeps its code for the next time.                       *)
(***************************************************************************)
EXTENDS Integers, Sequences

\* The locales by number and the regions by number, from 0.
LocaleNames ==
  <<"Japanese", "UsEnglish", "UsFrench", "UsSpanish", "EuEnglish", "EuFrench",
    "EuSpanish", "German", "Dutch", "Italian", "Russian", "Korean", "Chinese",
    "Taiwanese">>
RegionNames == <<"Japan", "NorthAmerica", "Europe", "Korea", "China">>

\* A code is that of a region and that of a language.
LocaleCodes ==
  <<<<"jp", "ja">>, <<"us", "en">>, <<"us", "fr">>, <<"us", "es">>,
    <<"eu", "en">>, <<"eu", "fr">>, <<"eu", "es">>, <<"eu", "de">>,
    <<"eu", "nl">>, <<"eu", "it">>, <<"eu", "ru">>, <<"kr", "ko">>,
    <<"zh", "cn">>, <<"zh", "tw">>>>
RegionCodes == <<"jp", "us", "eu", "kr", "zh">>
NoCode == <<"", "">>

VARIABLES
  locale,  \* the locale the client has
  region,  \* its region
  kept     \* the code the client kept

localeVars == <<locale, region, kept>>

FromNumber(names, n) == IF n \in 0..(Len(names) - 1) THEN names[n + 1] ELSE "Invalid"

NumberOf(names, name) == (CHOOSE i \in 1..Len(names) : names[i] = name) - 1

AsStr(l) == IF l = "Invalid" THEN NoCode ELSE LocaleCodes[NumberOf(LocaleNames, l) + 1]

\* The languages of Europe that America has too are taken for America's.
FromStr(code) ==
  LET meant == IF code \in {"eu"} \X {"en", "fr", "es"} THEN <<"us", code[2]>> ELSE code
      found == {i \in 1..Len(LocaleCodes) : LocaleCodes[i] = meant}
  IN IF found = {} THEN "Invalid" ELSE LocaleNames[CHOOSE i \in found : TRUE]

RegionFromStr(code) ==
  LET found == {i \in 1..Len(RegionCodes) : RegionCodes[i] = code}
  IN IF found = {} THEN "Invalid" ELSE FromNumber(RegionNames, (CHOOSE i \in found : TRUE) - 1)

\* Mutant: a language has one region.
RegionOfLanguage(l) == RegionFromStr(AsStr(FromStr(AsStr(l)))[1])

RegionOf(l) ==
  CASE l = "Japanese" -> "Japan"
    [] l \in {"UsEnglish", "UsFrench", "UsSpanish"} -> "NorthAmerica"
    [] l \in {"EuEnglish", "EuFrench", "EuSpanish", "German", "Dutch", "Italian",
              "Russian"} -> "Europe"
    [] l = "Korean" -> "Korea"
    [] l \in {"Chinese", "Taiwanese"} -> "China"
    [] l = "Invalid" -> "Invalid"

-----------------------------------------------------------------------------
LocaleInit == locale = "Invalid" /\ region = "Invalid" /\ kept = NoCode

Pick(l) == locale' = l /\ region' = RegionOf(l)

PickNumber(n) == Pick(FromNumber(LocaleNames, n)) /\ UNCHANGED kept

Keep == kept' = AsStr(locale) /\ UNCHANGED <<locale, region>>

PickKept == kept # NoCode /\ Pick(FromStr(kept)) /\ UNCHANGED kept

LocaleNext == (\E n \in -1..Len(LocaleNames) : PickNumber(n)) \/ Keep \/ PickKept

LocaleSpec == LocaleInit /\ [][LocaleNext]_localeVars

-----------------------------------------------------------------------------
(* Properties. *)

\* The conversion from locales to regions and the codes of both, three tables
\* kept by hand, agree: a locale's region is the one its code begins with
\* (From<Locale> for Region, Locale::as_str, Region::from_str).
CodesAgreeWithRegions == region = RegionFromStr(AsStr(locale)[1])
=============================================================================
