------------------------------ MODULE MC_GeoIP ------------------------------
(* Model-checking instance of GeoIP: three nicks; countries 1 .. 2 (plus  *)
(* id 0, GeoIP's "unknown"); one IPv4 address per id, one address whose   *)
(* id is past COUNTRY_MAX, and one IPv6 address.                          *)
EXTENDS GeoIP, TLC

CONSTANTS n1, n2, n3, a0, a1, a2, a3, v6

MC_Nicks == {n1, n2, n3}
MC_V4 == {a0, a1, a2, a3}
MC_V6 == {v6}

\* GeoIP_id_by_ipnum: a0 is not in the database (0), a3 past the table
MC_IpId(a) == CASE a = a0 -> 0 [] a = a1 -> 1 [] a = a2 -> 2 [] a = a3 -> 3

\* GeoIP_country_code: "--" for 0, then one code per country
MC_CountryCode(i) == <<"--", "AA", "BB", "CC">>[i + 1]

====
