----------------------------- MODULE MCSisDecoder -----------------------------
EXTENDS SisDecoder
TwoLengths == <<2, 3, 2>>
SendSets == {{"longName", "slogan"}, {"message"}, {"alert"}, {"universalShortName"},
             {"location", "stationID"}, {"leapSecond"}, {"shortName", "audioService"}}
=============================================================================
